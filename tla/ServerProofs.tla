----------------------------- MODULE ServerProofs -----------------------------
(***************************************************************************)
(* Proofs about serve.py's engine and job queue for any number of chats,   *)
(* jobs, items and waves: one generation at a time (EngineInv), and for    *)
(* the worker's list of stages, that it covers every item of the job that  *)
(* is not settled yet (Covered) and can be cut anywhere it is cut          *)
(* (WellFormed), and when a cancelled job may still begin a generation.    *)
(***************************************************************************)
EXTENDS JobServer, KeyOrders

-----------------------------------------------------------------------------
\* The inductive invariant: the engine.

Pieces(c) == \A k \in DOMAIN c : c[k] = "piece"

Locked == \A x \in Callers : InLock(x) <=> lock = x

\* A generation somebody reads has not put its sentinel yet.
Read ==
    \A k \in DOMAIN gpu : gpu[k].drained =>
       gpu[k].by = lock /\ at[lock] = "drain" /\ Pieces(chan[lock])

Single == \A k, l \in DOMAIN gpu : gpu[k].drained /\ gpu[l].drained => k = l
Private == \A x \in Callers : chan[x] # <<>> => lock = x /\ at[x] = "drain"

EngineInv == EngineTypeOK /\ Locked /\ Read /\ Single /\ Private

-----------------------------------------------------------------------------
\* The jobs.

ItemStates == {"in coda", "in esecuzione", "fatto", "annullato"}
Settled == {"fatto", "annullato"}
JobRecords ==
    [mode : Modes \cup {"none"}, status : Final \cup {"none", "in coda", "in esecuzione"},
     cancel : BOOLEAN, items : Seq(ItemStates), result : BOOLEAN]
Stages ==
    [kind : {"item", "wave", "step", "plan", "phase", "verify", "review"}, items : SUBSET Nat]

\* Stages that bring items the job already has to their end.
Gen(s) == s.kind \in {"item", "wave"}

WellFormed(todo, items) ==
    /\ todo \in Seq(Stages)
    /\ \A k \in DOMAIN todo : Gen(todo[k]) => todo[k].items \subseteq DOMAIN items
    /\ \A k \in DOMAIN todo : todo[k].kind = "phase" => IsFiniteSet(todo[k].items)
    /\ \A k \in DOMAIN todo : k > 1 => todo[k].kind # "plan"
    /\ \A k, l \in DOMAIN todo : k < l /\ Gen(todo[l]) => Gen(todo[k])

Covered(todo, items) ==
    \A k \in DOMAIN items :
       items[k] \in Settled \/ \E l \in DOMAIN todo : Gen(todo[l]) /\ k \in todo[l].items

\* All but the item of the turn, which is the last.
CoveredButLast(items) == items # <<>> /\ \A k \in 1 .. Len(items) - 1 : items[k] \in Settled

Queued(j) ==
    /\ jobs[j].status = "in coda" /\ jobs[j].mode \in Modes
    /\ jobs[j].mode \in {"agent", "orchestrate"} => jobs[j].items = <<>>

Queue ==
    /\ jq \in Seq(JobIds)
    /\ \A k, l \in DOMAIN jq : jq[k] = jq[l] => k = l
    /\ \A k \in DOMAIN jq : Queued(jq[k])

AtStage ==
    /\ at[Worker] = "off" /\ wk.slice = {}
    /\ Covered(wk.todo, Job.items)
    /\ late = 1 => \A k \in DOMAIN wk.todo : wk.todo[k].kind # "plan"

\* Only a turn that was waiting when the job was cancelled can be late.
AtTurn ==
    /\ at[Worker] \in {"wait", "clear", "submit", "drain", "ended", "failed"}
    /\ late = 1 => at[Worker] \in {"drain", "ended", "failed"}
    /\ wk.slice = {} /\ wk.todo # <<>> /\ Stage.kind \notin {"wave", "phase"}
    /\ Stage.kind = "item" => Covered(wk.todo, Job.items)
    /\ Stage.kind # "item" => CoveredButLast(Job.items)

AtWave ==
    /\ at[Worker] \in {"wait", "clear", "wave"} /\ late = 0
    /\ wk.todo # <<>> /\ Stage.kind = "wave" /\ wk.slice \subseteq Stage.items
    /\ \A k \in wk.slice : Job.items[k] # "in coda"
    /\ Covered(wk.todo, Job.items)

AtWork ==
    /\ wk.job \in JobIds /\ Job.status = "in esecuzione"
    /\ WellFormed(wk.todo, Job.items)
    /\ late = 1 => Job.cancel
    /\ \/ wk.pc = "stage" /\ AtStage
       \/ wk.pc = "turn" /\ AtTurn
       \/ wk.pc = "wave" /\ AtWave

WorkerTyped == wk \in [pc : {"idle", "stage", "turn", "wave"}, job : JobIds \cup {NoOne},
                       todo : Seq(Stages), slice : SUBSET Nat]

JobsInv ==
    /\ jobs \in [JobIds -> JobRecords] /\ WorkerTyped /\ late \in {0, 1}
    /\ Queue
    /\ \A j \in JobIds : jobs[j].status = "fatto" =>
          \A k \in DOMAIN jobs[j].items : jobs[j].items[k] \in Settled
    /\ (wk.pc = "idle" /\ at[Worker] = "off") \/ AtWork

ServerInv == EngineInv /\ JobsInv
-----------------------------------------------------------------------------
\* Steps of the engine.

Gpus == [by : Callers, drained : BOOLEAN, left : 0 .. MaxPieces]

LEMMA Cut ==
    ASSUME NEW S, NEW s \in Seq(S), s # <<>>
    PROVE  /\ Tail(s) \in Seq(S) /\ Len(s) \in Nat \ {0} /\ DOMAIN s = 1 .. Len(s)
           /\ DOMAIN Tail(s) = 1 .. Len(s) - 1 /\ Head(s) = s[1] /\ s[1] \in S
           /\ \A k \in 1 .. Len(s) - 1 : Tail(s)[k] = s[k + 1]
<1>1. Len(s) \in Nat \ {0} /\ DOMAIN s = 1 .. Len(s)
  BY EmptySeq, LenProperties
<1>2. Tail(s) \in Seq(S) /\ Len(Tail(s)) = Len(s) - 1
      /\ \A k \in 1 .. Len(Tail(s)) : Tail(s)[k] = s[k + 1]
  BY HeadTailProperties
<1>3. DOMAIN Tail(s) = 1 .. Len(s) - 1
  BY <1>2, LenProperties
<1>4. Head(s) = s[1] /\ s[1] \in S
  BY <1>1, HeadTailProperties
<1> QED BY <1>1, <1>2, <1>3, <1>4

LEMMA GpuFacts ==
    ASSUME EngineTypeOK
    PROVE  /\ gpu \in Seq(Gpus) /\ DOMAIN gpu = 1 .. Len(gpu) /\ Len(gpu) \in Nat
           /\ \A k \in DOMAIN gpu : gpu[k] \in Gpus /\ gpu[k].by \in Callers
<1>1. gpu \in Seq(Gpus)
  BY DEF EngineTypeOK, Gpus
<1>2. \A k \in DOMAIN gpu : gpu[k] \in Gpus
  BY <1>1, LenProperties, ElementOfSeq
<1> QED BY <1>1, <1>2, LenProperties DEF Gpus

LEMMA CallersFacts ==
    /\ Worker \in Callers /\ Chats \subseteq Callers /\ NoOne \notin Callers
    /\ Worker \notin Chats /\ MaxPieces \in Nat
BY EngineConstants DEF Callers

LEMMA Moved ==
    ASSUME EngineTypeOK, NEW x \in Callers, NEW from, NEW to, Move(x, from, to)
    PROVE  /\ at[x] = from
           /\ \A y \in Callers : at'[y] = IF y = x THEN to ELSE at[y]
           /\ to \in {"off", "wait", "clear", "submit", "drain", "wave", "ended", "failed", "gone"} =>
                 at' \in [Callers -> {"off", "wait", "clear", "submit", "drain", "wave",
                                      "ended", "failed", "gone"}]
BY DEF EngineTypeOK, Move

LEMMA EngineStart == EngineInit => EngineInv
<1> SUFFICES ASSUME EngineInit  PROVE EngineInv
  OBVIOUS
<1>1. gpu \in Seq(Gpus) /\ <<>> \in Seq({"piece", "end", "error"}) /\ DOMAIN gpu = {}
  BY DEF EngineInit
<1>2. EngineTypeOK
  BY <1>1 DEF EngineInit, EngineTypeOK, Gpus
<1>3. Locked
  BY CallersFacts DEF EngineInit, Locked, InLock
<1>4. Read /\ Single /\ Private
  BY <1>1 DEF EngineInit, Read, Single, Private
<1> QED BY <1>2, <1>3, <1>4 DEF EngineInv

\* A caller outside the lock goes about its business, or somebody sets abort.
LEMMA StepOutside ==
    ASSUME EngineInv, UNCHANGED <<lock, gpu, chan>>, abort' \in BOOLEAN,
           NEW x \in Callers, ~ InLock(x), ~ InLock(x)',
           NEW to \in {"off", "wait", "ended", "failed", "gone"}, at' = [at EXCEPT ![x] = to]
    PROVE  EngineInv'
<1> USE DEF EngineInv
<1>1. EngineTypeOK'
  BY DEF EngineTypeOK
<1>2. \A y \in Callers : at'[y] = IF y = x THEN to ELSE at[y]
  BY DEF EngineTypeOK
<1>3. Locked'
  BY <1>2 DEF Locked, InLock
<1>4. ASSUME NEW y \in Callers, at[y] = "drain"  PROVE at'[y] = "drain"
  BY <1>2, <1>4 DEF InLock
<1>5. Read' /\ Single' /\ Private'
  <2>1. Private'
    BY <1>4 DEF Private
  <2>2. Read'
    <3> SUFFICES ASSUME NEW k \in DOMAIN gpu, gpu[k].drained
                 PROVE  gpu[k].by = lock /\ at'[lock] = "drain" /\ Pieces(chan[lock])
      BY DEF Read
    <3>1. gpu[k].by = lock /\ at[lock] = "drain" /\ Pieces(chan[lock])
      BY DEF Read
    <3>2. gpu[k].by \in Callers
      BY GpuFacts
    <3> QED BY <1>4, <3>1, <3>2
  <2> QED BY <2>1, <2>2 DEF Single
<1> QED BY <1>1, <1>3, <1>5

LEMMA StepAbort ==
    ASSUME EngineInv, UNCHANGED <<lock, gpu, chan, at>>, abort' \in BOOLEAN
    PROVE  EngineInv'
BY DEF EngineInv, EngineTypeOK, Locked, InLock, Read, Single, Private

\* Nobody reads a generation while the lock's holder does not drain.
LEMMA NobodyReads ==
    ASSUME EngineInv, \A y \in Callers : lock = y => at[y] # "drain"
    PROVE  (\A k \in DOMAIN gpu : ~ gpu[k].drained) /\ \A y \in Callers : chan[y] = <<>>
<1>1. \A k \in DOMAIN gpu : gpu[k].by \in Callers
  BY GpuFacts DEF EngineInv
<1> QED BY <1>1 DEF EngineInv, Read, Private

LEMMA StepAcquire ==
    ASSUME EngineInv, NEW x \in Callers, Acquire(x)
    PROVE  EngineInv'
<1>1. /\ lock = NoOne /\ lock' = x /\ UNCHANGED <<abort, gpu, chan>>
      /\ \A y \in Callers : at'[y] = IF y = x THEN "clear" ELSE at[y]
  BY Moved DEF Acquire, EngineInv
<1>2. EngineTypeOK'
  BY <1>1, Moved DEF Acquire, EngineInv, EngineTypeOK
<1>3. (\A k \in DOMAIN gpu : ~ gpu[k].drained) /\ \A y \in Callers : chan[y] = <<>>
  BY <1>1, NobodyReads, CallersFacts
<1>4. Locked'
  BY <1>1, CallersFacts DEF EngineInv, Locked, InLock
<1> QED BY <1>1, <1>2, <1>3, <1>4 DEF EngineInv, Read, Single, Private

LEMMA StepClear ==
    ASSUME EngineInv, NEW x \in Callers, NEW to \in {"submit", "wave"}, Move(x, "clear", to),
           abort' \in BOOLEAN, UNCHANGED <<lock, gpu, chan>>
    PROVE  EngineInv'
<1>1. at[x] = "clear" /\ \A y \in Callers : at'[y] = IF y = x THEN to ELSE at[y]
  BY Moved DEF EngineInv
<1>2. EngineTypeOK'
  BY Moved DEF EngineInv, EngineTypeOK
<1>3. (\A k \in DOMAIN gpu : ~ gpu[k].drained) /\ \A y \in Callers : chan[y] = <<>>
  BY <1>1, NobodyReads DEF EngineInv, Locked, InLock
<1>4. Locked'
  BY <1>1 DEF EngineInv, Locked, InLock
<1> QED BY <1>2, <1>3, <1>4 DEF EngineInv, Read, Single, Private

LEMMA StepRelease ==
    ASSUME EngineInv, NEW x \in Callers, Move(x, "wave", "off"), lock' = NoOne,
           UNCHANGED <<abort, gpu, chan>>
    PROVE  EngineInv'
<1>1. at[x] = "wave" /\ \A y \in Callers : at'[y] = IF y = x THEN "off" ELSE at[y]
  BY Moved DEF EngineInv
<1>2. EngineTypeOK'
  BY Moved DEF EngineInv, EngineTypeOK
<1>3. lock = x
  BY <1>1 DEF EngineInv, Locked, InLock
<1>4. (\A k \in DOMAIN gpu : ~ gpu[k].drained) /\ \A y \in Callers : chan[y] = <<>>
  BY <1>1, <1>3, NobodyReads
<1>5. Locked'
  BY <1>1, <1>3, CallersFacts DEF EngineInv, Locked, InLock
<1> QED BY <1>2, <1>4, <1>5 DEF EngineInv, Read, Single, Private

LEMMA StepSubmit ==
    ASSUME EngineInv, NEW x \in Callers, Submit(x)
    PROVE  EngineInv'
<1> DEFINE one == [by |-> x, drained |-> TRUE, left |-> MaxPieces]
<1>1. /\ gpu' = Append(gpu, one) /\ chan' = [chan EXCEPT ![x] = <<>>] /\ UNCHANGED <<lock, abort>>
      /\ at[x] = "submit" /\ \A y \in Callers : at'[y] = IF y = x THEN "drain" ELSE at[y]
  BY Moved DEF Submit, EngineInv
<1>2. lock = x
  BY <1>1 DEF EngineInv, Locked, InLock
<1>3. (\A k \in DOMAIN gpu : ~ gpu[k].drained) /\ \A y \in Callers : chan[y] = <<>>
  BY <1>1, <1>2, NobodyReads
<1>4. one \in Gpus /\ gpu \in Seq(Gpus)
  BY CallersFacts DEF EngineInv, EngineTypeOK, Gpus
<1>5. one.by = x /\ one.drained
  OBVIOUS
<1> HIDE DEF one
<1>6. /\ Append(gpu, one) \in Seq(Gpus) /\ Len(gpu) \in Nat /\ DOMAIN gpu = 1 .. Len(gpu)
      /\ DOMAIN Append(gpu, one) = 1 .. Len(gpu) + 1
      /\ \A k \in 1 .. Len(gpu) : Append(gpu, one)[k] = gpu[k]
      /\ Append(gpu, one)[Len(gpu) + 1] = one
  BY <1>4, AppendProperties, LenProperties
<1>7. EngineTypeOK'
  <2>1. chan' \in [Callers -> Seq({"piece", "end", "error"})]
    BY <1>1 DEF EngineInv, EngineTypeOK
  <2> QED BY <1>1, <1>6, <2>1, Moved DEF Submit, EngineInv, EngineTypeOK, Gpus
<1>8. Locked'
  BY <1>1 DEF EngineInv, Locked, InLock
<1>9. \A k \in DOMAIN gpu' : gpu'[k].drained => k = Len(gpu) + 1 /\ gpu'[k].by = x
  BY <1>1, <1>3, <1>5, <1>6
<1>10. chan'[x] = <<>> /\ \A y \in Callers : chan'[y] = <<>>
  BY <1>1, <1>3 DEF EngineInv, EngineTypeOK
<1>11. Read'
  BY <1>1, <1>2, <1>9, <1>10 DEF Read, Pieces
<1>12. Single' /\ Private'
  BY <1>9, <1>10 DEF Single, Private
<1> QED BY <1>7, <1>8, <1>11, <1>12 DEF EngineInv

LEMMA StepDrainPiece ==
    ASSUME EngineInv, NEW x \in Callers, DrainPiece(x)
    PROVE  EngineInv'
<1>1. /\ at[x] = "drain" /\ chan[x] # <<>> /\ chan' = [chan EXCEPT ![x] = Tail(chan[x])]
      /\ UNCHANGED <<lock, abort, gpu, at>>
  BY DEF DrainPiece
<1>2. chan[x] \in Seq({"piece", "end", "error"})
  BY DEF EngineInv, EngineTypeOK
<1> DEFINE c == chan[x]
<1>3. /\ Tail(c) \in Seq({"piece", "end", "error"}) /\ Len(c) \in Nat /\ DOMAIN c = 1 .. Len(c)
      /\ DOMAIN Tail(c) = 1 .. Len(c) - 1 /\ \A k \in 1 .. Len(c) - 1 : Tail(c)[k] = c[k + 1]
  BY <1>1, <1>2, Cut
<1>4. Pieces(c) => Pieces(Tail(c))
  <2>1. \A k \in 1 .. Len(c) - 1 : k + 1 \in 1 .. Len(c)
    BY <1>3
  <2> HIDE DEF c
  <2> QED BY <1>3, <2>1 DEF Pieces
<1>5. \A y \in Callers : chan'[y] = IF y = x THEN Tail(c) ELSE chan[y]
  BY <1>1 DEF EngineInv, EngineTypeOK
<1>6. EngineTypeOK'
  BY <1>1, <1>3 DEF EngineInv, EngineTypeOK
<1>7. Locked' /\ Single'
  BY <1>1 DEF EngineInv, Locked, InLock, Single
<1>8. lock = x
  BY <1>1 DEF EngineInv, Private
<1>9. Read' /\ Private'
  BY <1>1, <1>4, <1>5, <1>8 DEF EngineInv, Read, Private
<1> QED BY <1>6, <1>7, <1>9 DEF EngineInv

LEMMA StepDrainEnd ==
    ASSUME EngineInv, NEW x \in Callers, DrainEnd(x)
    PROVE  EngineInv'
<1> DEFINE to == IF Head(chan[x]) = "end" THEN "ended" ELSE "failed"
<1>1. /\ at[x] = "drain" /\ chan[x] # <<>> /\ Head(chan[x]) \in {"end", "error"}
      /\ at' = [at EXCEPT ![x] = to] /\ lock' = NoOne /\ chan' = [chan EXCEPT ![x] = <<>>]
      /\ UNCHANGED <<abort, gpu>>
  BY DEF DrainEnd
<1>2. to \in {"ended", "failed"}
  OBVIOUS
<1> HIDE DEF to
<1>3. lock = x
  BY <1>1 DEF EngineInv, Private
<1>4. ~ Pieces(chan[x])
  <2>1. chan[x] \in Seq({"piece", "end", "error"})
    BY DEF EngineInv, EngineTypeOK
  <2>2. Len(chan[x]) \in Nat \ {0} /\ DOMAIN chan[x] = 1 .. Len(chan[x]) /\ Head(chan[x]) = chan[x][1]
    BY <1>1, <2>1, Cut
  <2> QED BY <1>1, <2>2 DEF Pieces
<1>5. \A k \in DOMAIN gpu : ~ gpu[k].drained
  BY <1>3, <1>4 DEF EngineInv, Read
<1>6. \A y \in Callers : chan'[y] = <<>>
  BY <1>1, <1>3 DEF EngineInv, EngineTypeOK, Private
<1>7. \A y \in Callers : at'[y] = IF y = x THEN to ELSE at[y]
  BY <1>1 DEF EngineInv, EngineTypeOK
<1>8. EngineTypeOK'
  <2>1. chan' \in [Callers -> Seq({"piece", "end", "error"})]
    BY <1>1 DEF EngineInv, EngineTypeOK
  <2> QED BY <1>1, <1>2, <2>1 DEF EngineInv, EngineTypeOK
<1>9. Locked'
  BY <1>1, <1>2, <1>3, <1>7, CallersFacts DEF EngineInv, Locked, InLock
<1> QED BY <1>1, <1>5, <1>6, <1>8, <1>9 DEF EngineInv, Read, Single, Private

LEMMA StepGenerating ==
    ASSUME EngineInv, NEW x \in Callers, Generating(x)
    PROVE  EngineInv'
<1>1. CASE ClearAbort(x)
  <2>1. Move(x, "clear", "submit") /\ abort' \in BOOLEAN /\ UNCHANGED <<lock, gpu, chan>>
    BY <1>1 DEF ClearAbort
  <2> QED BY <2>1, StepClear
<1> QED BY <1>1, StepAcquire, StepSubmit, StepDrainPiece, StepDrainEnd DEF Generating

\* The GPU thread: what it delivers goes to the holder, if to anyone.
LEMMA Delivered ==
    ASSUME EngineInv, gpu # <<>>, NEW e \in {"piece", "end", "error"}, Deliver(e)
    PROVE  /\ gpu[1] \in Gpus /\ 1 \in DOMAIN gpu
           /\ chan' \in [Callers -> Seq({"piece", "end", "error"})]
           /\ \A y \in Callers : (gpu[1].drained /\ y = lock) \/ chan'[y] = chan[y]
           /\ gpu[1].drained => /\ lock \in Callers /\ at[lock] = "drain"
                                /\ e = "piece" => Pieces(chan'[lock])
<1>1. gpu \in Seq(Gpus)
  BY DEF EngineInv, EngineTypeOK, Gpus
<1>2. gpu[1] \in Gpus /\ 1 \in DOMAIN gpu /\ Running = gpu[1]
  BY <1>1, Cut DEF Running
<1>3. CASE ~ gpu[1].drained
  BY <1>2, <1>3 DEF Deliver, EngineInv, EngineTypeOK
<1>4. CASE gpu[1].drained
  <2>1. gpu[1].by = lock /\ lock \in Callers /\ at[lock] = "drain" /\ Pieces(chan[lock])
    BY <1>2, <1>4 DEF EngineInv, Read, Gpus
  <2> DEFINE c == chan[lock]
  <2>2. chan' = [chan EXCEPT ![lock] = Append(c, e)] /\ c \in Seq({"piece", "end", "error"})
    BY <1>2, <1>4, <2>1 DEF Deliver, EngineInv, EngineTypeOK
  <2> HIDE DEF c
  <2>3. /\ Append(c, e) \in Seq({"piece", "end", "error"}) /\ Len(c) \in Nat /\ DOMAIN c = 1 .. Len(c)
        /\ DOMAIN Append(c, e) = 1 .. Len(c) + 1
        /\ \A k \in 1 .. Len(c) : Append(c, e)[k] = c[k]
        /\ Append(c, e)[Len(c) + 1] = e
    BY <2>2, AppendProperties, LenProperties
  <2>4. e = "piece" => Pieces(Append(c, e))
    <3>1. Pieces(c)
      BY <2>1 DEF c
    <3> QED BY <2>3, <3>1 DEF Pieces
  <2>5. chan' \in [Callers -> Seq({"piece", "end", "error"})] /\ chan'[lock] = Append(c, e)
        /\ \A y \in Callers : y = lock \/ chan'[y] = chan[y]
    BY <2>1, <2>2, <2>3 DEF EngineInv, EngineTypeOK
  <2> QED BY <1>2, <1>4, <2>1, <2>4, <2>5
<1>5. gpu[1].drained \in BOOLEAN
  BY <1>2 DEF Gpus
<1> QED BY <1>2, <1>3, <1>4, <1>5

\* The generation that was running is over.
LEMMA StepPumpOver ==
    ASSUME EngineInv, gpu # <<>>, NEW e \in {"end", "error"}, Deliver(e), gpu' = Tail(gpu),
           UNCHANGED <<lock, abort, at>>
    PROVE  EngineInv'
<1>1. gpu \in Seq(Gpus)
  BY DEF EngineInv, EngineTypeOK, Gpus
<1>2. /\ gpu' \in Seq(Gpus) /\ Len(gpu) \in Nat \ {0} /\ DOMAIN gpu = 1 .. Len(gpu)
      /\ DOMAIN gpu' = 1 .. Len(gpu) - 1 /\ \A k \in 1 .. Len(gpu) - 1 : gpu'[k] = gpu[k + 1]
  BY <1>1, Cut
<1>3. /\ chan' \in [Callers -> Seq({"piece", "end", "error"})]
      /\ \A y \in Callers : (gpu[1].drained /\ y = lock) \/ chan'[y] = chan[y]
      /\ gpu[1].drained => lock \in Callers /\ at[lock] = "drain"
  BY Delivered
<1>4. EngineTypeOK'
  BY <1>2, <1>3 DEF EngineInv, EngineTypeOK, Gpus
<1>5. Locked'
  BY DEF EngineInv, Locked, InLock
<1>6. \A k \in DOMAIN gpu' : k + 1 \in DOMAIN gpu /\ k + 1 # 1 /\ gpu'[k] = gpu[k + 1]
  BY <1>2
<1>7. Single'
  <2> SUFFICES ASSUME NEW k \in DOMAIN gpu', NEW l \in DOMAIN gpu', gpu'[k].drained, gpu'[l].drained
               PROVE  k = l
    BY DEF Single
  <2>1. k + 1 = l + 1
    BY <1>6 DEF EngineInv, Single
  <2> QED BY <1>2, <2>1
<1>8. Read'
  <2> SUFFICES ASSUME NEW k \in DOMAIN gpu', gpu'[k].drained
               PROVE  gpu'[k].by = lock /\ at[lock] = "drain" /\ Pieces(chan'[lock])
    BY DEF Read
  <2>1. gpu[k + 1].drained /\ k + 1 \in DOMAIN gpu /\ k + 1 # 1 /\ 1 \in DOMAIN gpu /\ gpu[k + 1] \in Gpus
    BY <1>1, <1>2, <1>6
  <2>2. gpu[k + 1].by = lock /\ at[lock] = "drain" /\ Pieces(chan[lock]) /\ lock \in Callers
    BY <2>1 DEF EngineInv, Read, Gpus
  <2>3. ~ gpu[1].drained
    BY <2>1 DEF EngineInv, Single
  <2> QED BY <1>3, <1>6, <2>2, <2>3
<1>9. Private'
  BY <1>3 DEF EngineInv, Private
<1> QED BY <1>4, <1>5, <1>7, <1>8, <1>9 DEF EngineInv

LEMMA StepPumpPiece ==
    ASSUME EngineInv, gpu # <<>>, gpu[1].left > 0, Deliver("piece"),
           gpu' = [gpu EXCEPT ![1].left = @ - 1], UNCHANGED <<lock, abort, at>>
    PROVE  EngineInv'
<1>1. gpu \in Seq(Gpus) /\ 1 \in DOMAIN gpu /\ gpu[1] \in Gpus
  BY Delivered DEF EngineInv, EngineTypeOK, Gpus
<1> DEFINE one == [gpu[1] EXCEPT !.left = gpu[1].left - 1]
<1>2. one \in Gpus /\ one.by = gpu[1].by /\ one.drained = gpu[1].drained
  BY <1>1, CallersFacts DEF Gpus
<1>3. gpu' = [gpu EXCEPT ![1] = one]
  BY <1>1
<1> HIDE DEF one
<1>4. 1 \in 1 .. Len(gpu) /\ DOMAIN gpu = 1 .. Len(gpu)
  BY <1>1, LenProperties
<1>5. gpu' \in Seq(Gpus) /\ DOMAIN gpu' = DOMAIN gpu
      /\ \A k \in DOMAIN gpu : gpu'[k] = IF k = 1 THEN one ELSE gpu[k]
  BY <1>1, <1>2, <1>3, <1>4, ExceptSeq
<1>6. \A k \in DOMAIN gpu : gpu'[k].by = gpu[k].by /\ gpu'[k].drained = gpu[k].drained
  BY <1>2, <1>5
<1>7. /\ chan' \in [Callers -> Seq({"piece", "end", "error"})]
      /\ \A y \in Callers : (gpu[1].drained /\ y = lock) \/ chan'[y] = chan[y]
      /\ gpu[1].drained => lock \in Callers /\ at[lock] = "drain" /\ Pieces(chan'[lock])
  BY Delivered
<1>8. EngineTypeOK'
  BY <1>5, <1>7 DEF EngineInv, EngineTypeOK, Gpus
<1>9. Locked' /\ Single'
  BY <1>5, <1>6 DEF EngineInv, Locked, InLock, Single
<1>10. Read'
  <2> SUFFICES ASSUME NEW k \in DOMAIN gpu, gpu[k].drained
               PROVE  gpu[k].by = lock /\ at[lock] = "drain" /\ Pieces(chan'[lock])
    BY <1>5, <1>6 DEF Read
  <2>1. gpu[k].by = lock /\ at[lock] = "drain" /\ Pieces(chan[lock]) /\ lock \in Callers
    BY GpuFacts DEF EngineInv, Read
  <2> QED BY <1>7, <2>1
<1>11. Private'
  BY <1>7 DEF EngineInv, Private
<1> QED BY <1>8, <1>9, <1>10, <1>11 DEF EngineInv

LEMMA StepPump ==
    ASSUME EngineInv, Pump
    PROVE  EngineInv'
<1>1. CASE PumpPiece
  <2>1. gpu # <<>> /\ Running.left > 0 /\ UNCHANGED <<lock, abort, at>>
    BY <1>1 DEF PumpPiece
  <2>2. CASE Deliver("end") /\ gpu' = Tail(gpu)
    BY <2>1, <2>2, StepPumpOver
  <2>3. CASE Deliver("piece") /\ gpu' = [gpu EXCEPT ![1].left = @ - 1]
    <3>1. gpu \in Seq(Gpus)
      BY DEF EngineInv, EngineTypeOK, Gpus
    <3>2. Running = gpu[1]
      BY <2>1, <3>1, Cut DEF Running
    <3> QED BY <2>1, <2>3, <3>2, StepPumpPiece
  <2> QED BY <1>1, <2>2, <2>3 DEF PumpPiece
<1>2. CASE PumpEnd
  <2>1. gpu # <<>> /\ UNCHANGED <<lock, abort, at>> /\ gpu' = Tail(gpu)
    BY <1>2 DEF PumpEnd
  <2>2. PICK e \in {"end", "error"} : Deliver(e)
    BY <1>2 DEF PumpEnd
  <2> QED BY <2>1, <2>2, StepPumpOver
<1> QED BY <1>1, <1>2 DEF Pump

LEMMA StepDisconnect ==
    ASSUME EngineInv, NEW c \in Chats, Disconnect(c)
    PROVE  EngineInv'
<1>1. /\ at[c] \in {"clear", "drain"} /\ lock' = NoOne /\ chan' = [chan EXCEPT ![c] = <<>>]
      /\ gpu' = [i \in DOMAIN gpu |-> [gpu[i] EXCEPT !.drained = gpu[i].drained /\ gpu[i].by # c]]
      /\ abort' = abort /\ c \in Callers /\ at' = [at EXCEPT ![c] = "gone"]
  BY CallersFacts DEF Disconnect, Move
<1>2. lock = c
  BY <1>1 DEF EngineInv, Locked, InLock
<1>3. gpu \in Seq(Gpus) /\ Len(gpu) \in Nat /\ DOMAIN gpu = 1 .. Len(gpu)
      /\ \A k \in DOMAIN gpu : gpu[k] \in Gpus
  BY LenProperties, ElementOfSeq DEF EngineInv, EngineTypeOK, Gpus
<1>4. \A k \in DOMAIN gpu : gpu'[k] \in Gpus /\ ~ gpu'[k].drained
  <2> SUFFICES ASSUME NEW k \in DOMAIN gpu  PROVE gpu'[k] \in Gpus /\ ~ gpu'[k].drained
    OBVIOUS
  <2>1. gpu[k] \in Gpus /\ (gpu[k].drained => gpu[k].by = c)
    BY <1>2, <1>3 DEF EngineInv, Read
  <2>2. gpu'[k] = [gpu[k] EXCEPT !.drained = FALSE]
    BY <1>1, <2>1 DEF Gpus
  <2> QED BY <2>1, <2>2 DEF Gpus
<1>5. gpu' \in Seq(Gpus) /\ DOMAIN gpu' = DOMAIN gpu
  <2>1. gpu' \in [1 .. Len(gpu) -> Gpus]
    BY <1>1, <1>3, <1>4
  <2> QED BY <1>3, <2>1, SMT
<1>6. \A y \in Callers : chan'[y] = <<>>
  BY <1>1, <1>2 DEF EngineInv, EngineTypeOK, Private
<1>7. \A y \in Callers : at'[y] = IF y = c THEN "gone" ELSE at[y]
  BY <1>1 DEF EngineInv, EngineTypeOK
<1>8. EngineTypeOK'
  <2>1. chan' \in [Callers -> Seq({"piece", "end", "error"})]
    BY <1>1 DEF EngineInv, EngineTypeOK
  <2> QED BY <1>1, <1>5, <2>1 DEF EngineInv, EngineTypeOK, Gpus
<1>9. Locked'
  BY <1>1, <1>2, <1>7, CallersFacts DEF EngineInv, Locked, InLock
<1> QED BY <1>4, <1>5, <1>6, <1>8, <1>9 DEF EngineInv, Read, Single, Private

LEMMA StepChat ==
    ASSUME EngineInv, NEW c \in Chats, ChatStep(c)
    PROVE  EngineInv'
<1>1. c \in Callers
  BY CallersFacts
<1>2. CASE ChatRequest(c)
  <2>1. /\ UNCHANGED <<lock, gpu, chan>> /\ abort' \in BOOLEAN
        /\ at[c] = "off" /\ at' = [at EXCEPT ![c] = "wait"]
    BY <1>2 DEF ChatRequest, Move, EngineInv, EngineTypeOK
  <2>2. ~ InLock(c) /\ ~ InLock(c)'
    BY <1>1, <2>1 DEF InLock, EngineInv, EngineTypeOK
  <2> QED BY <1>1, <2>1, <2>2, StepOutside
<1>3. CASE Generating(c)
  BY <1>1, <1>3, StepGenerating
<1> QED BY <1>2, <1>3, StepDisconnect DEF ChatStep
-----------------------------------------------------------------------------
\* The worker's list of stages.

LEMMA InFront ==
    ASSUME NEW S, NEW s \in S, NEW rest \in Seq(S)
    PROVE  /\ <<s>> \o rest \in Seq(S) /\ DOMAIN (<<s>> \o rest) = 1 .. Len(rest) + 1
           /\ Len(rest) \in Nat /\ DOMAIN rest = 1 .. Len(rest)
           /\ <<s>> \o rest # <<>> /\ (<<s>> \o rest)[1] = s
           /\ \A k \in 1 .. Len(rest) : (<<s>> \o rest)[k + 1] = rest[k]
<1> DEFINE one == <<s>>
<1>1. one \in Seq(S) /\ Len(one) = 1 /\ one[1] = s
  OBVIOUS
<1>2. Len(rest) \in Nat /\ DOMAIN rest = 1 .. Len(rest)
  BY LenProperties
<1> HIDE DEF one
<1> DEFINE all == one \o rest
<1>3. /\ all \in Seq(S) /\ Len(all) = Len(one) + Len(rest)
      /\ \A k \in 1 .. Len(one) + Len(rest) : all[k] = IF k <= Len(one) THEN one[k] ELSE rest[k - Len(one)]
  BY <1>1, ConcatProperties
<1> HIDE DEF all
<1>4. DOMAIN all = 1 .. Len(rest) + 1
  BY <1>1, <1>2, <1>3, LenProperties
<1>5. all # <<>>
  <2>1. Len(all) # 0
    BY <1>1, <1>2, <1>3
  <2> QED BY <2>1
<1>6. all[1] = s
  BY <1>1, <1>2, <1>3
<1>7. ASSUME NEW k \in 1 .. Len(rest)
      PROVE  all[k + 1] = rest[k]
  <2>1. k + 1 \in 1 .. 1 + Len(rest) /\ ~ k + 1 <= 1 /\ (k + 1) - 1 = k
    BY <1>2
  <2> QED BY <1>1, <1>3, <2>1
<1> QED BY <1>2, <1>3, <1>4, <1>5, <1>6, <1>7 DEF all, one

LEMMA FirstStage ==
    ASSUME NEW todo, NEW items, WellFormed(todo, items), todo # <<>>
    PROVE  /\ todo \in Seq(Stages) /\ Head(todo) = todo[1] /\ todo[1] \in Stages
           /\ Gen(todo[1]) => todo[1].items \subseteq DOMAIN items
           /\ todo[1].kind = "phase" => IsFiniteSet(todo[1].items)
           /\ ~ Gen(todo[1]) => \A k \in DOMAIN todo : ~ Gen(todo[k])
<1>1. todo \in Seq(Stages) /\ Len(todo) \in Nat \ {0} /\ DOMAIN todo = 1 .. Len(todo)
      /\ Head(todo) = todo[1] /\ todo[1] \in Stages
  BY Cut DEF WellFormed
<1>2. 1 \in DOMAIN todo /\ \A k \in DOMAIN todo : k = 1 \/ 1 < k
  BY <1>1
<1> QED BY <1>1, <1>2 DEF WellFormed

LEMMA Later ==
    ASSUME NEW todo, NEW items, WellFormed(todo, items), todo # <<>>
    PROVE  /\ WellFormed(Tail(todo), items)
           /\ \A k \in DOMAIN Tail(todo) : Tail(todo)[k].kind # "plan"
           /\ \A l \in DOMAIN todo : l = 1 \/ \E k \in DOMAIN Tail(todo) : Tail(todo)[k] = todo[l]
<1> DEFINE rest == Tail(todo)
<1>1. todo \in Seq(Stages)
  BY DEF WellFormed
<1>2. /\ rest \in Seq(Stages) /\ Len(todo) \in Nat \ {0} /\ DOMAIN todo = 1 .. Len(todo)
      /\ DOMAIN rest = 1 .. Len(todo) - 1 /\ \A k \in 1 .. Len(todo) - 1 : rest[k] = todo[k + 1]
  BY <1>1, Cut
<1> HIDE DEF rest
<1>3. \A k \in DOMAIN rest : k \in Nat /\ k + 1 \in DOMAIN todo /\ k + 1 > 1 /\ rest[k] = todo[k + 1]
  BY <1>2
<1>4. \A k \in DOMAIN rest : rest[k].kind # "plan"
  BY <1>3 DEF WellFormed
<1>5. \A k, l \in DOMAIN rest : k < l /\ Gen(rest[l]) => Gen(rest[k])
  <2> SUFFICES ASSUME NEW k \in DOMAIN rest, NEW l \in DOMAIN rest, k < l, Gen(rest[l])
               PROVE  Gen(rest[k])
    OBVIOUS
  <2>1. k + 1 < l + 1
    BY <1>3
  <2> QED BY <1>3, <2>1 DEF WellFormed
<1>6. WellFormed(rest, items)
  BY <1>2, <1>3, <1>4, <1>5 DEF WellFormed
<1>7. ASSUME NEW l \in DOMAIN todo, l # 1
      PROVE  \E k \in DOMAIN rest : rest[k] = todo[l]
  <2>1. l - 1 \in DOMAIN rest /\ (l - 1) + 1 = l
    BY <1>2, <1>7
  <2> QED BY <1>3, <2>1
<1> QED BY <1>4, <1>6, <1>7 DEF rest

\* The first stage is done with.
LEMMA CoveredLater ==
    ASSUME NEW todo, NEW items, WellFormed(todo, items), todo # <<>>, Covered(todo, items),
           NEW items2,
           \A k \in DOMAIN items2 :
              \/ items2[k] \in Settled
              \/ k \in DOMAIN items /\ items2[k] = items[k] /\ (Gen(todo[1]) => k \notin todo[1].items)
    PROVE  Covered(Tail(todo), items2)
<1> SUFFICES ASSUME NEW k \in DOMAIN items2, items2[k] \notin Settled
             PROVE  \E l \in DOMAIN Tail(todo) : Gen(Tail(todo)[l]) /\ k \in Tail(todo)[l].items
  BY DEF Covered
<1>1. k \in DOMAIN items /\ items[k] \notin Settled /\ (Gen(todo[1]) => k \notin todo[1].items)
  OBVIOUS
<1>2. PICK l \in DOMAIN todo : Gen(todo[l]) /\ k \in todo[l].items
  BY <1>1 DEF Covered
<1>3. l # 1
  BY <1>1, <1>2
<1>4. PICK m \in DOMAIN Tail(todo) : Tail(todo)[m] = todo[l]
  BY <1>3, Later
<1> QED BY <1>2, <1>4

\* Nothing is left to cover.
LEMMA AllSettled ==
    ASSUME NEW items, \A k \in DOMAIN items : items[k] \in Settled, NEW todo
    PROVE  Covered(todo, items)
BY DEF Covered

LEMMA Emptied ==
    ASSUME NEW items
    PROVE  WellFormed(<<>>, items) /\ \A k \in DOMAIN <<>> : <<>>[k].kind # "plan"
<1>1. <<>> \in Seq(Stages) /\ DOMAIN <<>> = {}
  OBVIOUS
<1> QED BY <1>1 DEF WellFormed

\* Items may be added to a job while its stages wait.
LEMMA MoreItems ==
    ASSUME NEW todo, NEW items, NEW items2, WellFormed(todo, items), DOMAIN items \subseteq DOMAIN items2
    PROVE  WellFormed(todo, items2)
BY DEF WellFormed

\* A stage that works on items goes before what is left.
LEMMA StageInFront ==
    ASSUME NEW rest, NEW items, WellFormed(rest, items), NEW s \in Stages, Gen(s),
           s.items \subseteq DOMAIN items, \A k \in DOMAIN rest : rest[k].kind # "plan"
    PROVE  /\ WellFormed(<<s>> \o rest, items)
           /\ \A k \in DOMAIN (<<s>> \o rest) : (<<s>> \o rest)[k].kind # "plan"
           /\ 1 \in DOMAIN (<<s>> \o rest) /\ (<<s>> \o rest)[1] = s
           /\ \A l \in DOMAIN rest : \E k \in DOMAIN (<<s>> \o rest) : (<<s>> \o rest)[k] = rest[l]
<1> DEFINE all == <<s>> \o rest
<1>1. rest \in Seq(Stages)
  BY DEF WellFormed
<1>2. /\ all \in Seq(Stages) /\ DOMAIN all = 1 .. Len(rest) + 1 /\ Len(rest) \in Nat
      /\ DOMAIN rest = 1 .. Len(rest) /\ all[1] = s /\ \A k \in 1 .. Len(rest) : all[k + 1] = rest[k]
  BY <1>1, InFront
<1> HIDE DEF all
<1>3. \A k \in DOMAIN all : k = 1 \/ (k - 1 \in DOMAIN rest /\ all[k] = rest[k - 1])
  <2> SUFFICES ASSUME NEW k \in DOMAIN all, k # 1  PROVE k - 1 \in DOMAIN rest /\ all[k] = rest[k - 1]
    OBVIOUS
  <2>1. k - 1 \in 1 .. Len(rest) /\ (k - 1) + 1 = k
    BY <1>2
  <2> QED BY <1>2, <2>1
<1>4. s.kind \notin {"phase", "plan"}
  BY DEF Gen
<1>5. \A k, l \in DOMAIN all : k < l /\ Gen(all[l]) => Gen(all[k])
  <2> SUFFICES ASSUME NEW k \in DOMAIN all, NEW l \in DOMAIN all, k < l, Gen(all[l])
               PROVE  Gen(all[k])
    OBVIOUS
  <2>1. CASE k = 1
    BY <1>2, <2>1
  <2>2. CASE k # 1
    <3>1. l # 1 /\ k - 1 < l - 1
      BY <1>2, <2>2
    <3> QED BY <1>3, <2>2, <3>1 DEF WellFormed
  <2> QED BY <2>1, <2>2
<1>6. \A k \in DOMAIN all : all[k].kind # "plan"
  BY <1>2, <1>3, <1>4
<1>7. \A k \in DOMAIN all : /\ Gen(all[k]) => all[k].items \subseteq DOMAIN items
                            /\ all[k].kind = "phase" => IsFiniteSet(all[k].items)
  BY <1>2, <1>3, <1>4 DEF WellFormed
<1>8. ASSUME NEW l \in DOMAIN rest
      PROVE  \E k \in DOMAIN all : all[k] = rest[l]
  <2>1. l + 1 \in DOMAIN all /\ all[l + 1] = rest[l]
    BY <1>2
  <2> QED BY <2>1
<1>9. 1 \in DOMAIN all
  BY <1>2
<1> QED BY <1>2, <1>5, <1>6, <1>7, <1>8, <1>9 DEF WellFormed, all

\* Stages that create items later.
LEMMA Unborn ==
    ASSUME NEW todo \in Seq(Stages), NEW items,
           \A k \in DOMAIN todo : /\ todo[k].kind \in {"step", "phase", "verify", "review"}
                                  /\ todo[k].kind = "phase" => IsFiniteSet(todo[k].items)
    PROVE  WellFormed(todo, items) /\ \A k \in DOMAIN todo : todo[k].kind # "plan"
BY DEF WellFormed, Gen

LEMMA ReviewFacts ==
    ASSUME NEW items
    PROVE  WellFormed(Review, items) /\ \A k \in DOMAIN Review : Review[k].kind # "plan"
<1>1. Review \in Seq(Stages) /\ DOMAIN Review = 1 .. 1 /\ Review[1].kind = "review"
  BY DEF Review, Stages
<1> QED BY <1>1, Unborn

LEMMA PlansFacts ==
    ASSUME NEW p \in Plans, NEW items
    PROVE  /\ WellFormed(p \o <<[kind |-> "verify", items |-> {}]>>, items)
           /\ \A k \in DOMAIN (p \o <<[kind |-> "verify", items |-> {}]>>) :
                 (p \o <<[kind |-> "verify", items |-> {}]>>)[k].kind # "plan"
<1>1. PICK sizes \in SeqOf(1 .. MaxItems, MaxItems) :
         p = [k \in 1 .. Len(sizes) |-> [kind |-> "phase", items |-> 1 .. sizes[k]]]
  BY DEF Plans
<1>2. Len(sizes) \in Nat /\ \A k \in 1 .. Len(sizes) : sizes[k] \in 1 .. MaxItems
  <2>1. MaxItems \in Nat
    BY JobConstants
  <2>2. PICK n \in 0 .. MaxItems : sizes \in [1 .. n -> 1 .. MaxItems]
    BY DEF SeqOf
  <2>3. sizes \in Seq(1 .. MaxItems) /\ Len(sizes) = n
    BY <2>1, <2>2, SMT
  <2> QED BY <2>3, LenProperties, ElementOfSeq
<1>3. \A k \in 1 .. Len(sizes) : [kind |-> "phase", items |-> 1 .. sizes[k]] \in Stages
  BY <1>2, JobConstants DEF Stages
<1>4. p \in [1 .. Len(sizes) -> Stages]
  BY <1>1, <1>3
<1>5. p \in Seq(Stages) /\ Len(p) = Len(sizes)
  BY <1>2, <1>4, SMT
<1>6. \A k \in 1 .. Len(p) : p[k].kind = "phase" /\ IsFiniteSet(p[k].items)
  <2> SUFFICES ASSUME NEW k \in 1 .. Len(p)  PROVE p[k].kind = "phase" /\ IsFiniteSet(p[k].items)
    OBVIOUS
  <2>1. p[k] = [kind |-> "phase", items |-> 1 .. sizes[k]] /\ sizes[k] \in Int /\ 1 \in Int
    BY <1>1, <1>2, <1>5, JobConstants
  <2>2. IsFiniteSet(1 .. sizes[k])
    BY <2>1, FS_Interval
  <2> QED BY <2>1, <2>2
<1> DEFINE v == [kind |-> "verify", items |-> {}]
           one == <<v>>
           all == p \o one
<1>7. one \in Seq(Stages) /\ Len(one) = 1 /\ one[1].kind = "verify"
  BY DEF Stages
<1> HIDE DEF one
<1>8. /\ all \in Seq(Stages) /\ Len(all) = Len(p) + Len(one)
      /\ \A k \in 1 .. Len(p) + Len(one) : all[k] = IF k <= Len(p) THEN p[k] ELSE one[k - Len(p)]
  BY <1>5, <1>7, ConcatProperties
<1> HIDE DEF all
<1>9. \A k \in DOMAIN all : all[k].kind \in {"phase", "verify"}
                             /\ (all[k].kind = "phase" => IsFiniteSet(all[k].items))
  <2> SUFFICES ASSUME NEW k \in DOMAIN all
               PROVE  all[k].kind \in {"phase", "verify"} /\ (all[k].kind = "phase" => IsFiniteSet(all[k].items))
    OBVIOUS
  <2>1. k \in 1 .. Len(p) + 1 /\ Len(p) \in Nat
    BY <1>2, <1>5, <1>7, <1>8, LenProperties
  <2>2. CASE k \in 1 .. Len(p)
    BY <1>6, <1>7, <1>8, <2>1, <2>2
  <2>3. CASE k = Len(p) + 1
    <3>1. ~ k <= Len(p) /\ k - Len(p) = 1 /\ k \in 1 .. Len(p) + 1
      BY <2>1, <2>3
    <3>2. all[k] = one[1]
      BY <1>7, <1>8, <3>1
    <3> QED BY <1>7, <3>2
  <2> QED BY <2>1, <2>2, <2>3
<1> QED BY <1>8, <1>9, Unborn DEF all, one
LEMMA TimesFacts ==
    ASSUME NEW S, NEW s \in S, NEW n \in Nat
    PROVE  /\ Times(s, n) \in Seq(S) /\ DOMAIN Times(s, n) = 1 .. n /\ Len(Times(s, n)) = n
           /\ \A k \in 1 .. n : Times(s, n)[k] = s
<1> DEFINE t == [k \in 1 .. n |-> s]
<1>1. t \in [1 .. n -> S] /\ \A k \in 1 .. n : t[k] = s
  OBVIOUS
<1>2. Times(s, n) = t
  BY DEF Times
<1> HIDE DEF t
<1>3. t \in Seq(S) /\ Len(t) = n /\ DOMAIN t = 1 .. n
  BY <1>1, SMT
<1> QED BY <1>1, <1>2, <1>3

\* What a job is run as covers its items.
LEMMA ProgramFacts ==
    ASSUME jobs \in [JobIds -> JobRecords], NEW j \in JobIds, Queued(j)
    PROVE  WellFormed(Program(j), jobs[j].items) /\ Covered(Program(j), jobs[j].items)
<1> DEFINE items == jobs[j].items
           todo == Program(j)
<1>1. items \in Seq(ItemStates) /\ Len(items) \in Nat /\ DOMAIN items = 1 .. Len(items)
  <2>1. items \in Seq(ItemStates)
    BY DEF JobRecords
  <2> QED BY <2>1, LenProperties
<1>2. jobs[j].mode \in Modes /\ (jobs[j].mode \in {"agent", "orchestrate"} => items = <<>>)
  BY DEF Queued
<1> SUFFICES WellFormed(todo, items) /\ Covered(todo, items)
  OBVIOUS
<1> HIDE DEF items
<1>3. CASE jobs[j].mode = "serial"
  <2> DEFINE f == [k \in DOMAIN items |-> [kind |-> "item", items |-> {k}]]
  <2>1. todo = f
    BY <1>3 DEF Program, items
  <2> HIDE DEF todo
  <2>2. \A k \in 1 .. Len(items) : [kind |-> "item", items |-> {k}] \in Stages
    BY DEF Stages
  <2>3. f \in [1 .. Len(items) -> Stages] /\ DOMAIN f = 1 .. Len(items)
    BY <1>1, <2>2
  <2>4. \A k \in 1 .. Len(items) : f[k] = [kind |-> "item", items |-> {k}]
    BY <1>1
  <2> HIDE DEF f
  <2>5. f \in Seq(Stages)
    BY <1>1, <2>3, SMT
  <2>6. \A k \in DOMAIN f : f[k].kind = "item" /\ f[k].items = {k}
    BY <2>3, <2>4
  <2>7. WellFormed(f, items)
    <3>1. \A k \in DOMAIN f : Gen(f[k]) /\ f[k].kind \notin {"phase", "plan"}
      BY <2>6 DEF Gen
    <3> QED BY <1>1, <2>3, <2>5, <2>6, <3>1 DEF WellFormed
  <2>8. Covered(f, items)
    BY <1>1, <2>3, <2>6 DEF Covered, Gen
  <2> QED BY <2>1, <2>7, <2>8
<1>4. CASE jobs[j].mode = "wave"
  <2> DEFINE s == [kind |-> "wave", items |-> DOMAIN items]
  <2>1. s.kind = "wave" /\ s.items = DOMAIN items /\ s \in Stages
    BY <1>1 DEF Stages
  <2>2. todo = <<s>>
    BY <1>4 DEF Program, items
  <2> HIDE DEF s, todo
  <2>3. todo \in Seq(Stages) /\ DOMAIN todo = {1} /\ todo[1] = s
    BY <2>1, <2>2
  <2>4. WellFormed(todo, items)
    BY <2>1, <2>3 DEF WellFormed, Gen
  <2> QED BY <2>1, <2>3, <2>4 DEF Covered, Gen
<1>5. CASE jobs[j].mode = "agent"
  <2> DEFINE s == [kind |-> "step", items |-> {}]
  <2>1. s.kind = "step" /\ s \in Stages /\ MaxSteps \in Nat
    BY JobConstants DEF Stages
  <2>2. todo = Times(s, MaxSteps) /\ DOMAIN items = {}
    BY <1>2, <1>5 DEF Program
  <2> HIDE DEF s, todo
  <2>3. todo \in Seq(Stages) /\ \A k \in DOMAIN todo : todo[k] = s
    BY <2>1, <2>2, TimesFacts
  <2>4. WellFormed(todo, items)
    BY <2>1, <2>3, Unborn
  <2> QED BY <2>2, <2>4 DEF Covered
<1>6. CASE jobs[j].mode = "orchestrate"
  <2> DEFINE s == [kind |-> "plan", items |-> {}]
  <2>1. s.kind = "plan" /\ s \in Stages
    BY DEF Stages
  <2>2. todo = <<s>> /\ DOMAIN items = {}
    BY <1>2, <1>6 DEF Program
  <2> HIDE DEF s, todo
  <2>3. todo \in Seq(Stages) /\ DOMAIN todo = {1} /\ todo[1] = s
    BY <2>1, <2>2
  <2> QED BY <2>1, <2>2, <2>3 DEF Covered, WellFormed, Gen
<1> QED BY <1>2, <1>3, <1>4, <1>5, <1>6 DEF Modes

-----------------------------------------------------------------------------
\* Items of the job at work.

LEMMA JobFacts ==
    ASSUME jobs \in [JobIds -> JobRecords], wk.job \in JobIds
    PROVE  /\ Job \in JobRecords /\ Job.items \in Seq(ItemStates) /\ Len(Job.items) \in Nat
           /\ DOMAIN Job.items = 1 .. Len(Job.items)
           /\ \A k \in DOMAIN Job.items : Job.items[k] \in ItemStates
<1>1. Job \in JobRecords
  BY DEF Job
<1>2. Job.items \in Seq(ItemStates)
  BY <1>1 DEF JobRecords
<1> QED BY <1>1, <1>2, LenProperties, ElementOfSeq

LEMMA SetItemsFacts ==
    ASSUME jobs \in [JobIds -> JobRecords], wk.job \in JobIds, NEW S, NEW status \in ItemStates
    PROVE  /\ SetItems(S, status) \in Seq(ItemStates)
           /\ DOMAIN SetItems(S, status) = DOMAIN Job.items
           /\ \A k \in DOMAIN Job.items : SetItems(S, status)[k] = IF k \in S THEN status ELSE Job.items[k]
<1> DEFINE items == Job.items
           new == SetItems(S, status)
<1>1. Len(items) \in Nat /\ DOMAIN items = 1 .. Len(items) /\ \A k \in DOMAIN items : items[k] \in ItemStates
  BY JobFacts
<1>2. new = [k \in DOMAIN items |-> IF k \in S THEN status ELSE items[k]]
  BY DEF SetItems
<1> HIDE DEF items, new
<1>3. new \in [1 .. Len(items) -> ItemStates]
  BY <1>1, <1>2
<1>4. new \in Seq(ItemStates)
  BY <1>1, <1>3, SMT
<1> QED BY <1>1, <1>2, <1>4 DEF items, new

\* Nothing of a job but its items and its result changes while it is at work.
Touched(items) ==
    /\ jobs' \in [JobIds -> JobRecords]
    /\ \A j \in JobIds : j # wk.job => jobs'[j] = jobs[j]
    /\ jobs'[wk.job].items = items /\ jobs'[wk.job].status = Job.status
    /\ jobs'[wk.job].cancel = Job.cancel /\ jobs'[wk.job].mode = Job.mode

LEMMA WithItemsTouched ==
    ASSUME jobs \in [JobIds -> JobRecords], wk.job \in JobIds, NEW items \in Seq(ItemStates),
           WithItems(items)
    PROVE  Touched(items)
<1>1. Job \in JobRecords /\ Job = jobs[wk.job]
  BY DEF Job
<1>2. jobs' = [jobs EXCEPT ![wk.job] = [Job EXCEPT !.items = items]]
  BY DEF WithItems, Job
<1>3. [Job EXCEPT !.items = items] \in JobRecords
  BY <1>1 DEF JobRecords
<1> QED BY <1>1, <1>2, <1>3 DEF Touched, JobRecords

LEMMA ResultTouched ==
    ASSUME jobs \in [JobIds -> JobRecords], wk.job \in JobIds, NEW items \in Seq(ItemStates),
           NEW r \in BOOLEAN, jobs' = [jobs EXCEPT ![wk.job].items = items, ![wk.job].result = r]
    PROVE  Touched(items)
<1>1. Job \in JobRecords /\ Job = jobs[wk.job]
  BY DEF Job
<1>2. jobs' = [jobs EXCEPT ![wk.job] = [[Job EXCEPT !.items = items] EXCEPT !.result = r]]
  BY DEF Job
<1> DEFINE new == [[Job EXCEPT !.items = items] EXCEPT !.result = r]
<1>3. /\ new \in JobRecords /\ new.items = items /\ new.status = Job.status
      /\ new.cancel = Job.cancel /\ new.mode = Job.mode
  BY <1>1 DEF JobRecords
<1>4. jobs' = [jobs EXCEPT ![wk.job] = new]
  BY <1>2
<1> HIDE DEF new
<1> QED BY <1>1, <1>3, <1>4 DEF Touched

LEMMA ThenFacts ==
    ASSUME WorkerTyped, NEW todo \in Seq(Stages), Then(todo)
    PROVE  /\ WorkerTyped' /\ wk'.pc = "stage" /\ wk'.job = wk.job /\ wk'.todo = todo
           /\ wk'.slice = {}
BY DEF WorkerTyped, Then

LEMMA OthersKeep ==
    ASSUME JobsInv, AtWork, NEW items, Touched(items), jq' = jq
    PROVE  /\ Queue'
           /\ \A j \in JobIds : jobs'[j].status = "fatto" =>
                 \A k \in DOMAIN jobs'[j].items : jobs'[j].items[k] \in Settled
<1>1. Job.status = "in esecuzione" /\ wk.job \in JobIds /\ Job = jobs[wk.job]
  BY DEF AtWork, Job
<1>2. ASSUME NEW k \in DOMAIN jq  PROVE Queued(jq[k])'
  <2>1. jq[k] \in JobIds
    BY <1>2, LenProperties, ElementOfSeq DEF JobsInv, Queue
  <2>2. Queued(jq[k]) /\ jobs[jq[k]].status = "in coda"
    BY <1>2 DEF JobsInv, Queue, Queued
  <2>3. jobs'[jq[k]] = jobs[jq[k]]
    BY <1>1, <2>1, <2>2 DEF Touched
  <2> QED BY <2>2, <2>3 DEF Queued
<1>3. Queue'
  BY <1>2 DEF JobsInv, Queue
<1>4. ASSUME NEW j \in JobIds, jobs'[j].status = "fatto", NEW k \in DOMAIN jobs'[j].items
      PROVE  jobs'[j].items[k] \in Settled
  <2>1. j # wk.job
    BY <1>1, <1>4 DEF Touched
  <2>2. jobs'[j] = jobs[j]
    BY <2>1 DEF Touched
  <2> QED BY <1>4, <2>2 DEF JobsInv
<1> QED BY <1>3, <1>4

\* The worker comes back to the head of its loop over the stages.
LEMMA ToStage ==
    ASSUME JobsInv, AtWork, NEW items, Touched(items), NEW todo, Then(todo), jq' = jq, late' = late,
           at'[Worker] = "off", WellFormed(todo, items), Covered(todo, items),
           late = 1 => \A k \in DOMAIN todo : todo[k].kind # "plan"
    PROVE  JobsInv'
<1>1. todo \in Seq(Stages)
  BY DEF WellFormed
<1>2. /\ WorkerTyped' /\ wk'.pc = "stage" /\ wk'.job = wk.job /\ wk'.todo = todo /\ wk'.slice = {}
  BY <1>1, ThenFacts DEF JobsInv
<1>3. Job'.items = items /\ Job'.status = "in esecuzione" /\ Job'.cancel = Job.cancel
  BY <1>2 DEF Job, Touched, AtWork
<1>4. AtStage'
  BY <1>2, <1>3 DEF AtStage
<1>5. AtWork'
  BY <1>2, <1>3, <1>4 DEF AtWork
<1> QED BY <1>2, <1>5, OthersKeep DEF JobsInv, Touched

\* The job at work is over.
LEMMA JobOver ==
    ASSUME JobsInv, AtWork, NEW status \in Final,
           jobs' = [jobs EXCEPT ![wk.job].status = status], wk' = Idle, UNCHANGED <<jq, late>>,
           at'[Worker] = "off",
           status = "fatto" => \A k \in DOMAIN Job.items : Job.items[k] \in Settled
    PROVE  JobsInv'
<1>1. Job \in JobRecords /\ Job = jobs[wk.job] /\ Job.status = "in esecuzione" /\ wk.job \in JobIds
  BY DEF AtWork, Job, JobsInv
<1>2. [Job EXCEPT !.status = status] \in JobRecords
  BY <1>1 DEF JobRecords
<1>3. /\ jobs' \in [JobIds -> JobRecords]
      /\ \A j \in JobIds : j # wk.job => jobs'[j] = jobs[j]
      /\ jobs'[wk.job].items = Job.items /\ jobs'[wk.job].status = status
  BY <1>1, <1>2 DEF JobsInv, JobRecords
<1>4. ASSUME NEW k \in DOMAIN jq  PROVE Queued(jq[k])'
  <2>1. jq[k] \in JobIds
    BY <1>4, LenProperties, ElementOfSeq DEF JobsInv, Queue
  <2>2. Queued(jq[k]) /\ jobs[jq[k]].status = "in coda"
    BY <1>4 DEF JobsInv, Queue, Queued
  <2>3. jobs'[jq[k]] = jobs[jq[k]]
    BY <1>1, <1>3, <2>1, <2>2
  <2> QED BY <2>2, <2>3 DEF Queued
<1>5. Queue'
  BY <1>4 DEF JobsInv, Queue
<1>6. ASSUME NEW j \in JobIds, jobs'[j].status = "fatto", NEW k \in DOMAIN jobs'[j].items
      PROVE  jobs'[j].items[k] \in Settled
  <2>1. CASE j = wk.job
    BY <1>3, <1>6, <2>1
  <2>2. CASE j # wk.job
    <3>1. jobs'[j] = jobs[j]
      BY <1>3, <2>2
    <3> QED BY <1>6, <3>1 DEF JobsInv
  <2> QED BY <2>1, <2>2
<1>7. WorkerTyped' /\ wk'.pc = "idle"
  <2>1. <<>> \in Seq(Stages)
    OBVIOUS
  <2> QED BY <2>1 DEF WorkerTyped, Idle
<1> QED BY <1>3, <1>5, <1>6, <1>7 DEF JobsInv

\* The lock and the GPU thread, and what chats do, leave the jobs alone.
LEMMA SameJobs ==
    ASSUME JobsInv, UNCHANGED jobVars, at'[Worker] = at[Worker]
    PROVE  JobsInv'
<1>1. jobs' = jobs /\ jq' = jq /\ wk' = wk /\ late' = late
  BY DEF jobVars
<1>2. Queue'
  BY <1>1 DEF JobsInv, Queue, Queued
<1>3. Job' = Job /\ Stage' = Stage
  BY <1>1 DEF Job, Stage
<1>4. (AtWork => AtWork') /\ (WorkerTyped => WorkerTyped')
  BY <1>1, <1>3 DEF AtWork, AtStage, AtTurn, AtWave, WorkerTyped
<1> QED BY <1>1, <1>2, <1>4 DEF JobsInv

\* A cancel flag goes up, whoever raises it.
LEMMA Flagged ==
    ASSUME JobsInv, UNCHANGED <<jq, wk, late, at>>, NEW j, NEW c \in BOOLEAN,
           j \in JobIds => (jobs[j].cancel => c), jobs' = [jobs EXCEPT ![j].cancel = c]
    PROVE  JobsInv'
<1>1. \A x \in JobIds : jobs[x] \in JobRecords /\ [jobs[x] EXCEPT !.cancel = c] \in JobRecords
  BY DEF JobsInv, JobRecords
<1>2. jobs' \in [JobIds -> JobRecords]
  BY <1>1 DEF JobsInv
<1>3. \A x \in JobIds : /\ jobs'[x].items = jobs[x].items /\ jobs'[x].status = jobs[x].status
                        /\ jobs'[x].mode = jobs[x].mode /\ (jobs[x].cancel => jobs'[x].cancel)
  BY <1>1 DEF JobsInv, JobRecords
<1>4. Queue'
  <2> SUFFICES ASSUME NEW k \in DOMAIN jq  PROVE Queued(jq[k])'
    BY DEF JobsInv, Queue
  <2>1. jq[k] \in JobIds
    BY LenProperties, ElementOfSeq DEF JobsInv, Queue
  <2> QED BY <1>3, <2>1 DEF JobsInv, Queue, Queued
<1>5. ASSUME AtWork  PROVE AtWork'
  <2>1. /\ wk.job \in JobIds /\ Job'.items = Job.items /\ Job'.status = Job.status
        /\ (Job.cancel => Job'.cancel) /\ Stage' = Stage
    BY <1>3, <1>5 DEF AtWork, Job, Stage
  <2>2. (AtStage => AtStage') /\ (AtTurn => AtTurn') /\ (AtWave => AtWave')
    BY <2>1 DEF AtStage, AtTurn, AtWave
  <2> QED BY <1>5, <2>1, <2>2 DEF AtWork
<1>6. \A x \in JobIds : jobs'[x].status = "fatto" =>
         \A k \in DOMAIN jobs'[x].items : jobs'[x].items[k] \in Settled
  BY <1>3 DEF JobsInv
<1> QED BY <1>2, <1>4, <1>5, <1>6 DEF JobsInv, WorkerTyped
-----------------------------------------------------------------------------
\* The handlers.

LEMMA JobsStart == ServerInit => JobsInv
<1> SUFFICES ASSUME ServerInit  PROVE JobsInv
  OBVIOUS
<1>1. NoJob \in JobRecords /\ NoJob.status = "none"
  <2>1. <<>> \in Seq(ItemStates)
    OBVIOUS
  <2> QED BY <2>1 DEF NoJob, JobRecords
<1>2. jq = <<>> /\ jq \in Seq(JobIds) /\ DOMAIN jq = {}
  BY DEF ServerInit
<1>3. Queue
  BY <1>2 DEF Queue
<1>4. WorkerTyped /\ wk.pc = "idle"
  <2>1. <<>> \in Seq(Stages)
    OBVIOUS
  <2> QED BY <2>1 DEF ServerInit, WorkerTyped, Idle
<1>5. jobs \in [JobIds -> JobRecords] /\ (\A j \in JobIds : jobs[j].status # "fatto") /\ late = 0
  BY <1>1 DEF ServerInit
<1>6. at[Worker] = "off"
  BY CallersFacts DEF ServerInit, EngineInit
<1> QED BY <1>3, <1>4, <1>5, <1>6 DEF JobsInv

LEMMA StepSubmitJob ==
    ASSUME JobsInv, NEW j \in JobIds, NEW mode \in Modes, SubmitJob(j, mode)
    PROVE  JobsInv'
<1>1. PICK n \in 1 .. MaxItems :
         jobs' = [jobs EXCEPT ![j] =
                    [NoJob EXCEPT !.mode = mode, !.status = "in coda",
                       !.items = IF mode \in {"serial", "wave"} THEN Times("in coda", n) ELSE <<>>]]
  BY DEF SubmitJob
<1> DEFINE items == IF mode \in {"serial", "wave"} THEN Times("in coda", n) ELSE <<>>
           new == [NoJob EXCEPT !.mode = mode, !.status = "in coda", !.items = items]
<1>2. items \in Seq(ItemStates)
  <2>1. n \in Nat /\ "in coda" \in ItemStates
    BY JobConstants DEF ItemStates
  <2>2. Times("in coda", n) \in Seq(ItemStates)
    BY <2>1, TimesFacts
  <2>3. <<>> \in Seq(ItemStates)
    OBVIOUS
  <2>4. items = Times("in coda", n) \/ items = <<>>
    OBVIOUS
  <2> HIDE DEF items
  <2> QED BY <2>2, <2>3, <2>4
<1>3. mode \in {"agent", "orchestrate"} => items = <<>>
  OBVIOUS
<1> HIDE DEF items
<1>4. /\ new \in JobRecords /\ new.status = "in coda" /\ new.mode = mode /\ new.items = items
  BY <1>2 DEF NoJob, JobRecords
<1>5. jobs' = [jobs EXCEPT ![j] = new]
  BY <1>1 DEF items
<1> HIDE DEF new
<1>6. jobs[j] = NoJob /\ NoJob.status = "none" /\ UNCHANGED <<engineVars, wk, stop, late>>
      /\ jq' = Append(jq, j)
  BY DEF SubmitJob, NoJob
<1>7. /\ jobs' \in [JobIds -> JobRecords] /\ jobs'[j] = new
      /\ \A x \in JobIds : x # j => jobs'[x] = jobs[x]
  BY <1>4, <1>5 DEF JobsInv
<1>8. /\ jq \in Seq(JobIds) /\ Len(jq) \in Nat /\ DOMAIN jq = 1 .. Len(jq)
      /\ \A k \in DOMAIN jq : jq[k] \in JobIds /\ jobs[jq[k]].status = "in coda"
  BY LenProperties, ElementOfSeq DEF JobsInv, Queue, Queued
<1>9. \A k \in DOMAIN jq : jq[k] # j
  BY <1>6, <1>8
<1> DEFINE q == Append(jq, j)
<1>20. jq \in Seq(JobIds) /\ j \in JobIds
  BY <1>8
<1>21. /\ q \in Seq(JobIds) /\ Len(q) = Len(jq) + 1 /\ q[Len(jq) + 1] = j
       /\ \A k \in 1 .. Len(jq) : q[k] = jq[k]
  BY <1>20, AppendProperties
<1>22. jq' = q
  BY <1>6
<1> HIDE DEF q
<1>10. /\ jq' \in Seq(JobIds) /\ DOMAIN jq' = 1 .. Len(jq) + 1 /\ jq'[Len(jq) + 1] = j
       /\ \A k \in 1 .. Len(jq) : jq'[k] = jq[k]
  BY <1>21, <1>22, LenProperties
<1>11. ASSUME NEW k \in DOMAIN jq', k # Len(jq) + 1  PROVE k \in DOMAIN jq /\ jq'[k] = jq[k]
  <2>1. Len(jq) \in Nat /\ k \in 1 .. Len(jq) + 1
    BY <1>8, <1>10
  <2>2. k \in 1 .. Len(jq)
    BY <1>11, <2>1
  <2> QED BY <1>8, <1>10, <2>2
<1>12. Queue'
  <2>1. ASSUME NEW k \in DOMAIN jq'
        PROVE  /\ jobs'[jq'[k]].status = "in coda" /\ jobs'[jq'[k]].mode \in Modes
               /\ jobs'[jq'[k]].mode \in {"agent", "orchestrate"} => jobs'[jq'[k]].items = <<>>
    <3>1. CASE k = Len(jq) + 1
      <4>1. jobs'[jq'[k]] = new
        BY <1>7, <1>10, <3>1
      <4> QED BY <1>3, <1>4, <4>1
    <3>2. CASE k \in DOMAIN jq /\ jq'[k] = jq[k]
      <4>1. jobs'[jq'[k]] = jobs[jq[k]]
        BY <1>7, <1>8, <1>9, <3>2
      <4> QED BY <3>2, <4>1 DEF JobsInv, Queue, Queued
    <3> QED BY <1>11, <3>1, <3>2
  <2>3. \A k, l \in DOMAIN jq' : jq'[k] = jq'[l] => k = l
    BY <1>9, <1>10, <1>11 DEF JobsInv, Queue
  <2> QED BY <1>10, <2>1, <2>3 DEF Queue, Queued
<1>13. \A x \in JobIds : jobs'[x].status = "fatto" =>
          \A k \in DOMAIN jobs'[x].items : jobs'[x].items[k] \in Settled
  BY <1>4, <1>7 DEF JobsInv
<1>14. ASSUME AtWork  PROVE AtWork'
  <2>1. wk.job \in JobIds /\ wk.job # j /\ wk' = wk /\ late' = late /\ at' = at
    BY <1>6, <1>14 DEF AtWork, Job, engineVars
  <2>2. Job' = Job /\ Stage' = Stage
    BY <1>7, <2>1 DEF Job, Stage
  <2> QED BY <1>14, <2>1, <2>2 DEF AtWork, AtStage, AtTurn, AtWave
<1>15. wk' = wk /\ late' = late /\ at' = at
  BY <1>6 DEF engineVars
<1> QED BY <1>7, <1>12, <1>13, <1>14, <1>15 DEF JobsInv, WorkerTyped

LEMMA StepCancel ==
    ASSUME JobsInv, NEW j \in JobIds, Cancel(j)
    PROVE  JobsInv'
<1>1. jobs' = [jobs EXCEPT ![j].cancel = TRUE] /\ UNCHANGED <<jq, wk, late, at>>
  BY DEF Cancel, engineVars
<1> QED BY <1>1, Flagged

LEMMA StepStopMark ==
    ASSUME JobsInv, StopMark
    PROVE  JobsInv'
<1>1. PICK j : jobs' = [jobs EXCEPT ![j].cancel =
                          @ \/ jobs[j].status \in {"in coda", "in esecuzione"}]
  BY DEF StopMark
<1> DEFINE c == jobs[j].cancel \/ jobs[j].status \in {"in coda", "in esecuzione"}
<1>2. UNCHANGED <<jq, wk, late, at>>
  BY DEF StopMark, engineVars
<1>3. jobs' = [jobs EXCEPT ![j].cancel = c] /\ c \in BOOLEAN /\ (jobs[j].cancel => c)
  BY <1>1
<1> HIDE DEF c
<1> QED BY <1>2, <1>3, Flagged

-----------------------------------------------------------------------------
\* The worker's steps.

LEMMA StepTakeJob ==
    ASSUME JobsInv, TakeJob
    PROVE  JobsInv'
<1> DEFINE j == Head(jq)
<1>1. /\ wk.pc = "idle" /\ jq # <<>> /\ jq' = Tail(jq) /\ late' = 0 /\ UNCHANGED <<engineVars, stop>>
      /\ \/ /\ jobs[j].cancel /\ jobs' = [jobs EXCEPT ![j].status = "annullato"] /\ wk' = wk
         \/ /\ ~ jobs[j].cancel /\ jobs' = [jobs EXCEPT ![j].status = "in esecuzione"]
            /\ wk' = [pc |-> "stage", job |-> j, todo |-> Program(j), slice |-> {}]
  BY DEF TakeJob
<1>2. jq \in Seq(JobIds)
  BY DEF JobsInv, Queue
<1>3. /\ Tail(jq) \in Seq(JobIds) /\ Len(jq) \in Nat \ {0} /\ DOMAIN jq = 1 .. Len(jq)
      /\ DOMAIN Tail(jq) = 1 .. Len(jq) - 1 /\ j = jq[1] /\ jq[1] \in JobIds
      /\ \A k \in 1 .. Len(jq) - 1 : Tail(jq)[k] = jq[k + 1]
  BY <1>1, <1>2, Cut
<1> HIDE DEF j
<1> DEFINE q == Tail(jq)
<1>20. jq' = q
  BY <1>1
<1>21. /\ q \in Seq(JobIds) /\ DOMAIN q = 1 .. Len(jq) - 1
       /\ \A k \in 1 .. Len(jq) - 1 : q[k] = jq[k + 1]
  BY <1>3
<1> HIDE DEF q
<1>22. Len(jq) \in Nat \ {0} /\ DOMAIN jq = 1 .. Len(jq) /\ 1 \in DOMAIN jq /\ j = jq[1] /\ j \in JobIds
  BY <1>3
<1>4. Queued(j) /\ j \in JobIds /\ at'[Worker] = at[Worker]
  <2>1. Queued(jq[1])
    BY <1>22 DEF JobsInv, Queue
  <2> QED BY <1>1, <1>22, <2>1 DEF engineVars
<1>5. \/ jobs' = [jobs EXCEPT ![j].status = "annullato"]
      \/ jobs' = [jobs EXCEPT ![j].status = "in esecuzione"]
  BY <1>1
<1>6. /\ jobs[j] \in JobRecords /\ [jobs[j] EXCEPT !.status = "annullato"] \in JobRecords
      /\ [jobs[j] EXCEPT !.status = "in esecuzione"] \in JobRecords
  BY <1>4 DEF JobsInv, JobRecords, Final
<1>7. /\ jobs' \in [JobIds -> JobRecords] /\ jobs'[j].items = jobs[j].items
      /\ jobs'[j].status # "fatto" /\ \A x \in JobIds : x # j => jobs'[x] = jobs[x]
  <2> SUFFICES ASSUME NEW to \in {"annullato", "in esecuzione"}, jobs' = [jobs EXCEPT ![j].status = to]
               PROVE  /\ jobs' \in [JobIds -> JobRecords] /\ jobs'[j].items = jobs[j].items
                      /\ jobs'[j].status # "fatto" /\ \A x \in JobIds : x # j => jobs'[x] = jobs[x]
    BY <1>5
  <2> DEFINE new == [jobs[j] EXCEPT !.status = to]
  <2>1. new \in JobRecords /\ new.items = jobs[j].items /\ new.status # "fatto"
    BY <1>6 DEF JobRecords
  <2>2. jobs' = [jobs EXCEPT ![j] = new]
    OBVIOUS
  <2> HIDE DEF new
  <2> QED BY <1>4, <2>1, <2>2 DEF JobsInv
<1>23. \A m \in Nat : \A i \in 1 .. m - 1 : i + 1 \in 1 .. m /\ i + 1 # 1 /\ i \in Nat
  OBVIOUS
<1>8. ASSUME NEW k \in DOMAIN jq'
      PROVE  k + 1 \in DOMAIN jq /\ k + 1 # 1 /\ jq'[k] = jq[k + 1] /\ k \in Nat
  <2>1. k \in 1 .. Len(jq) - 1 /\ Len(jq) \in Nat
    BY <1>20, <1>21, <1>22
  <2>2. jq'[k] = jq[k + 1]
    BY <1>20, <1>21, <2>1
  <2>3. k + 1 \in 1 .. Len(jq) /\ k + 1 # 1 /\ k \in Nat
    BY <1>23, <2>1
  <2> QED BY <1>22, <2>2, <2>3
<1>9. Queue'
  <2>1. ASSUME NEW k \in DOMAIN jq'
        PROVE  /\ jobs'[jq'[k]].status = "in coda" /\ jobs'[jq'[k]].mode \in Modes
               /\ jobs'[jq'[k]].mode \in {"agent", "orchestrate"} => jobs'[jq'[k]].items = <<>>
    <3>1. jq[k + 1] # j /\ Queued(jq[k + 1])
      BY <1>8, <1>22 DEF JobsInv, Queue
    <3>2. jq[k + 1] \in JobIds
      BY <1>2, <1>3, <1>8, ElementOfSeq
    <3>3. jobs'[jq'[k]] = jobs[jq[k + 1]]
      BY <1>7, <1>8, <3>1, <3>2
    <3> QED BY <3>1, <3>3 DEF Queued
  <2>2. IsInjective(jq)
    BY DEF JobsInv, Queue, IsInjective
  <2>3. IsInjective(q)
    BY <1>1, <1>2, <2>2, TailFacts DEF q
  <2> QED BY <1>20, <1>21, <2>1, <2>3 DEF Queue, Queued, IsInjective
<1>10. \A x \in JobIds : jobs'[x].status = "fatto" =>
          \A k \in DOMAIN jobs'[x].items : jobs'[x].items[k] \in Settled
  BY <1>7 DEF JobsInv
<1>11. at[Worker] = "off"
  BY <1>1 DEF JobsInv, AtWork
<1>12. CASE wk' = wk
  BY <1>1, <1>4, <1>7, <1>9, <1>10, <1>11, <1>12 DEF JobsInv, WorkerTyped
<1>13. CASE /\ jobs' = [jobs EXCEPT ![j].status = "in esecuzione"]
            /\ wk' = [pc |-> "stage", job |-> j, todo |-> Program(j), slice |-> {}]
  <2> DEFINE items == jobs[j].items
             todo == Program(j)
  <2>6. WellFormed(todo, items) /\ Covered(todo, items)
    BY <1>4, ProgramFacts DEF JobsInv
  <2> HIDE DEF items, todo
  <2>7. wk'.todo = todo /\ wk'.job = j /\ wk'.pc = "stage" /\ wk'.slice = {} /\ WorkerTyped'
    <3>1. todo \in Seq(Stages)
      BY <2>6 DEF WellFormed
    <3> QED BY <1>4, <1>13, <3>1 DEF WorkerTyped, todo
  <2>8. Job'.items = items /\ Job'.status = "in esecuzione"
    BY <1>4, <1>6, <1>13, <2>7 DEF Job, JobsInv, JobRecords, items
  <2>12. late' = 0
    BY <1>1
  <2>11. at'[Worker] = "off" /\ late' # 1
    BY <1>4, <1>11, <2>12
  <2>9. AtStage'
    BY <2>6, <2>7, <2>8, <2>11 DEF AtStage
  <2>10. AtWork'
    BY <1>4, <2>6, <2>7, <2>8, <2>9, <2>11 DEF AtWork
  <2> QED BY <1>1, <1>7, <1>9, <1>10, <2>7, <2>10 DEF JobsInv
<1> QED BY <1>1, <1>12, <1>13

LEMMA StepFinishJob ==
    ASSUME JobsInv, FinishJob
    PROVE  JobsInv'
<1> DEFINE status == IF Job.cancel THEN "annullato" ELSE "fatto"
<1>1. /\ wk.pc = "stage" /\ wk.todo = <<>> /\ jobs' = [jobs EXCEPT ![wk.job].status = status]
      /\ wk' = Idle /\ UNCHANGED <<jq, late>> /\ at' = at
  BY DEF FinishJob, engineVars
<1>2. status \in Final
  BY DEF Final
<1> HIDE DEF status
<1>3. AtWork /\ AtStage
  BY <1>1 DEF JobsInv, AtWork
<1>4. \A k \in DOMAIN Job.items : Job.items[k] \in Settled
  <2>1. DOMAIN wk.todo = {}
    BY <1>1
  <2> QED BY <1>3, <2>1 DEF AtStage, Covered
<1> QED BY <1>1, <1>2, <1>3, <1>4, JobOver DEF AtStage

\* What holds at the head of the loop, when there is a stage.
LEMMA HeadStage ==
    ASSUME JobsInv, wk.pc = "stage", wk.todo # <<>>
    PROVE  /\ AtWork /\ AtStage /\ WellFormed(wk.todo, Job.items) /\ Covered(wk.todo, Job.items)
           /\ Stage = wk.todo[1] /\ Stage \in Stages
           /\ Gen(Stage) => Stage.items \subseteq DOMAIN Job.items
           /\ wk.job \in JobIds /\ jobs \in [JobIds -> JobRecords]
           /\ WellFormed(Rest, Job.items) /\ \A k \in DOMAIN Rest : Rest[k].kind # "plan"
<1>1. AtWork /\ AtStage
  BY DEF JobsInv, AtWork
<1>2. WellFormed(wk.todo, Job.items)
  BY <1>1 DEF AtWork
<1>3. Stage = wk.todo[1] /\ Stage \in Stages /\ (Gen(Stage) => Stage.items \subseteq DOMAIN Job.items)
  BY <1>2, FirstStage DEF Stage
<1>4. WellFormed(Rest, Job.items) /\ \A k \in DOMAIN Rest : Rest[k].kind # "plan"
  BY <1>2, Later DEF Rest
<1> QED BY <1>1, <1>2, <1>3, <1>4 DEF AtWork, AtStage, JobsInv

LEMMA StepCancelled ==
    ASSUME JobsInv, Cancelled
    PROVE  JobsInv'
<1>1. wk.pc = "stage" /\ wk.todo # <<>> /\ jq' = jq /\ late' = late /\ at' = at
  BY DEF Cancelled, engineVars
<1>2. /\ AtWork /\ AtStage /\ WellFormed(wk.todo, Job.items) /\ Covered(wk.todo, Job.items)
      /\ Stage = wk.todo[1] /\ wk.job \in JobIds /\ jobs \in [JobIds -> JobRecords]
      /\ WellFormed(Rest, Job.items) /\ \A k \in DOMAIN Rest : Rest[k].kind # "plan"
  BY <1>1, HeadStage
<1>3. at'[Worker] = "off"
  BY <1>1, <1>2 DEF AtStage
<1>4. CASE /\ Stage.kind \in {"item", "wave"} /\ WithItems(SetItems(Stage.items, "annullato"))
           /\ Then(Rest)
  <2> DEFINE items == SetItems(Stage.items, "annullato")
  <2>1. /\ items \in Seq(ItemStates) /\ DOMAIN items = DOMAIN Job.items
        /\ \A k \in DOMAIN Job.items : items[k] = IF k \in Stage.items THEN "annullato" ELSE Job.items[k]
    BY <1>2, SetItemsFacts DEF ItemStates
  <2> HIDE DEF items
  <2>2. Touched(items)
    BY <1>2, <1>4, <2>1, WithItemsTouched DEF items
  <2>3. \A k \in DOMAIN items :
           \/ items[k] \in Settled
           \/ k \in DOMAIN Job.items /\ items[k] = Job.items[k] /\ (Gen(wk.todo[1]) => k \notin wk.todo[1].items)
    BY <1>2, <2>1 DEF Settled
  <2>4. Covered(Rest, items)
    BY <1>1, <1>2, <2>3, CoveredLater DEF Rest
  <2>5. WellFormed(Rest, items)
    BY <1>2, <2>1, MoreItems
  <2> QED BY <1>1, <1>2, <1>3, <1>4, <2>2, <2>4, <2>5, ToStage
<1>5. CASE /\ Stage.kind \in {"step", "phase", "verify", "review"} /\ Then(<<>>) /\ jobs' = jobs
  <2>1. ~ Gen(wk.todo[1])
    BY <1>2, <1>5 DEF Gen
  <2>2. \A k \in DOMAIN wk.todo : ~ Gen(wk.todo[k])
    BY <1>1, <1>2, <2>1, FirstStage
  <2>3. \A k \in DOMAIN Job.items : Job.items[k] \in Settled
    BY <1>2, <2>2 DEF Covered
  <2>4. Covered(<<>>, Job.items)
    BY <2>3, AllSettled
  <2>5. Touched(Job.items)
    BY <1>2, <1>5 DEF Touched, Job
  <2>6. WellFormed(<<>>, Job.items) /\ \A k \in DOMAIN <<>> : <<>>[k].kind # "plan"
    BY Emptied
  <2> QED BY <1>1, <1>2, <1>3, <1>5, <2>4, <2>5, <2>6, ToStage
<1> QED BY <1>4, <1>5 DEF Cancelled

\* The job's list of stages stays as it is while a stage is under way.
LEMMA StayAtWork ==
    ASSUME JobsInv, AtWork, NEW items, Touched(items), jq' = jq, WorkerTyped',
           wk'.job = wk.job, wk'.todo = wk.todo, late' \in {0, 1}, late' = 1 => Job.cancel,
           DOMAIN Job.items \subseteq DOMAIN items,
           (wk'.pc = "turn" /\ AtTurn') \/ (wk'.pc = "wave" /\ AtWave')
    PROVE  JobsInv'
<1>1. Job'.items = items /\ Job'.status = "in esecuzione" /\ Job'.cancel = Job.cancel
  BY DEF Job, Touched, AtWork
<1>2. WellFormed(wk.todo, items)
  BY MoreItems DEF AtWork
<1>3. AtWork'
  BY <1>1, <1>2 DEF AtWork
<1> QED BY <1>3, OthersKeep DEF JobsInv, Touched

\* The jobs stay as they are.
LEMMA Untouched ==
    ASSUME JobsInv, AtWork, jobs' = jobs
    PROVE  Touched(Job.items)
BY DEF JobsInv, AtWork, Touched, Job

LEMMA StepStartTurn ==
    ASSUME EngineTypeOK, JobsInv, StartTurn
    PROVE  JobsInv'
<1>1. /\ wk.pc = "stage" /\ wk.todo # <<>> /\ Stage.kind \notin {"wave", "phase"}
      /\ Stage.kind # "plan" => ~ Job.cancel
      /\ wk' = [wk EXCEPT !.pc = "turn"] /\ jq' = jq /\ late' = late /\ Move(Worker, "off", "wait")
  BY DEF StartTurn
<1>2. /\ AtWork /\ AtStage /\ WellFormed(wk.todo, Job.items) /\ Covered(wk.todo, Job.items)
      /\ Stage = wk.todo[1] /\ wk.job \in JobIds /\ jobs \in [JobIds -> JobRecords]
  BY <1>1, HeadStage
<1>3. wk'.pc = "turn" /\ wk'.job = wk.job /\ wk'.todo = wk.todo /\ wk'.slice = {} /\ WorkerTyped'
      /\ Stage' = Stage
  BY <1>1, <1>2 DEF JobsInv, WorkerTyped, AtStage, Stage
<1>4. at'[Worker] = "wait"
  BY <1>1, Moved, CallersFacts
<1>5. wk.todo \in Seq(Stages) /\ 1 \in DOMAIN wk.todo
  <2>1. wk.todo \in Seq(Stages)
    BY <1>2 DEF WellFormed
  <2> QED BY <1>1, <2>1, Cut
<1>6. late # 1
  <2> SUFFICES ASSUME late = 1  PROVE FALSE
    OBVIOUS
  <2>1. Job.cancel
    BY <1>2 DEF AtWork
  <2>2. wk.todo[1].kind # "plan"
    BY <1>2, <1>5 DEF AtStage
  <2> QED BY <1>1, <1>2, <2>1, <2>2
<1>7. CASE Stage.kind = "item"
  <2> DEFINE items == SetItems(Stage.items, "in esecuzione")
  <2>1. /\ items \in Seq(ItemStates) /\ DOMAIN items = DOMAIN Job.items
        /\ \A k \in DOMAIN Job.items :
              items[k] = IF k \in Stage.items THEN "in esecuzione" ELSE Job.items[k]
    BY <1>2, SetItemsFacts DEF ItemStates
  <2>2. WithItems(items)
    BY <1>7 DEF StartTurn
  <2> HIDE DEF items
  <2>3. Touched(items)
    BY <1>2, <2>1, <2>2, WithItemsTouched
  <2>4. Covered(wk.todo, items)
    <3> SUFFICES ASSUME NEW k \in DOMAIN items, items[k] \notin Settled
                 PROVE  \E l \in DOMAIN wk.todo : Gen(wk.todo[l]) /\ k \in wk.todo[l].items
      BY DEF Covered
    <3>1. CASE k \in Stage.items
      BY <1>2, <1>5, <1>7, <3>1 DEF Gen
    <3>2. CASE k \notin Stage.items
      BY <1>2, <2>1, <3>2 DEF Covered
    <3> QED BY <3>1, <3>2
  <2>5. Job'.items = items
    BY <1>3, <2>3 DEF Job, Touched
  <2>6. AtTurn'
    BY <1>1, <1>3, <1>4, <1>6, <1>7, <2>4, <2>5 DEF AtTurn
  <2> QED BY <1>1, <1>2, <1>3, <1>6, <2>1, <2>3, <2>6, StayAtWork DEF JobsInv
<1>8. CASE Stage.kind # "item"
  <2> DEFINE old == Job.items
             new == "in esecuzione"
             items == Append(old, new)
  <2>1. \A k \in DOMAIN old : old[k] \in Settled
    <3>1. ~ Gen(wk.todo[1])
      BY <1>1, <1>2, <1>8 DEF Gen
    <3>2. \A k \in DOMAIN wk.todo : ~ Gen(wk.todo[k])
      BY <1>1, <1>2, <3>1, FirstStage
    <3> QED BY <1>2, <3>2 DEF Covered
  <2>2. old \in Seq(ItemStates) /\ Len(old) \in Nat /\ DOMAIN old = 1 .. Len(old)
    BY <1>2, JobFacts
  <2>3. WithItems(items)
    BY <1>8 DEF StartTurn, AddItem
  <2> HIDE DEF old
  <2>4. new \in ItemStates
    BY DEF ItemStates
  <2> HIDE DEF new
  <2>5. /\ items \in Seq(ItemStates) /\ Len(items) = Len(old) + 1
        /\ \A k \in 1 .. Len(old) : items[k] = old[k]
    BY <2>2, <2>4, AppendProperties
  <2> HIDE DEF items
  <2>6. DOMAIN items = 1 .. Len(old) + 1 /\ DOMAIN old \subseteq DOMAIN items
    BY <2>2, <2>5, LenProperties
  <2>7. CoveredButLast(items)
    <3>1. Len(items) # 0 /\ Len(items) - 1 = Len(old)
      BY <2>2, <2>5
    <3>2. items # <<>>
      BY <3>1
    <3> QED BY <2>1, <2>2, <2>5, <3>1, <3>2 DEF CoveredButLast
  <2>8. Touched(items)
    BY <1>2, <2>3, <2>5, WithItemsTouched
  <2>9. Job'.items = items
    BY <1>3, <2>8 DEF Job, Touched
  <2>10. AtTurn'
    BY <1>1, <1>3, <1>4, <1>6, <1>8, <2>7, <2>9 DEF AtTurn
  <2> QED BY <1>1, <1>2, <1>3, <1>6, <2>6, <2>8, <2>10, StayAtWork DEF JobsInv, old
<1> QED BY <1>7, <1>8

\* How a turn goes on.
LEMMA TurnMoves ==
    ASSUME EngineTypeOK, Generating(Worker)
    PROVE  /\ at[Worker] \in {"wait", "clear", "submit", "drain"}
           /\ at'[Worker] \in {"clear", "submit", "drain", "ended", "failed"}
           /\ at[Worker] \in {"submit", "drain"} => at'[Worker] \in {"drain", "ended", "failed"}
<1>1. Worker \in Callers
  BY CallersFacts
<1>2. CASE Acquire(Worker)
  BY <1>1, <1>2, Moved DEF Acquire
<1>3. CASE ClearAbort(Worker)
  BY <1>1, <1>3, Moved DEF ClearAbort
<1>4. CASE Submit(Worker)
  BY <1>1, <1>4, Moved DEF Submit
<1>5. CASE DrainPiece(Worker)
  BY <1>5 DEF DrainPiece
<1>6. CASE DrainEnd(Worker)
  BY <1>1, <1>6 DEF DrainEnd, EngineTypeOK
<1> QED BY <1>2, <1>3, <1>4, <1>5, <1>6 DEF Generating

\* What holds during a turn.
LEMMA InTurn ==
    ASSUME JobsInv, wk.pc = "turn"
    PROVE  /\ AtWork /\ AtTurn /\ WellFormed(wk.todo, Job.items) /\ wk.todo # <<>>
           /\ Stage = wk.todo[1] /\ Stage \in Stages /\ Stage.kind \notin {"wave", "phase"}
           /\ wk.job \in JobIds /\ jobs \in [JobIds -> JobRecords]
           /\ WellFormed(Rest, Job.items) /\ \A k \in DOMAIN Rest : Rest[k].kind # "plan"
<1>1. AtWork /\ AtTurn
  BY DEF JobsInv, AtWork
<1>2. WellFormed(wk.todo, Job.items) /\ wk.todo # <<>> /\ Stage.kind \notin {"wave", "phase"}
  BY <1>1 DEF AtWork, AtTurn
<1>3. Stage = wk.todo[1] /\ Stage \in Stages
  BY <1>2, FirstStage DEF Stage
<1>4. WellFormed(Rest, Job.items) /\ \A k \in DOMAIN Rest : Rest[k].kind # "plan"
  BY <1>2, Later DEF Rest
<1> QED BY <1>1, <1>2, <1>3, <1>4 DEF AtWork, JobsInv

LEMMA StepTurnSteps ==
    ASSUME EngineTypeOK, JobsInv, TurnSteps
    PROVE  JobsInv'
<1>1. /\ wk.pc = "turn" /\ Generating(Worker) /\ jobs' = jobs /\ jq' = jq /\ wk' = wk
      /\ late' = late + (IF at[Worker] = "submit" /\ Job.cancel THEN 1 ELSE 0)
  BY DEF TurnSteps
<1>2. AtWork /\ AtTurn
  BY <1>1, InTurn
<1>3. /\ at'[Worker] \in {"clear", "submit", "drain", "ended", "failed"}
      /\ at[Worker] \in {"submit", "drain"} => at'[Worker] \in {"drain", "ended", "failed"}
      /\ at[Worker] \notin {"ended", "failed"}
  BY <1>1, TurnMoves
<1>4. CASE at[Worker] = "submit" /\ Job.cancel
  <2>1. late = 0
    BY <1>2, <1>4 DEF AtTurn, JobsInv
  <2>2. late' = 1
    BY <1>1, <1>4, <2>1
  <2>3. at'[Worker] \in {"drain", "ended", "failed"}
    BY <1>3, <1>4
  <2>4. AtTurn'
    BY <1>1, <1>2, <2>3 DEF AtTurn, Stage, Job
  <2> QED BY <1>1, <1>2, <1>4, <2>2, <2>4, Untouched, StayAtWork DEF JobsInv, WorkerTyped
<1>5. CASE ~ (at[Worker] = "submit" /\ Job.cancel)
  <2>1. late' = late
    BY <1>1, <1>5 DEF JobsInv
  <2>2. late = 1 => at'[Worker] \in {"drain", "ended", "failed"}
    BY <1>2, <1>3 DEF AtTurn
  <2>3. AtTurn'
    BY <1>1, <1>2, <1>3, <2>1, <2>2 DEF AtTurn, Stage, Job
  <2>4. late = 1 => Job.cancel
    BY <1>2 DEF AtWork
  <2> QED BY <1>1, <1>2, <2>1, <2>3, <2>4, Untouched, StayAtWork DEF JobsInv, WorkerTyped
<1> QED BY <1>4, <1>5

LEMMA StepEndTurn ==
    ASSUME EngineTypeOK, JobsInv, EndTurn
    PROVE  JobsInv'
<1>1. wk.pc = "turn" /\ Move(Worker, "ended", "off") /\ jq' = jq /\ late' = late
  BY DEF EndTurn
<1>2. /\ AtWork /\ AtTurn /\ WellFormed(wk.todo, Job.items) /\ wk.todo # <<>>
      /\ Stage = wk.todo[1] /\ wk.job \in JobIds /\ jobs \in [JobIds -> JobRecords]
      /\ WellFormed(Rest, Job.items) /\ \A k \in DOMAIN Rest : Rest[k].kind # "plan"
  BY <1>1, InTurn
<1>3. at'[Worker] = "off"
  BY <1>1, Moved, CallersFacts
<1> DEFINE old == Job.items
<1>4. old \in Seq(ItemStates) /\ Len(old) \in Nat /\ DOMAIN old = 1 .. Len(old)
  BY <1>2, JobFacts
<1> DEFINE done == Done
<1>5. /\ done \in Seq(ItemStates) /\ DOMAIN done = DOMAIN old
      /\ \A k \in DOMAIN old :
            done[k] = IF k \in (IF Stage.kind = "item" THEN Stage.items ELSE {Len(old)})
                      THEN "fatto" ELSE old[k]
  <2> DEFINE S == IF Stage.kind = "item" THEN Stage.items ELSE {Len(old)}
  <2>1. done = SetItems(S, "fatto") /\ "fatto" \in ItemStates
    BY DEF Done, ItemStates
  <2> HIDE DEF S, done
  <2>2. /\ done \in Seq(ItemStates) /\ DOMAIN done = DOMAIN old
        /\ \A k \in DOMAIN old : done[k] = IF k \in S THEN "fatto" ELSE old[k]
    BY <1>2, <2>1, SetItemsFacts
  <2> QED BY <2>2 DEF S
<1>6. ASSUME Stage.kind # "item"  PROVE \A k \in DOMAIN done : done[k] \in Settled
  <2> HIDE DEF done
  <2> SUFFICES ASSUME NEW k \in DOMAIN done  PROVE done[k] \in Settled
    OBVIOUS
  <2>1. CASE k = Len(old)
    BY <1>5, <1>6, <2>1 DEF Settled
  <2>2. CASE k # Len(old)
    <3>1. k \in 1 .. Len(old) - 1
      BY <1>4, <1>5, <2>2
    <3>2. old[k] \in Settled
      BY <1>2, <1>6, <3>1 DEF AtTurn, CoveredButLast
    <3> QED BY <1>5, <1>6, <2>2, <3>2
  <2> QED BY <2>1, <2>2
<1>7. <<>> \in Seq(ItemStates) /\ WellFormed(<<>>, done) /\ \A k \in DOMAIN <<>> : <<>>[k].kind # "plan"
  BY Emptied
<1> HIDE DEF old, done
<1>8. CASE Stage.kind = "item" /\ WithItems(done) /\ Then(Rest)
  <2>1. Touched(done)
    BY <1>2, <1>5, <1>8, WithItemsTouched
  <2>2. \A k \in DOMAIN done :
           \/ done[k] \in Settled
           \/ k \in DOMAIN old /\ done[k] = old[k] /\ (Gen(wk.todo[1]) => k \notin wk.todo[1].items)
    BY <1>2, <1>5, <1>8 DEF Settled
  <2>3. Covered(wk.todo, old)
    BY <1>2, <1>8 DEF AtTurn, old
  <2>4. WellFormed(wk.todo, old)
    BY <1>2 DEF old
  <2>5. Covered(Rest, done)
    BY <1>2, <2>2, <2>3, <2>4, CoveredLater DEF Rest
  <2>6. WellFormed(Rest, done)
    BY <1>2, <1>5, MoreItems DEF old
  <2> QED BY <1>1, <1>2, <1>3, <1>8, <2>1, <2>5, <2>6, ToStage
<1>9. ASSUME Stage.kind = "step",
             NEW todo \in {Rest, <<>>},
             jobs' = [jobs EXCEPT ![wk.job].items = Done, ![wk.job].result = (todo = <<>>)],
             Then(todo)
      PROVE  JobsInv'
  <2>1. jobs' = [jobs EXCEPT ![wk.job].items = done, ![wk.job].result = (todo = <<>>)]
    BY <1>9 DEF done
  <2>2. Touched(done)
    BY <1>2, <1>5, <2>1, ResultTouched
  <2>3. Covered(todo, done)
    BY <1>6, <1>9, AllSettled
  <2>4. WellFormed(Rest, done)
    BY <1>2, <1>5, MoreItems DEF old
  <2>5. WellFormed(todo, done) /\ \A k \in DOMAIN todo : todo[k].kind # "plan"
    BY <1>2, <1>7, <2>4
  <2> QED BY <1>1, <1>2, <1>3, <1>9, <2>2, <2>3, <2>5, ToStage
<1>10. ASSUME WithItems(<<>>), NEW p \in Plans, Then(p \o <<[kind |-> "verify", items |-> {}]>>)
       PROVE  JobsInv'
  <2> DEFINE todo == p \o <<[kind |-> "verify", items |-> {}]>>
             none == <<>>
  <2>1. WellFormed(todo, none) /\ \A k \in DOMAIN todo : todo[k].kind # "plan"
    BY PlansFacts
  <2>2. Touched(none)
    BY <1>2, <1>7, <1>10, WithItemsTouched
  <2>3. Then(todo)
    BY <1>10
  <2>4. DOMAIN none = {}
    OBVIOUS
  <2> HIDE DEF todo, none
  <2>5. Covered(todo, none)
    BY <2>4 DEF Covered
  <2> QED BY <1>1, <1>2, <1>3, <2>1, <2>2, <2>3, <2>5, ToStage
<1>11. ASSUME Stage.kind # "item", WithItems(done), Then(Review)
       PROVE  JobsInv'
  <2>1. Touched(done)
    BY <1>2, <1>5, <1>11, WithItemsTouched
  <2>2. Covered(Review, done)
    BY <1>6, <1>11, AllSettled
  <2>3. WellFormed(Review, done) /\ \A k \in DOMAIN Review : Review[k].kind # "plan"
    BY ReviewFacts
  <2> QED BY <1>1, <1>2, <1>3, <1>11, <2>1, <2>2, <2>3, ToStage
<1>12. ASSUME Stage.kind # "item", NEW S \in SUBSET (1 .. Len(old) - 1),
              WithItems([k \in DOMAIN done |-> IF k \in S THEN "in coda" ELSE done[k]]),
              Then(<<[kind |-> "wave", items |-> S]>> \o Review)
       PROVE  JobsInv'
  <2> DEFINE items == [k \in DOMAIN done |-> IF k \in S THEN "in coda" ELSE done[k]]
             s == [kind |-> "wave", items |-> S]
             todo == <<s>> \o Review
  <2>1. WithItems(items) /\ Then(todo)
    BY <1>12
  <2>2. DOMAIN items = DOMAIN old /\ \A k \in DOMAIN old : items[k] = IF k \in S THEN "in coda" ELSE done[k]
    BY <1>5
  <2>3. \A k \in DOMAIN done : done[k] \in ItemStates
    BY <1>5, LenProperties, ElementOfSeq
  <2>4. items \in [1 .. Len(old) -> ItemStates]
    BY <1>4, <1>5, <2>3 DEF ItemStates
  <2>5. s.kind = "wave" /\ s.items = S /\ s \in Stages /\ S \subseteq DOMAIN old /\ Gen(s)
    BY <1>4 DEF Stages, Gen
  <2>6. WellFormed(Review, items) /\ \A k \in DOMAIN Review : Review[k].kind # "plan"
    BY ReviewFacts
  <2> HIDE DEF items, s
  <2>7. items \in Seq(ItemStates)
    BY <1>4, <2>4, SMT
  <2>8. /\ WellFormed(todo, items) /\ \A k \in DOMAIN todo : todo[k].kind # "plan"
        /\ 1 \in DOMAIN todo /\ todo[1] = s
    <3>1. s.items \subseteq DOMAIN items
      BY <2>2, <2>5
    <3>2. WellFormed(Review, items)
      BY <2>6
    <3> QED BY <2>5, <2>6, <3>1, <3>2, StageInFront
  <2> HIDE DEF todo
  <2>9. Covered(todo, items)
    <3> SUFFICES ASSUME NEW k \in DOMAIN items, items[k] \notin Settled
                 PROVE  \E l \in DOMAIN todo : Gen(todo[l]) /\ k \in todo[l].items
      BY DEF Covered
    <3>1. k \in S
      BY <1>5, <1>6, <1>12, <2>2
    <3> QED BY <2>5, <2>8, <3>1 DEF Gen
  <2>10. Touched(items)
    BY <1>2, <2>1, <2>7, WithItemsTouched
  <2> QED BY <1>1, <1>2, <1>3, <2>1, <2>8, <2>9, <2>10, ToStage
<1>13. ASSUME Stage.kind = "review", Then(<<>>),
              jobs' = [jobs EXCEPT ![wk.job].items = Done, ![wk.job].result = TRUE]
       PROVE  JobsInv'
  <2>1. jobs' = [jobs EXCEPT ![wk.job].items = done, ![wk.job].result = TRUE]
    BY <1>13 DEF done
  <2>2. Touched(done)
    BY <1>2, <1>5, <2>1, ResultTouched
  <2>3. Covered(<<>>, done)
    BY <1>6, <1>13, AllSettled
  <2> QED BY <1>1, <1>2, <1>3, <1>7, <1>13, <2>2, <2>3, ToStage
<1>14. CASE Stage.kind = "item" /\ WithItems(Done) /\ Then(Rest)
  BY <1>8, <1>14 DEF done
<1>15. CASE /\ Stage.kind = "step"
            /\ \E todo \in {Rest, <<>>} :
                 /\ jobs' = [jobs EXCEPT ![wk.job].items = Done, ![wk.job].result = (todo = <<>>)]
                 /\ Then(todo)
  BY <1>9, <1>15
<1>16. CASE /\ WithItems(<<>>)
            /\ \E p \in Plans : Then(p \o <<[kind |-> "verify", items |-> {}]>>)
  BY <1>10, <1>16
<1>17. CASE /\ Stage.kind = "verify"
            /\ \E S \in SUBSET (1 .. Len(Job.items) - 1) :
                 IF S = {} \/ Job.cancel
                 THEN WithItems(Done) /\ Then(Review)
                 ELSE /\ WithItems([k \in DOMAIN Done |-> IF k \in S THEN "in coda" ELSE Done[k]])
                      /\ Then(<<[kind |-> "wave", items |-> S]>> \o Review)
  <2>1. PICK S \in SUBSET (1 .. Len(Job.items) - 1) :
           \/ WithItems(Done) /\ Then(Review)
           \/ /\ WithItems([k \in DOMAIN Done |-> IF k \in S THEN "in coda" ELSE Done[k]])
              /\ Then(<<[kind |-> "wave", items |-> S]>> \o Review)
    BY <1>17
  <2>2. Stage.kind # "item" /\ S \in SUBSET (1 .. Len(old) - 1)
    BY <1>17, <2>1 DEF old
  <2>3. CASE WithItems(Done) /\ Then(Review)
    BY <1>11, <2>2, <2>3 DEF done
  <2>4. CASE /\ WithItems([k \in DOMAIN Done |-> IF k \in S THEN "in coda" ELSE Done[k]])
             /\ Then(<<[kind |-> "wave", items |-> S]>> \o Review)
    <3>1. WithItems([k \in DOMAIN done |-> IF k \in S THEN "in coda" ELSE done[k]])
      BY <2>4 DEF done
    <3> QED BY <1>12, <2>2, <2>4, <3>1
  <2> QED BY <2>1, <2>3, <2>4
<1>18. CASE /\ Stage.kind = "review" /\ Then(<<>>)
            /\ jobs' = [jobs EXCEPT ![wk.job].items = Done, ![wk.job].result = TRUE]
  BY <1>13, <1>18
<1> QED BY <1>14, <1>15, <1>16, <1>17, <1>18 DEF EndTurn

LEMMA StepTurnFailed ==
    ASSUME EngineTypeOK, JobsInv, TurnFailed
    PROVE  JobsInv'
<1>1. /\ wk.pc = "turn" /\ Move(Worker, "failed", "off")
      /\ jobs' = [jobs EXCEPT ![wk.job].status = "errore"] /\ wk' = Idle /\ UNCHANGED <<jq, late>>
  BY DEF TurnFailed, FailJob
<1>2. AtWork /\ at'[Worker] = "off"
  BY <1>1, InTurn, Moved, CallersFacts
<1>3. "errore" \in Final /\ "errore" # "fatto"
  BY DEF Final
<1> QED BY <1>1, <1>2, <1>3, JobOver

LEMMA StepStartPhase ==
    ASSUME JobsInv, StartPhase
    PROVE  JobsInv'
<1> DEFINE old == Job.items
           n == Len(old)
           m == Cardinality(Stage.items)
           new == Times("in coda", m)
           items == old \o new
           s == [kind |-> "wave", items |-> n + 1 .. n + m]
           todo == <<s>> \o Rest
<1>1. /\ wk.pc = "stage" /\ wk.todo # <<>> /\ Stage.kind = "phase" /\ ~ Job.cancel
      /\ WithItems(items) /\ Then(todo) /\ jq' = jq /\ late' = late /\ at' = at
  BY DEF StartPhase, engineVars
<1>2. /\ AtWork /\ AtStage /\ WellFormed(wk.todo, old) /\ Covered(wk.todo, old)
      /\ Stage = wk.todo[1] /\ wk.job \in JobIds /\ jobs \in [JobIds -> JobRecords]
      /\ WellFormed(Rest, old) /\ \A k \in DOMAIN Rest : Rest[k].kind # "plan"
  BY <1>1, HeadStage
<1>3. at'[Worker] = "off"
  BY <1>1, <1>2 DEF AtStage
<1>4. m \in Nat
  <2>1. IsFiniteSet(Stage.items)
    BY <1>1, <1>2, FirstStage
  <2> QED BY <2>1, FS_CardinalityType
<1>5. \A k \in DOMAIN old : old[k] \in Settled
  <2>1. ~ Gen(wk.todo[1])
    BY <1>1, <1>2 DEF Gen
  <2>2. \A k \in DOMAIN wk.todo : ~ Gen(wk.todo[k])
    BY <1>1, <1>2, <2>1, FirstStage
  <2> QED BY <1>2, <2>2 DEF Covered
<1>6. old \in Seq(ItemStates) /\ n \in Nat /\ DOMAIN old = 1 .. n
  BY <1>2, JobFacts
<1> HIDE DEF m
<1>7. new \in Seq(ItemStates) /\ Len(new) = m
  <2>1. "in coda" \in ItemStates
    BY DEF ItemStates
  <2> QED BY <1>4, <2>1, TimesFacts
<1> HIDE DEF old, new
<1>8. /\ items \in Seq(ItemStates) /\ Len(items) = Len(old) + Len(new)
      /\ \A k \in 1 .. Len(old) + Len(new) : items[k] = IF k <= Len(old) THEN old[k] ELSE new[k - Len(old)]
  <2>1. old \in Seq(ItemStates) /\ new \in Seq(ItemStates)
    BY <1>6, <1>7
  <2> QED BY <2>1, ConcatProperties
<1> HIDE DEF n, items
<1>9. DOMAIN items = 1 .. n + m /\ \A k \in 1 .. n : items[k] = old[k]
  <2>1. Len(items) = n + m
    BY <1>7, <1>8 DEF n
  <2>2. \A k \in 1 .. n : k \in 1 .. n + m /\ k <= n
    BY <1>4, <1>6
  <2>3. DOMAIN items = 1 .. n + m
    BY <1>8, <2>1, LenProperties
  <2> QED BY <1>7, <1>8, <2>2, <2>3 DEF n
<1>10. /\ DOMAIN old \subseteq DOMAIN items /\ n + 1 .. n + m \subseteq DOMAIN items
       /\ n + 1 .. n + m \subseteq Nat
       /\ \A k \in DOMAIN items : k \in 1 .. n \/ k \in n + 1 .. n + m
  BY <1>4, <1>6, <1>9
<1>11. s.kind = "wave" /\ s.items = n + 1 .. n + m /\ s \in Stages /\ Gen(s)
  BY <1>10 DEF Stages, Gen
<1> HIDE DEF s
<1>12. WellFormed(Rest, items)
  BY <1>2, <1>10, MoreItems
<1>13. /\ WellFormed(todo, items) /\ \A k \in DOMAIN todo : todo[k].kind # "plan"
       /\ 1 \in DOMAIN todo /\ todo[1] = s
  <2>1. s.items \subseteq DOMAIN items
    BY <1>10, <1>11
  <2>2. s \in Stages /\ Gen(s) /\ \A k \in DOMAIN Rest : Rest[k].kind # "plan"
    BY <1>2, <1>11
  <2> QED BY <1>12, <2>1, <2>2, StageInFront
<1> HIDE DEF todo
<1>14. Covered(todo, items)
  <2> SUFFICES ASSUME NEW k \in DOMAIN items, items[k] \notin Settled
               PROVE  \E l \in DOMAIN todo : Gen(todo[l]) /\ k \in todo[l].items
    BY DEF Covered
  <2>1. CASE k \in 1 .. n
    BY <1>5, <1>6, <1>9, <2>1
  <2>2. CASE k \in n + 1 .. n + m
    BY <1>11, <1>13, <2>2
  <2> QED BY <1>10, <2>1, <2>2
<1>15. Touched(items)
  BY <1>1, <1>2, <1>8, WithItemsTouched
<1> QED BY <1>1, <1>2, <1>3, <1>13, <1>14, <1>15, ToStage

LEMMA StepStartWave ==
    ASSUME EngineTypeOK, JobsInv, StartWave
    PROVE  JobsInv'
<1>1. wk.pc = "stage" /\ wk.todo # <<>> /\ Stage.kind = "wave" /\ jq' = jq /\ late' = late
  BY DEF StartWave
<1>2. /\ AtWork /\ AtStage /\ WellFormed(wk.todo, Job.items) /\ Covered(wk.todo, Job.items)
      /\ Stage = wk.todo[1] /\ wk.job \in JobIds /\ jobs \in [JobIds -> JobRecords]
      /\ WellFormed(Rest, Job.items) /\ \A k \in DOMAIN Rest : Rest[k].kind # "plan"
      /\ Stage.items \subseteq DOMAIN Job.items /\ Stage \in Stages
  BY <1>1, HeadStage DEF Gen
<1>3. CASE Stage.items = {} /\ Then(Rest) /\ UNCHANGED <<jobs, at>>
  <2>1. Touched(Job.items)
    BY <1>2, <1>3, Untouched
  <2>2. Covered(Rest, Job.items)
    <3>1. \A k \in DOMAIN Job.items :
             \/ Job.items[k] \in Settled
             \/ k \in DOMAIN Job.items /\ Job.items[k] = Job.items[k] /\ (Gen(wk.todo[1]) => k \notin wk.todo[1].items)
      BY <1>2, <1>3
    <3> QED BY <1>1, <1>2, <3>1, CoveredLater DEF Rest
  <2>3. at'[Worker] = "off"
    BY <1>2, <1>3 DEF AtStage
  <2> QED BY <1>1, <1>2, <1>3, <2>1, <2>2, <2>3, ToStage
<1>4. CASE /\ ~ Job.cancel
           /\ WithItems(SetItems(Slice(Stage.items), "in esecuzione"))
           /\ wk' = [wk EXCEPT !.pc = "wave", !.slice = Slice(Stage.items)]
           /\ Move(Worker, "off", "wait")
  <2> DEFINE slice == Slice(Stage.items)
             items == SetItems(slice, "in esecuzione")
  <2>1. slice \subseteq Stage.items
    BY DEF Slice
  <2>2. WithItems(items) /\ wk' = [wk EXCEPT !.pc = "wave", !.slice = slice]
    BY <1>4
  <2> HIDE DEF slice
  <2>4. /\ items \in Seq(ItemStates) /\ DOMAIN items = DOMAIN Job.items
        /\ \A k \in DOMAIN Job.items : items[k] = IF k \in slice THEN "in esecuzione" ELSE Job.items[k]
    BY <1>2, SetItemsFacts DEF ItemStates
  <2> HIDE DEF items
  <2>5. Touched(items)
    BY <1>2, <2>2, <2>4, WithItemsTouched
  <2>6. slice \in SUBSET Nat
    BY <1>2, <2>1 DEF Stages
  <2>7. /\ wk'.pc = "wave" /\ wk'.job = wk.job /\ wk'.todo = wk.todo /\ wk'.slice = slice
        /\ WorkerTyped' /\ Stage' = Stage
    BY <2>2, <2>6 DEF JobsInv, WorkerTyped, Stage
  <2>8. Job'.items = items
    BY <2>5, <2>7 DEF Job, Touched
  <2>9. late = 0
    BY <1>2, <1>4 DEF AtWork, JobsInv
  <2>10. at'[Worker] = "wait"
    BY <1>4, Moved, CallersFacts
  <2>11. Covered(wk.todo, items)
    <3> SUFFICES ASSUME NEW k \in DOMAIN items, items[k] \notin Settled
                 PROVE  \E l \in DOMAIN wk.todo : Gen(wk.todo[l]) /\ k \in wk.todo[l].items
      BY DEF Covered
    <3>1. 1 \in DOMAIN wk.todo
      <4>1. wk.todo \in Seq(Stages)
        BY <1>2 DEF WellFormed
      <4> QED BY <1>1, <4>1, Cut
    <3>2. CASE k \in slice
      BY <1>1, <1>2, <2>1, <3>1, <3>2 DEF Gen
    <3>3. CASE k \notin slice
      BY <1>2, <2>4, <3>3 DEF Covered
    <3> QED BY <3>2, <3>3
  <2>12. \A k \in slice : items[k] # "in coda"
    BY <1>2, <2>1, <2>4
  <2>13. AtWave'
    BY <1>1, <2>1, <2>7, <2>8, <2>9, <2>10, <2>11, <2>12 DEF AtWave
  <2>14. late' = 0
    BY <1>1, <2>9
  <2>15. late' \in {0, 1} /\ late' # 1
    BY <2>14
  <2>16. DOMAIN Job.items \subseteq DOMAIN items
    BY <2>4
  <2> QED BY <1>1, <1>2, <2>5, <2>7, <2>13, <2>15, <2>16, StayAtWork
<1> QED BY <1>3, <1>4 DEF StartWave

\* What holds during a wave.
LEMMA InWave ==
    ASSUME JobsInv, wk.pc = "wave"
    PROVE  /\ AtWork /\ AtWave /\ WellFormed(wk.todo, Job.items) /\ wk.todo # <<>>
           /\ Covered(wk.todo, Job.items) /\ wk.slice \subseteq Stage.items
           /\ Stage = wk.todo[1] /\ Stage \in Stages /\ Stage.kind = "wave"
           /\ Stage.items \subseteq DOMAIN Job.items /\ 1 \in DOMAIN wk.todo
           /\ wk.job \in JobIds /\ jobs \in [JobIds -> JobRecords]
           /\ WellFormed(Rest, Job.items) /\ \A k \in DOMAIN Rest : Rest[k].kind # "plan"
<1>1. AtWork /\ AtWave
  BY DEF JobsInv, AtWork
<1>2. /\ WellFormed(wk.todo, Job.items) /\ wk.todo # <<>> /\ Stage.kind = "wave"
      /\ Covered(wk.todo, Job.items) /\ wk.slice \subseteq Stage.items
  BY <1>1 DEF AtWork, AtWave
<1>3. Stage = wk.todo[1] /\ Stage \in Stages /\ Stage.items \subseteq DOMAIN Job.items
  BY <1>2, FirstStage DEF Stage, Gen
<1>4. WellFormed(Rest, Job.items) /\ \A k \in DOMAIN Rest : Rest[k].kind # "plan"
  BY <1>2, Later DEF Rest
<1>5. wk.todo \in Seq(Stages)
  BY <1>2 DEF WellFormed
<1>6. 1 \in DOMAIN wk.todo
  BY <1>2, <1>5, Cut
<1> QED BY <1>1, <1>2, <1>3, <1>4, <1>6 DEF AtWork, JobsInv

LEMMA StepWaveLock ==
    ASSUME EngineTypeOK, JobsInv, WaveAcquire \/ WaveClear
    PROVE  JobsInv'
<1>1. wk.pc = "wave" /\ UNCHANGED jobVars /\ at'[Worker] \in {"clear", "wave"}
  <2>1. CASE WaveAcquire
    BY <2>1, Moved, CallersFacts DEF WaveAcquire, Acquire
  <2>2. CASE WaveClear
    BY <2>2, Moved, CallersFacts DEF WaveClear
  <2> QED BY <2>1, <2>2
<1>2. jobs' = jobs /\ jq' = jq /\ wk' = wk /\ late' = late
  BY <1>1 DEF jobVars
<1>3. AtWork /\ AtWave
  BY <1>1, InWave
<1>4. AtWave'
  BY <1>1, <1>2, <1>3 DEF AtWave, Stage, Job
<1>5. late' \in {0, 1} /\ (late' = 1 => Job.cancel) /\ WorkerTyped'
  BY <1>2, <1>3 DEF JobsInv, AtWork, WorkerTyped
<1> QED BY <1>1, <1>2, <1>3, <1>4, <1>5, Untouched, StayAtWork

LEMMA StepWaveStep ==
    ASSUME JobsInv, WaveStep
    PROVE  JobsInv'
<1>1. /\ wk.pc = "wave" /\ at[Worker] = "wave" /\ at' = at /\ jq' = jq /\ wk' = wk /\ late' = late
  BY DEF WaveStep, engineVars
<1>2. PICK S : WithItems(SetItems(S, "fatto"))
  BY DEF WaveStep
<1>3. /\ AtWork /\ AtWave /\ Covered(wk.todo, Job.items) /\ wk.slice \subseteq Stage.items
      /\ Stage.items \subseteq DOMAIN Job.items
      /\ wk.job \in JobIds /\ jobs \in [JobIds -> JobRecords]
  BY <1>1, InWave
<1> DEFINE items == SetItems(S, "fatto")
<1>4. /\ items \in Seq(ItemStates) /\ DOMAIN items = DOMAIN Job.items
      /\ \A k \in DOMAIN Job.items : items[k] = IF k \in S THEN "fatto" ELSE Job.items[k]
  BY <1>3, SetItemsFacts DEF ItemStates
<1>5. WithItems(items)
  BY <1>2
<1> HIDE DEF items
<1>6. Touched(items)
  BY <1>3, <1>4, <1>5, WithItemsTouched
<1>7. Covered(wk.todo, items)
  BY <1>3, <1>4 DEF Covered, Settled
<1>8. \A k \in wk.slice : items[k] # "in coda"
  <2> SUFFICES ASSUME NEW k \in wk.slice  PROVE items[k] # "in coda"
    OBVIOUS
  <2>1. k \in DOMAIN Job.items /\ Job.items[k] # "in coda"
    BY <1>3 DEF AtWave
  <2> QED BY <1>4, <2>1
<1>9. Job'.items = items /\ Stage' = Stage
  BY <1>1, <1>6 DEF Job, Stage, Touched
<1>10. AtWave'
  BY <1>1, <1>3, <1>7, <1>8, <1>9 DEF AtWave
<1>11. late' \in {0, 1} /\ (late' = 1 => Job.cancel) /\ WorkerTyped'
  BY <1>1, <1>3 DEF JobsInv, AtWork, WorkerTyped
<1> QED BY <1>1, <1>3, <1>4, <1>6, <1>10, <1>11, StayAtWork

LEMMA StepWaveDone ==
    ASSUME EngineTypeOK, JobsInv, WaveDone
    PROVE  JobsInv'
<1> DEFINE s == [Stage EXCEPT !.items = @ \ wk.slice]
           todo == <<s>> \o Rest
<1>1. /\ wk.pc = "wave" /\ Open = {} /\ Move(Worker, "wave", "off") /\ Then(todo)
      /\ jobs' = jobs /\ jq' = jq /\ late' = late
  BY DEF WaveDone, Release
<1>2. /\ AtWork /\ AtWave /\ WellFormed(wk.todo, Job.items) /\ wk.todo # <<>>
      /\ Covered(wk.todo, Job.items) /\ wk.slice \subseteq Stage.items
      /\ Stage = wk.todo[1] /\ Stage \in Stages /\ Stage.kind = "wave"
      /\ Stage.items \subseteq DOMAIN Job.items
      /\ wk.job \in JobIds /\ jobs \in [JobIds -> JobRecords]
      /\ WellFormed(Rest, Job.items) /\ \A k \in DOMAIN Rest : Rest[k].kind # "plan"
  BY <1>1, InWave
<1>3. at'[Worker] = "off"
  BY <1>1, Moved, CallersFacts
<1>4. s \in Stages /\ s.kind = "wave" /\ s.items = Stage.items \ wk.slice
  BY <1>2 DEF Stages
<1>5. Gen(s) /\ s.items \subseteq DOMAIN Job.items
  BY <1>2, <1>4 DEF Gen
<1> HIDE DEF s
<1>6. /\ WellFormed(todo, Job.items) /\ \A k \in DOMAIN todo : todo[k].kind # "plan"
      /\ 1 \in DOMAIN todo /\ todo[1] = s
      /\ \A l \in DOMAIN Rest : \E k \in DOMAIN todo : todo[k] = Rest[l]
  BY <1>2, <1>4, <1>5, StageInFront
<1> HIDE DEF todo
<1>7. \A k \in wk.slice : Job.items[k] \in Settled
  <2> SUFFICES ASSUME NEW k \in wk.slice  PROVE Job.items[k] \in Settled
    OBVIOUS
  <2>1. Job.items[k] # "in coda" /\ Job.items[k] # "in esecuzione" /\ k \in DOMAIN Job.items
    BY <1>1, <1>2 DEF AtWave, Open
  <2>2. Job.items[k] \in ItemStates
    BY <1>2, <2>1, JobFacts
  <2> QED BY <2>1, <2>2 DEF ItemStates, Settled
<1>8. Covered(todo, Job.items)
  <2> SUFFICES ASSUME NEW k \in DOMAIN Job.items, Job.items[k] \notin Settled
               PROVE  \E l \in DOMAIN todo : Gen(todo[l]) /\ k \in todo[l].items
    BY DEF Covered
  <2>1. PICK l \in DOMAIN wk.todo : Gen(wk.todo[l]) /\ k \in wk.todo[l].items
    BY <1>2 DEF Covered
  <2>2. CASE l = 1
    <3>1. k \in s.items
      BY <1>2, <1>4, <1>7, <2>1, <2>2
    <3> QED BY <1>5, <1>6, <3>1
  <2>3. CASE l # 1
    <3>1. PICK m \in DOMAIN Rest : Rest[m] = wk.todo[l]
      BY <1>2, <2>3, Later DEF Rest
    <3>2. PICK i \in DOMAIN todo : todo[i] = Rest[m]
      BY <1>6
    <3> QED BY <2>1, <3>1, <3>2
  <2> QED BY <2>2, <2>3
<1>9. Touched(Job.items)
  BY <1>1, <1>2, Untouched
<1> QED BY <1>1, <1>2, <1>3, <1>6, <1>8, <1>9, ToStage

LEMMA StepWaveAborted ==
    ASSUME EngineTypeOK, JobsInv, WaveAborted
    PROVE  JobsInv'
<1> DEFINE S == Open \cup (Stage.items \ wk.slice)
           items == SetItems(S, "annullato")
<1>1. /\ wk.pc = "wave" /\ Move(Worker, "wave", "off") /\ WithItems(items) /\ Then(Rest)
      /\ jq' = jq /\ late' = late
  BY DEF WaveAborted, Release
<1>2. /\ AtWork /\ AtWave /\ WellFormed(wk.todo, Job.items) /\ wk.todo # <<>>
      /\ Covered(wk.todo, Job.items) /\ Stage = wk.todo[1]
      /\ wk.job \in JobIds /\ jobs \in [JobIds -> JobRecords]
      /\ WellFormed(Rest, Job.items) /\ \A k \in DOMAIN Rest : Rest[k].kind # "plan"
  BY <1>1, InWave
<1>3. at'[Worker] = "off"
  BY <1>1, Moved, CallersFacts
<1> HIDE DEF S
<1>4. /\ items \in Seq(ItemStates) /\ DOMAIN items = DOMAIN Job.items
      /\ \A k \in DOMAIN Job.items : items[k] = IF k \in S THEN "annullato" ELSE Job.items[k]
  <2>1. "annullato" \in ItemStates
    BY DEF ItemStates
  <2>2. jobs \in [JobIds -> JobRecords] /\ wk.job \in JobIds
    BY <1>2
  <2> QED BY <2>1, <2>2, SetItemsFacts
<1> HIDE DEF items
<1>5. Touched(items)
  BY <1>1, <1>2, <1>4, WithItemsTouched
<1>6. ASSUME NEW k \in DOMAIN items
      PROVE  \/ items[k] \in Settled
             \/ k \in DOMAIN Job.items /\ items[k] = Job.items[k] /\ (Gen(wk.todo[1]) => k \notin wk.todo[1].items)
  <2>1. CASE k \in S
    BY <1>4, <2>1 DEF Settled
  <2>2. CASE k \notin S
    <3>1. items[k] = Job.items[k] /\ k \in DOMAIN Job.items
      BY <1>4, <2>2
    <3>2. CASE k \in wk.slice
      <4>1. Job.items[k] # "in coda" /\ Job.items[k] # "in esecuzione"
        BY <1>2, <2>2, <3>2 DEF AtWave, Open, S
      <4>2. Job.items[k] \in ItemStates
        BY <1>2, <3>1, JobFacts
      <4> QED BY <3>1, <4>1, <4>2 DEF ItemStates, Settled
    <3>3. CASE k \notin wk.slice
      BY <1>2, <2>2, <3>1, <3>3 DEF S
    <3> QED BY <3>2, <3>3
  <2> QED BY <2>1, <2>2
<1>7. Covered(Rest, items)
  BY <1>2, <1>6, CoveredLater DEF Rest
<1>8. WellFormed(Rest, items)
  BY <1>2, <1>4, MoreItems
<1> QED BY <1>1, <1>2, <1>3, <1>5, <1>7, <1>8, ToStage

LEMMA StepWaveFailed ==
    ASSUME EngineTypeOK, JobsInv, WaveFailed
    PROVE  JobsInv'
<1>1. /\ wk.pc = "wave" /\ Move(Worker, "wave", "off")
      /\ jobs' = [jobs EXCEPT ![wk.job].status = "errore"] /\ wk' = Idle /\ UNCHANGED <<jq, late>>
  BY DEF WaveFailed, Release, FailJob
<1>2. AtWork /\ at'[Worker] = "off"
  BY <1>1, InWave, Moved, CallersFacts
<1>3. "errore" \in Final /\ "errore" # "fatto"
  BY DEF Final
<1> QED BY <1>1, <1>2, <1>3, JobOver
-----------------------------------------------------------------------------
\* The whole server.

\* What the worker's steps do to the engine.
LEMMA WorkerEngine ==
    ASSUME EngineInv, WorkerStep
    PROVE  EngineInv'
<1>1. Worker \in Callers
  BY CallersFacts
<1>2. ASSUME NEW from \in {"off", "ended", "failed"}, NEW to \in {"off", "wait"},
             Move(Worker, from, to), UNCHANGED <<lock, abort, gpu, chan>>
      PROVE  EngineInv'
  <2>1. at[Worker] = from /\ at' = [at EXCEPT ![Worker] = to]
    BY <1>2 DEF Move
  <2>2. ~ InLock(Worker) /\ ~ InLock(Worker)'
    BY <1>1, <2>1 DEF EngineInv, EngineTypeOK, InLock
  <2>3. UNCHANGED <<lock, gpu, chan>> /\ abort' \in BOOLEAN
    BY <1>2 DEF EngineInv, EngineTypeOK
  <2> QED BY <1>1, <2>1, <2>2, <2>3, StepOutside
<1>3. ASSUME UNCHANGED engineVars  PROVE EngineInv'
  <2>1. UNCHANGED <<lock, gpu, chan, at>> /\ abort' \in BOOLEAN
    BY <1>3 DEF engineVars, EngineInv, EngineTypeOK
  <2> QED BY <2>1, StepAbort
<1>4. CASE TakeJob \/ FinishJob \/ Cancelled \/ StartPhase \/ WaveStep
  BY <1>3, <1>4 DEF TakeJob, FinishJob, Cancelled, StartPhase, WaveStep
<1>5. CASE StartTurn
  BY <1>2, <1>5 DEF StartTurn
<1>6. CASE TurnSteps
  BY <1>1, <1>6, StepGenerating DEF TurnSteps
<1>7. CASE EndTurn
  BY <1>2, <1>7 DEF EndTurn
<1>8. CASE TurnFailed
  BY <1>2, <1>8 DEF TurnFailed
<1>9. CASE StartWave
  <2>1. UNCHANGED <<lock, abort, gpu, chan>> /\ (at' = at \/ Move(Worker, "off", "wait"))
    BY <1>9 DEF StartWave
  <2>2. CASE at' = at
    BY <1>3, <2>1, <2>2 DEF engineVars
  <2>3. CASE Move(Worker, "off", "wait")
    BY <1>2, <2>1, <2>3
  <2> QED BY <2>1, <2>2, <2>3
<1>10. CASE WaveAcquire
  BY <1>1, <1>10, StepAcquire DEF WaveAcquire
<1>11. CASE WaveClear
  <2>1. Move(Worker, "clear", "wave") /\ abort' \in BOOLEAN /\ UNCHANGED <<lock, gpu, chan>>
    BY <1>11 DEF WaveClear
  <2> QED BY <1>1, <2>1, StepClear
<1>12. CASE WaveDone \/ WaveAborted \/ WaveFailed
  <2>1. Move(Worker, "wave", "off") /\ lock' = NoOne /\ UNCHANGED <<abort, gpu, chan>>
    BY <1>12 DEF WaveDone, WaveAborted, WaveFailed, Release
  <2> QED BY <1>1, <2>1, StepRelease
<1> QED BY <1>4, <1>5, <1>6, <1>7, <1>8, <1>9, <1>10, <1>11, <1>12 DEF WorkerStep

LEMMA WorkerJobs ==
    ASSUME ServerInv, WorkerStep
    PROVE  JobsInv'
<1>1. JobsInv /\ EngineTypeOK
  BY DEF ServerInv, EngineInv
<1> QED BY <1>1, StepTakeJob, StepFinishJob, StepCancelled, StepStartTurn, StepTurnSteps,
           StepEndTurn, StepTurnFailed, StepStartPhase, StepStartWave, StepWaveLock, StepWaveStep,
           StepWaveDone, StepWaveAborted, StepWaveFailed DEF WorkerStep

\* A chat never moves the worker.
LEMMA ChatElsewhere ==
    ASSUME EngineTypeOK, NEW c \in Chats, ChatStep(c)
    PROVE  at'[Worker] = at[Worker]
<1>1. c # Worker /\ Worker \in Callers /\ c \in Callers
  BY CallersFacts
<1>2. at' = at \/ \E to : at' = [at EXCEPT ![c] = to]
  BY DEF ChatStep, ChatRequest, Disconnect, Generating, Acquire, ClearAbort, Submit, DrainPiece,
         DrainEnd, Move
<1> QED BY <1>1, <1>2 DEF EngineTypeOK

LEMMA StopHandler ==
    ASSUME ServerInv, StopAbort \/ StopReply
    PROVE  ServerInv'
<1>1. /\ UNCHANGED <<lock, gpu, chan, at, jobs, jq, wk, late>> /\ abort' \in BOOLEAN
  BY DEF StopAbort, StopReply, engineVars, ServerInv, EngineInv, EngineTypeOK
<1>2. EngineInv'
  BY <1>1, StepAbort DEF ServerInv
<1>3. JobsInv'
  <2>1. Queue'
    BY <1>1 DEF ServerInv, JobsInv, Queue, Queued
  <2>2. Job' = Job /\ Stage' = Stage
    BY <1>1 DEF Job, Stage
  <2>3. (AtWork => AtWork') /\ (WorkerTyped => WorkerTyped')
    BY <1>1, <2>2 DEF AtWork, AtStage, AtTurn, AtWave, WorkerTyped
  <2> QED BY <1>1, <2>1, <2>3 DEF ServerInv, JobsInv
<1> QED BY <1>2, <1>3 DEF ServerInv

LEMMA ServerStart == ServerInit => ServerInv
BY EngineStart, JobsStart DEF ServerInit, ServerInv

LEMMA ServerStep == ServerInv /\ [ServerNext]_serverVars => ServerInv'
<1> SUFFICES ASSUME ServerInv, [ServerNext]_serverVars  PROVE ServerInv'
  OBVIOUS
<1>1. EngineInv /\ JobsInv /\ EngineTypeOK
  BY DEF ServerInv, EngineInv
<1>2. ASSUME UNCHANGED engineVars  PROVE EngineInv'
  <2>1. UNCHANGED <<lock, gpu, chan, at>> /\ abort' \in BOOLEAN
    BY <1>1, <1>2 DEF engineVars, EngineTypeOK
  <2> QED BY <1>1, <2>1, StepAbort
<1>3. CASE WorkerStep
  BY <1>1, <1>3, WorkerEngine, WorkerJobs DEF ServerInv
<1>4. CASE Pump /\ UNCHANGED jobVars
  <2>1. at' = at
    BY <1>4 DEF Pump, PumpPiece, PumpEnd
  <2> QED BY <1>1, <1>4, <2>1, StepPump, SameJobs DEF ServerInv
<1>5. ASSUME NEW c \in Chats, ChatStep(c), UNCHANGED jobVars  PROVE ServerInv'
  BY <1>1, <1>5, StepChat, ChatElsewhere, SameJobs DEF ServerInv
<1>6. ASSUME NEW j \in JobIds, Cancel(j)  PROVE ServerInv'
  BY <1>1, <1>2, <1>6, StepCancel DEF ServerInv, Cancel
<1>7. ASSUME NEW j \in JobIds, NEW m \in Modes, SubmitJob(j, m)  PROVE ServerInv'
  BY <1>1, <1>2, <1>7, StepSubmitJob DEF ServerInv, SubmitJob
<1>8. CASE StopMark
  BY <1>1, <1>2, <1>8, StepStopMark DEF ServerInv, StopMark
<1>9. CASE StopAbort \/ StopReply
  BY <1>9, StopHandler
<1>10. CASE UNCHANGED serverVars
  BY <1>1, <1>2, <1>10, SameJobs DEF serverVars, engineVars, ServerInv
<1> QED BY <1>3, <1>4, <1>5, <1>6, <1>7, <1>8, <1>9, <1>10 DEF ServerNext

\* The server keeps its invariant.
THEOREM ServerInvariant == ServerSpec => []ServerInv
<1> QED BY ServerStart, ServerStep, PTL DEF ServerSpec

\* The engine's lock, its queues and the jobs have their types: _Engine and
\* _Jobs of serve.py, for any number of chats, jobs, items and waves.
THEOREM ServerTyped == ServerSpec => []ServerTypeOK
<1>1. ServerInv => ServerTypeOK
  <2> SUFFICES ASSUME ServerInv  PROVE ServerTypeOK
    OBVIOUS
  <2>1. \A j \in JobIds :
           /\ jobs[j].mode \in Modes \cup {"none"} /\ jobs[j].cancel \in BOOLEAN
           /\ jobs[j].status \in Final \cup {"none", "in coda", "in esecuzione"}
           /\ jobs[j].items \in Seq({"in coda", "in esecuzione", "fatto", "annullato"})
    BY DEF ServerInv, JobsInv, JobRecords, ItemStates
  <2>2. jq \in Seq(JobIds)
    BY DEF ServerInv, JobsInv, Queue
  <2>3. wk.pc \in {"idle", "stage", "turn", "wave"} /\ wk.job \in JobIds \cup {NoOne}
    BY DEF ServerInv, JobsInv, WorkerTyped
  <2>4. ASSUME wk.pc # "idle"  PROVE Job.status = "in esecuzione" /\ wk.slice \subseteq DOMAIN Job.items
    <3>1. AtWork /\ Job.status = "in esecuzione"
      BY <2>4 DEF ServerInv, JobsInv, AtWork
    <3>2. CASE wk.pc = "wave"
      <4>1. wk.slice \subseteq Stage.items /\ Stage.items \subseteq DOMAIN Job.items
        BY <3>2, InWave DEF ServerInv
      <4> QED BY <3>1, <4>1
    <3>3. CASE wk.pc # "wave"
      BY <3>1, <3>3 DEF AtWork, AtStage, AtTurn
    <3> QED BY <3>1, <3>2, <3>3
  <2> QED BY <2>1, <2>2, <2>3, <2>4 DEF ServerTypeOK, ServerInv, EngineInv
<1> QED BY <1>1, ServerInvariant, PTL

\* One generation at a time (serve.py, `with lock: generate`): what somebody
\* reads belongs to the lock's holder, and there is at most one, whoever
\* disconnects, aborts or fails, for any number of chats.
THEOREM OneAtATime == ServerSpec => []OneGeneration
<1>1. ServerInv => OneGeneration
  BY DEF ServerInv, EngineInv, Locked, Read, Single, Private, OneGeneration
<1> QED BY <1>1, ServerInvariant, PTL

\* A change of items is no change of status.
LEMMA ItemsKept ==
    ASSUME jobs \in [JobIds -> JobRecords], NEW items, WithItems(items), NEW j \in JobIds
    PROVE  jobs'[j].status = jobs[j].status
BY DEF WithItems, JobRecords

LEMMA FirstOf ==
    ASSUME NEW S, NEW s \in Seq(S), s # <<>>
    PROVE  Head(s) = s[1] /\ 1 \in DOMAIN s
<1>1. Len(s) \in Nat \ {0} /\ DOMAIN s = 1 .. Len(s) /\ Head(s) = s[1]
  BY Cut
<1> QED BY <1>1

LEMMA NoneOf ==
    ASSUME NEW s, s = <<>>
    PROVE  DOMAIN s = {}
OBVIOUS

LEMMA MarkKeeps ==
    ASSUME jobs \in [JobIds -> JobRecords], StopMark, NEW j \in JobIds
    PROVE  jobs'[j].status = jobs[j].status
<1>1. PICK x : jobs' = [jobs EXCEPT ![x].cancel =
                          @ \/ jobs[x].status \in {"in coda", "in esecuzione"}]
  BY DEF StopMark
<1> DEFINE c == jobs[x].cancel \/ jobs[x].status \in {"in coda", "in esecuzione"}
<1>2. jobs' = [jobs EXCEPT ![x].cancel = c]
  BY <1>1
<1> HIDE DEF c
<1> QED BY <1>2 DEF JobRecords

\* Only FinishJob settles a running job, and it finds every item settled.
LEMMA Settling ==
    ASSUME ServerInv, [ServerNext]_serverVars, NEW j \in JobIds,
           jobs[j].status = "in esecuzione", jobs'[j].status \in Settled
    PROVE  Range(jobs'[j].items) \subseteq Settled
<1>1. /\ jobs \in [JobIds -> JobRecords] /\ JobsInv
      /\ jobs[j].status \notin Settled
  BY DEF ServerInv, JobsInv, Settled
<1>2. FinishJob
  <2> SUFFICES ASSUME ~ FinishJob
               PROVE  jobs'[j].status = jobs[j].status \/ jobs'[j].status = "errore"
    BY <1>1 DEF Settled
  <2>1. CASE UNCHANGED jobs
    BY <2>1
  <2>2. ASSUME NEW items, WithItems(items)  PROVE jobs'[j].status = jobs[j].status
    BY <1>1, <2>2, ItemsKept
  <2>3. CASE FailJob
    BY <1>1, <2>3 DEF FailJob, JobRecords
  <2>4. CASE TakeJob
    <3>1. /\ jq \in Seq(JobIds) /\ jq # <<>>
          /\ \A k \in DOMAIN jq : jobs[jq[k]].status = "in coda"
      BY <1>1, <2>4 DEF TakeJob, JobsInv, Queue, Queued
    <3>2. Head(jq) = jq[1] /\ 1 \in DOMAIN jq
      BY <3>1, FirstOf
    <3>3. Head(jq) # j
      BY <3>1, <3>2
    <3>4. jobs'[j] = jobs[j]
      BY <1>1, <2>4, <3>3 DEF TakeJob
    <3> QED BY <3>4
  <2>5. CASE Cancelled \/ StartTurn \/ StartPhase \/ StartWave \/ WaveStep \/ WaveAborted
    BY <2>1, <2>2, <2>5 DEF Cancelled, StartTurn, AddItem, StartPhase, StartWave, WaveStep,
                            WaveAborted
  <2>6. CASE TurnSteps \/ WaveAcquire \/ WaveClear \/ WaveDone
    BY <2>1, <2>6 DEF TurnSteps, WaveAcquire, WaveClear, WaveDone, jobVars
  <2>7. CASE EndTurn
    <3>1. ASSUME NEW items, NEW r, jobs' = [jobs EXCEPT ![wk.job].items = items, ![wk.job].result = r]
          PROVE  jobs'[j].status = jobs[j].status
      BY <1>1, <3>1 DEF JobRecords
    <3>2. \/ \E items : WithItems(items)
          \/ \E items, r : jobs' = [jobs EXCEPT ![wk.job].items = items, ![wk.job].result = r]
      BY <2>7 DEF EndTurn
    <3> QED BY <2>2, <3>1, <3>2
  <2>8. CASE TurnFailed \/ WaveFailed
    BY <2>3, <2>8 DEF TurnFailed, WaveFailed
  <2>9. CASE StopAbort \/ StopReply \/ UNCHANGED jobVars \/ UNCHANGED serverVars
    BY <2>1, <2>9 DEF StopAbort, StopReply, jobVars, serverVars
  <2>10. ASSUME NEW x \in JobIds, Cancel(x)  PROVE jobs'[j].status = jobs[j].status
    BY <1>1, <2>10 DEF Cancel, JobRecords
  <2>11. ASSUME NEW x \in JobIds, NEW m \in Modes, SubmitJob(x, m)
         PROVE  jobs'[j].status = jobs[j].status
    <3>a. jobs[x] = NoJob /\ NoJob.status = "none"
      BY <2>11 DEF SubmitJob, NoJob
    <3>1. x # j
      BY <3>a
    <3>2. PICK new : jobs' = [jobs EXCEPT ![x] = new]
      BY <2>11 DEF SubmitJob
    <3> QED BY <1>1, <3>1, <3>2
  <2>12. CASE StopMark
    BY <1>1, <2>12, MarkKeeps
  <2>13. CASE WorkerStep
    BY <2>4, <2>5, <2>6, <2>7, <2>8, <2>13 DEF WorkerStep
  <2>14. CASE (Pump \/ \E c \in Chats : ChatStep(c)) /\ UNCHANGED jobVars
    BY <2>9, <2>14
  <2> QED BY <2>9, <2>10, <2>11, <2>12, <2>13, <2>14 DEF ServerNext
<1>3. /\ wk.pc = "stage" /\ wk.todo = <<>>
      /\ \E to : jobs' = [jobs EXCEPT ![wk.job].status = to]
  BY <1>2 DEF FinishJob
<1>4. wk.job = j
  <2>1. wk.job # j => jobs'[j] = jobs[j]
    BY <1>1, <1>3
  <2> QED BY <1>1, <2>1
<1>5. jobs'[j].items = Job.items
  <2>1. PICK to : jobs' = [jobs EXCEPT ![wk.job].status = to]
    BY <1>3
  <2> QED BY <1>1, <1>4, <2>1 DEF Job, JobRecords
<1>6. \A k \in DOMAIN Job.items : Job.items[k] \in Settled
  <2>a. AtWork /\ AtStage
    BY <1>1, <1>3 DEF JobsInv, AtWork
  <2>b. DOMAIN wk.todo = {}
    BY <1>3, NoneOf
  <2>1. Covered(wk.todo, Job.items) /\ DOMAIN wk.todo = {}
    BY <2>a, <2>b DEF AtStage
  <2> QED BY <2>1 DEF Covered
<1> QED BY <1>5, <1>6 DEF Range

\* A running job that _Jobs._worker brings to its end, cancelled or not, leaves no
\* item waiting or at work, for any number of items, coders, phases and waves.
THEOREM JobsSettle == ServerSpec => ItemsSettled
<1>1. ServerInv /\ [ServerNext]_serverVars =>
        [\A j \in JobIds :
            jobs[j].status = "in esecuzione" /\ jobs'[j].status \in {"fatto", "annullato"}
               => Range(jobs'[j].items) \subseteq {"fatto", "annullato"}]_serverVars
  BY Settling DEF Settled
<1> QED BY <1>1, ServerInvariant, PTL DEF ServerSpec, ItemsSettled

\* After _Jobs.cancel the running job begins at most one generation more, the
\* one that was waiting for the lock.
THEOREM CancelIsPrompt == ServerSpec => []CancelBounds
<1>1. ServerInv => CancelBounds
  BY DEF ServerInv, JobsInv, CancelBounds
<1> QED BY <1>1, ServerInvariant, PTL
=============================================================================
