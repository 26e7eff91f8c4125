----------------------------- MODULE JobServer -----------------------------
(***************************************************************************)
(* _Jobs of serve.py and the handlers that submit, cancel and stop: one    *)
(* worker thread takes jobs from a queue and runs each to its end, sharing *)
(* the engine with the chat completions of ServeEngine.                    *)
(*                                                                         *)
(* A job is run as a list of stages.  "item" and "step" are one generation *)
(* of a serial job and of an agent; "plan", "verify" and "review" are the  *)
(* orchestrator's; "phase" creates coders and "wave" generates the text of *)
(* several items in lockstep.  What a model answers (tasks, tool calls,    *)
(* redo requests) is any answer within the bounds.                         *)
(***************************************************************************)
EXTENDS ServeEngine

CONSTANTS JobIds,
          Wave,       \* WAVE
          MaxSteps,   \* _SOLO_STEPS
          MaxItems,   \* bound: prompts of a job, and the cap on coders
          MaxStops    \* bound: calls of /api/stop

ASSUME JobConstants ==
    /\ Wave \in Nat \ {0} /\ MaxSteps \in Nat \ {0} /\ MaxItems \in Nat \ {0}
    /\ MaxStops \in Nat

NoJob == [mode |-> "none", status |-> "none", cancel |-> FALSE, items |-> <<>>, result |-> FALSE]
Modes == {"serial", "wave", "agent", "orchestrate"}
Final == {"fatto", "annullato", "errore"}

VARIABLES jobs,      \* _Jobs.jobs
          jq,        \* _Jobs.q
          wk,        \* the worker: [pc, job, todo, slice]
          stop,      \* the handler of /api/stop: [pc, left, size, calls]; as history, the
                     \* callers that had begun or were running when it set abort
          late       \* history: generations the job at work began after its cancellation

jobVars == <<jobs, jq, wk, stop, late>>
serverVars == <<engineVars, jobVars>>

Idle == [pc |-> "idle", job |-> NoOne, todo |-> <<>>, slice |-> {}]
Known == {j \in JobIds : jobs[j] # NoJob}
Job == jobs[wk.job]
Stage == Head(wk.todo)
Times(s, n) == [k \in 1 .. n |-> s]

ServerInit ==
    /\ EngineInit
    /\ jobs = [j \in JobIds |-> NoJob] /\ jq = <<>> /\ wk = Idle /\ late = 0
    /\ stop = [pc |-> "off", left |-> {}, size |-> 0, calls |-> 0, begun |-> {}]

-----------------------------------------------------------------------------
(* Handlers.                                                               *)

\* submit and submit_orchestrate.
SubmitJob(j, mode) ==
    /\ jobs[j] = NoJob
    /\ \E n \in 1 .. MaxItems :
         jobs' = [jobs EXCEPT ![j] =
                    [NoJob EXCEPT !.mode = mode, !.status = "in coda",
                       !.items = IF mode \in {"serial", "wave"} THEN Times("in coda", n)
                                 ELSE <<>>]]
    /\ jq' = Append(jq, j)
    /\ UNCHANGED <<engineVars, wk, stop, late>>

Cancel(j) ==
    /\ j \in Known /\ ~ jobs[j].cancel
    /\ jobs' = [jobs EXCEPT ![j].cancel = TRUE]
    /\ UNCHANGED <<engineVars, jq, wk, stop, late>>

\* /api/stop: abort first, then the jobs one by one.
StopAbort ==
    /\ stop.pc = "off" /\ stop.calls < MaxStops
    /\ abort' = TRUE
    /\ stop' = [pc |-> "mark", left |-> Known, size |-> Cardinality(Known),
                calls |-> stop.calls + 1,
                begun |-> {x \in Callers : lock = x \/ \E i \in DOMAIN gpu : gpu[i].by = x}]
    /\ UNCHANGED <<lock, gpu, chan, at, jobs, jq, wk, late>>

StopMark ==
    /\ stop.pc = "mark" /\ Cardinality(Known) = stop.size
    /\ \E j \in stop.left :
         /\ stop' = [stop EXCEPT !.left = @ \ {j}]
         /\ jobs' = [jobs EXCEPT ![j].cancel =
                       @ \/ jobs[j].status \in {"in coda", "in esecuzione"}]
    /\ UNCHANGED <<engineVars, jq, wk, late>>

\* The reply; or the iteration fails because a job was submitted meanwhile.
StopReply ==
    /\ \/ /\ stop.pc = "mark" /\ Cardinality(Known) = stop.size /\ stop.left = {}
          /\ stop' = [stop EXCEPT !.pc = "reply"]
       \/ /\ stop.pc = "mark" /\ Cardinality(Known) # stop.size
          /\ stop' = [stop EXCEPT !.pc = "off", !.left = {}, !.begun = {}]
       \/ stop.pc = "reply" /\ stop' = [stop EXCEPT !.pc = "off", !.begun = {}]
    /\ UNCHANGED <<engineVars, jobs, jq, wk, late>>

-----------------------------------------------------------------------------
(* The worker.                                                             *)

SetItems(S, status) == [k \in DOMAIN Job.items |-> IF k \in S THEN status ELSE Job.items[k]]
WithItems(items) == jobs' = [jobs EXCEPT ![wk.job].items = items]
AddItem == WithItems(Append(Job.items, "in esecuzione"))
Then(todo) == wk' = [wk EXCEPT !.pc = "stage", !.todo = todo, !.slice = {}]
Rest == Tail(wk.todo)

Program(j) ==
    CASE jobs[j].mode = "serial" ->
           [k \in DOMAIN jobs[j].items |-> [kind |-> "item", items |-> {k}]]
      [] jobs[j].mode = "wave" ->
           <<[kind |-> "wave", items |-> DOMAIN jobs[j].items]>>
      [] jobs[j].mode = "agent" -> Times([kind |-> "step", items |-> {}], MaxSteps)
      [] jobs[j].mode = "orchestrate" -> <<[kind |-> "plan", items |-> {}]>>

\* Fault: the job is not marked as running.
TakeJobSilent ==
    /\ wk.pc = "idle" /\ jq # <<>>
    /\ jq' = Tail(jq) /\ late' = 0
    /\ wk' = [pc |-> "stage", job |-> Head(jq), todo |-> Program(Head(jq)), slice |-> {}]
    /\ UNCHANGED <<jobs, engineVars, stop>>

TakeJob ==
    /\ wk.pc = "idle" /\ jq # <<>>
    /\ jq' = Tail(jq) /\ late' = 0
    /\ LET j == Head(jq)
       IN  \/ /\ jobs[j].cancel
              /\ jobs' = [jobs EXCEPT ![j].status = "annullato"]
              /\ UNCHANGED wk
           \/ /\ ~ jobs[j].cancel
              /\ jobs' = [jobs EXCEPT ![j].status = "in esecuzione"]
              /\ wk' = [pc |-> "stage", job |-> j, todo |-> Program(j), slice |-> {}]
    /\ UNCHANGED <<engineVars, stop>>

\* _run_... has returned.
FinishJob ==
    /\ wk.pc = "stage" /\ wk.todo = <<>>
    /\ jobs' = [jobs EXCEPT ![wk.job].status = IF Job.cancel THEN "annullato" ELSE "fatto"]
    /\ wk' = Idle
    /\ UNCHANGED <<engineVars, jq, stop, late>>

\* Fault: a cancelled wave returns without marking its items.
CancelledUnmarked ==
    /\ wk.pc = "stage" /\ wk.todo # <<>> /\ Job.cancel
    /\ \/ /\ Stage.kind = "item" /\ WithItems(SetItems(Stage.items, "annullato"))
          /\ Then(Rest)
       \/ /\ Stage.kind \in {"wave", "step", "phase", "verify", "review"}
          /\ Then(<<>>)
          /\ UNCHANGED jobs
    /\ UNCHANGED <<engineVars, jq, stop, late>>

\* A stage that finds the job cancelled: a serial job marks its items one after
\* the other, a wave marks all of its items, everybody else returns.
Cancelled ==
    /\ wk.pc = "stage" /\ wk.todo # <<>> /\ Job.cancel
    /\ \/ /\ Stage.kind \in {"item", "wave"} /\ Stage.items # {}
          /\ WithItems(SetItems(Stage.items, "annullato"))
          /\ Then(Rest)
       \/ /\ Stage.kind \in {"step", "phase", "verify", "review"}
          /\ Then(<<>>)
          /\ UNCHANGED jobs
    /\ UNCHANGED <<engineVars, jq, stop, late>>

\* Fault: a stage looks at the cancel flag only between waves.
StartTurnUnchecked ==
    /\ wk.pc = "stage" /\ wk.todo # <<>> /\ Stage.kind \notin {"wave", "phase"}
    /\ IF Stage.kind = "item" THEN WithItems(SetItems(Stage.items, "in esecuzione"))
       ELSE AddItem
    /\ wk' = [wk EXCEPT !.pc = "turn"]
    /\ Move(Worker, "off", "wait")
    /\ UNCHANGED <<lock, abort, gpu, chan, jq, stop, late>>

\* One generation for one item.  Planning does not look at the cancel flag.
StartTurn ==
    /\ wk.pc = "stage" /\ wk.todo # <<>> /\ Stage.kind \notin {"wave", "phase"}
    /\ Stage.kind # "plan" => ~ Job.cancel
    /\ IF Stage.kind = "item" THEN WithItems(SetItems(Stage.items, "in esecuzione"))
       ELSE AddItem
    /\ wk' = [wk EXCEPT !.pc = "turn"]
    /\ Move(Worker, "off", "wait")
    /\ UNCHANGED <<lock, abort, gpu, chan, jq, stop, late>>

TurnSteps ==
    /\ wk.pc = "turn"
    /\ Generating(Worker)
    /\ late' = late + (IF at[Worker] = "submit" /\ Job.cancel THEN 1 ELSE 0)
    /\ UNCHANGED <<jobs, jq, wk, stop>>

Done == SetItems(IF Stage.kind = "item" THEN Stage.items ELSE {Len(Job.items)}, "fatto")
Review == <<[kind |-> "review", items |-> {}]>>

\* The plan: phases of coders, at most MaxItems coders in all.
Plans ==
    {[k \in 1 .. Len(sizes) |-> [kind |-> "phase", items |-> 1 .. sizes[k]]] :
        sizes \in {s \in SeqOf(1 .. MaxItems, MaxItems) :
                     s # <<>> /\ FoldLeft(+, 0, s) <= MaxItems}}

\* What follows the generation, by kind of stage.
EndTurn ==
    /\ wk.pc = "turn" /\ Move(Worker, "ended", "off")
    /\ \/ Stage.kind = "item" /\ WithItems(Done) /\ Then(Rest)
       \/ /\ Stage.kind = "step"      \* a tool call, or the final answer
          /\ \E todo \in {Rest, <<>>} :
               /\ jobs' = [jobs EXCEPT ![wk.job].items = Done, ![wk.job].result = (todo = <<>>)]
               /\ Then(todo)
       \/ /\ Stage.kind = "plan"
          /\ WithItems(<<>>)
          /\ \E p \in Plans : Then(p \o <<[kind |-> "verify", items |-> {}]>>)
       \/ /\ Stage.kind = "verify"    \* RIFAI for some of the coders, not if cancelled
          /\ \E S \in SUBSET (1 .. Len(Job.items) - 1) :
               IF S = {} \/ Job.cancel
               THEN WithItems(Done) /\ Then(Review)
               ELSE /\ WithItems([k \in DOMAIN Done |-> IF k \in S THEN "in coda" ELSE Done[k]])
                    /\ Then(<<[kind |-> "wave", items |-> S]>> \o Review)
       \/ /\ Stage.kind = "review"
          /\ jobs' = [jobs EXCEPT ![wk.job].items = Done, ![wk.job].result = TRUE]
          /\ Then(<<>>)
    /\ UNCHANGED <<lock, abort, gpu, chan, jq, stop, late>>

\* An exception ends the job; its items stay as they are.
FailJob ==
    /\ jobs' = [jobs EXCEPT ![wk.job].status = "errore"]
    /\ wk' = Idle
    /\ UNCHANGED <<jq, stop, late>>

\* Fault: the exception is not caught and ends the worker.
TurnFailedUncaught ==
    /\ wk.pc = "turn" /\ Move(Worker, "failed", "gone")
    /\ UNCHANGED <<lock, abort, gpu, chan, jobVars>>

TurnFailed ==
    /\ wk.pc = "turn" /\ Move(Worker, "failed", "off")
    /\ FailJob
    /\ UNCHANGED <<lock, abort, gpu, chan>>

\* A phase adds its coders and hands them to _run_wave.
StartPhase ==
    /\ wk.pc = "stage" /\ wk.todo # <<>> /\ Stage.kind = "phase" /\ ~ Job.cancel
    /\ LET n == Len(Job.items)
           m == Cardinality(Stage.items)
       IN  /\ WithItems(Job.items \o Times("in coda", m))
           /\ Then(<<[kind |-> "wave", items |-> n + 1 .. n + m]>> \o Rest)
    /\ UNCHANGED <<engineVars, jq, stop, late>>

\* The first Wave of the items.
Slice(S) == {k \in S : Cardinality({m \in S : m < k}) < Wave}

StartWave ==
    /\ wk.pc = "stage" /\ wk.todo # <<>> /\ Stage.kind = "wave"
    /\ \/ /\ Stage.items = {}
          /\ Then(Rest)
          /\ UNCHANGED <<jobs, at>>
       \/ /\ Stage.items # {} /\ ~ Job.cancel
          /\ WithItems(SetItems(Slice(Stage.items), "in esecuzione"))
          /\ wk' = [wk EXCEPT !.pc = "wave", !.slice = Slice(Stage.items)]
          /\ Move(Worker, "off", "wait")
    /\ UNCHANGED <<lock, abort, gpu, chan, jq, stop, late>>

WaveAcquire ==
    /\ wk.pc = "wave" /\ Acquire(Worker)
    /\ UNCHANGED jobVars

WaveClear ==
    /\ wk.pc = "wave" /\ Move(Worker, "clear", "wave")
    /\ abort' = FALSE
    /\ UNCHANGED <<lock, gpu, chan, jobVars>>

Open == {k \in wk.slice : Job.items[k] = "in esecuzione"}
Release == Move(Worker, "wave", "off") /\ lock' = NoOne /\ UNCHANGED <<abort, gpu, chan>>

\* One lockstep of the batch on the GPU thread, behind whatever that still
\* runs; steps that finish no item change nothing here.
WaveStep ==
    /\ wk.pc = "wave" /\ at[Worker] = "wave" /\ gpu = <<>>
    /\ ~ Job.cancel /\ ~ abort
    /\ \E S \in SUBSET Open \ {{}} : WithItems(SetItems(S, "fatto"))
    /\ UNCHANGED <<engineVars, jq, wk, stop, late>>

\* No more responses: the next slice.
WaveDone ==
    /\ wk.pc = "wave" /\ at[Worker] = "wave" /\ gpu = <<>> /\ Open = {}
    /\ ~ Job.cancel /\ ~ abort
    /\ Release
    /\ Then(<<[Stage EXCEPT !.items = @ \ wk.slice]>> \o Rest)
    /\ UNCHANGED <<jobs, jq, stop, late>>

\* Fault: the items of the later slices are forgotten.
WaveAbortedSlice ==
    /\ wk.pc = "wave" /\ at[Worker] = "wave"
    /\ Job.cancel \/ abort
    /\ Release
    /\ WithItems(SetItems(Open, "annullato"))
    /\ Then(Rest)
    /\ UNCHANGED <<jq, stop, late>>

\* Cancel or abort: the open items of this slice and all later ones are off.
WaveAborted ==
    /\ wk.pc = "wave" /\ at[Worker] = "wave"
    /\ Job.cancel \/ abort
    /\ Release
    /\ WithItems(SetItems(Open \cup (Stage.items \ wk.slice), "annullato"))
    /\ Then(Rest)
    /\ UNCHANGED <<jq, stop, late>>

WaveFailed ==
    /\ wk.pc = "wave" /\ at[Worker] = "wave" /\ gpu = <<>>
    /\ Release
    /\ FailJob

WorkerStep ==
    \/ TakeJob \/ FinishJob \/ Cancelled \/ StartTurn \/ TurnSteps \/ EndTurn \/ TurnFailed
    \/ StartPhase \/ StartWave \/ WaveAcquire \/ WaveClear
    \/ WaveStep \/ WaveDone \/ WaveAborted \/ WaveFailed

ServerNext ==
    \/ WorkerStep
    \/ (Pump \/ \E c \in Chats : ChatStep(c)) /\ UNCHANGED jobVars
    \/ \E j \in JobIds : Cancel(j) \/ \E m \in Modes : SubmitJob(j, m)
    \/ StopAbort \/ StopMark \/ StopReply

\* The worker, the GPU thread and the HTTP threads run; clients read what they
\* are sent or go away.
ServerFairness ==
    /\ WF_serverVars(WorkerStep)
    /\ WF_serverVars(Pump /\ UNCHANGED jobVars)
    /\ \A c \in Chats : WF_serverVars(Generating(c) /\ UNCHANGED jobVars)

ServerSpec == ServerInit /\ [][ServerNext]_serverVars /\ ServerFairness

-----------------------------------------------------------------------------
\* Types of the server's state.
ServerTypeOK ==
    /\ EngineTypeOK
    /\ \A j \in JobIds :
         /\ jobs[j].mode \in Modes \cup {"none"} /\ jobs[j].cancel \in BOOLEAN
         /\ jobs[j].status \in Final \cup {"none", "in coda", "in esecuzione"}
         /\ jobs[j].items \in Seq({"in coda", "in esecuzione", "fatto", "annullato"})
    /\ jq \in Seq(JobIds)
    /\ wk.pc \in {"idle", "stage", "turn", "wave"} /\ wk.job \in JobIds \cup {NoOne}
    /\ wk.pc # "idle" => Job.status = "in esecuzione" /\ wk.slice \subseteq DOMAIN Job.items

\* A running job that its runner brings to an end, done or cancelled by then,
\* leaves no item waiting or at work, whatever was cancelled, aborted or redone
\* on the way.  (A job cancelled in the queue keeps its items "in coda", and one
\* that an exception ends keeps them as they are.)
ItemsSettled ==
    [][\A j \in JobIds :
          jobs[j].status = "in esecuzione" /\ jobs'[j].status \in {"fatto", "annullato"}
             => Range(jobs'[j].items) \subseteq {"fatto", "annullato"}]_serverVars

\* A cancellation lets the running job begin at most one further generation,
\* the one that was already waiting for the lock.
CancelBounds == late <= 1

\* Every submitted job ends, whoever disconnects, aborts or fails meanwhile.
JobsEnd == \A j \in JobIds : jobs[j].status = "in coda" ~> jobs[j].status \in Final

\* serve.py:1031: "ferma tutto: la generazione in corso e ogni job non finito":
\* when the handler replies, a chat's generation that was under way when it set
\* abort (its caller had the lock, or it was running) is over or will find abort
\* set.  A chat generates once, so it is the same generation.
StopTakes ==
    stop.pc = "reply" /\ gpu # <<>> /\ Running.by \in stop.begun \cap Chats => abort
=============================================================================
