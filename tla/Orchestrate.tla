---------------------------- MODULE Orchestrate ----------------------------
(***************************************************************************)
(* _run_orchestrate of serve.py as the data goes: the orchestrator's plan   *)
(* arrives through the filter of TextStream and is parsed into phases; the *)
(* coders of a phase answer in one wave, and the files they declare are    *)
(* written to the working directory; the orchestrator may have some redone *)
(* once, which also becomes a lesson for later jobs; a reviewer closes.    *)
(*                                                                         *)
(* JobServer models when these stages run and how they share the engine;   *)
(* here is what they produce, for jobs with a working directory that can be *)
(* written.  A line of the plan is one symbol.  Of an answer only its      *)
(* coder, its round and the files it declares matter.                      *)
(***************************************************************************)
EXTENDS TextStream

CONSTANTS Fase, Dash,    \* a FASE line, and a line of list marks alone
          Goal,          \* the job's goal, when it is a coder's task
          Caps,          \* bound: the values of n
          Files,         \* paths a coder may declare
          Outside,       \* those _safe_path refuses
          Instrs,        \* bound: the instructions of RIFAI lines
          FileLines,     \* _LESSONS_FILE_LINES
          MaxJobs, MaxRedos,   \* bounds: jobs, RIFAI lines of a verdict
          NoText

ASSUME OrchestrateConstants ==
    /\ {Fase, Dash} \subseteq Symbols /\ Goal \notin Symbols
    /\ {MaxJobs, MaxRedos} \subseteq Nat
    /\ Caps \subseteq Nat \ {0} /\ FileLines \in Nat \ {0} /\ Outside \subseteq Files

VARIABLES pc,        \* where the job is
          cap, phases,   \* its cap, and the phases still to come
          coders,    \* [task, text, open] of every coder so far
          round,     \* 1, or 2 in the corrections
          wave,      \* the coders _run_wave was given
          cancel, abort,   \* job["cancel"], engine.abort
          work,      \* path -> the answer it was last written from
          lessons,   \* the lines of the lessons file
          lastRedo,  \* history: the last instruction of the verdict
          jobsRun

flowVars == <<phases, coders, round, wave, work, lessons, lastRedo>>
orchVars == <<textVars, pc, cap, flowVars, cancel, abort, jobsRun>>

-----------------------------------------------------------------------------
(* _parse_phases.                                                          *)

\* Fault: the cap holds for each phase, not for all of them.
CapEach(all, n) ==
    LET first(ph) == SubSeq(ph, 1, Min({Len(ph), n}))
    IN  SelectSeq([k \in DOMAIN all |-> SelectSeq(first(all[k]), LAMBDA t : t # Dash)],
                  LAMBDA ph : ph # <<>>)

\* The tasks of a phase, without the lines that say nothing.
Said(ph) ==
    LET said[k \in 0 .. Len(ph)] ==
          IF k = 0 THEN <<>>
          ELSE IF ph[k] = Dash THEN said[k - 1] ELSE Append(said[k - 1], ph[k])
    IN  said[Len(ph)]

\* Room for n coders in all; a line that says nothing takes up room as well.
CapAll(all, n) ==
    LET kept[k \in 0 .. Len(all)] ==
          IF k = 0 THEN [phs |-> <<>>, room |-> n]
          ELSE LET cut == Said(SubSeq(all[k], 1, Min({Len(all[k]), kept[k - 1].room})))
               IN  IF cut = <<>> THEN kept[k - 1]
                   ELSE [phs |-> Append(kept[k - 1].phs, cut), room |-> kept[k - 1].room - Len(cut)]
    IN  kept[Len(all)].phs

\* The plan cut at its FASE lines; a plan without tasks is one phase as it is.
Groups(plan) ==
    LET ended(g) == IF g.cur = <<>> THEN g.all ELSE Append(g.all, g.cur)
        cut[k \in 0 .. Len(plan)] ==
          IF k = 0 THEN [all |-> <<>>, cur |-> <<>>]
          ELSE IF plan[k] = Fase THEN [all |-> ended(cut[k - 1]), cur |-> <<>>]
               ELSE [cut[k - 1] EXCEPT !.cur = Append(@, plan[k])]
        all == ended(cut[Len(plan)])
    IN  IF all = <<>> THEN <<plan>> ELSE all

\* What the job makes of it: without any task the goal is the only one.
ParsePhases(plan, n) ==
    LET phs == CapAll(Groups(plan), n) IN IF phs = <<>> THEN <<<<Goal>>>> ELSE phs

-----------------------------------------------------------------------------
OrchInit ==
    /\ TextInit /\ pc = "ended" /\ cap \in Caps
    /\ phases = <<>> /\ coders = <<>> /\ round = 1 /\ wave = {}
    /\ cancel = FALSE /\ abort = FALSE
    /\ work = [f \in Files |-> NoText] /\ lessons = <<>> /\ lastRedo = NoText
    /\ jobsRun = 0

StartJob ==
    /\ pc = "ended" /\ jobsRun < MaxJobs
    /\ pc' = "plan" /\ jobsRun' = jobsRun + 1 /\ cap' \in Caps
    /\ phases' = <<>> /\ coders' = <<>> /\ round' = 1 /\ wave' = {}
    /\ cancel' = FALSE /\ abort' = FALSE
    /\ work' = [f \in Files |-> NoText] /\ lastRedo' = NoText
    /\ UNCHANGED <<textVars, lessons>>

\* /api/stop sets abort and then cancel; cancelling a job sets cancel alone.
Stop ==
    /\ pc # "ended"
    /\ \/ ~ abort /\ abort' = TRUE /\ UNCHANGED cancel
       \/ ~ cancel /\ cancel' = TRUE /\ UNCHANGED abort
    /\ UNCHANGED <<textVars, pc, cap, flowVars, jobsRun>>

PlanPiece ==
    /\ pc = "plan"
    /\ \E p \in Pieces : p # <<>> /\ Len(consumed \o p) <= MaxText /\ Piece(p)
    /\ UNCHANGED <<pc, cap, flowVars, cancel, abort, jobsRun>>

PlanLast ==
    /\ pc = "plan" /\ pc' = "flushed"
    /\ \E p \in Pieces : p # <<>> /\ Len(consumed \o p) <= MaxText /\ LastSegment(p)
    /\ UNCHANGED <<cap, flowVars, cancel, abort, jobsRun>>

\* The turn ends, wherever.
PlanEnd ==
    /\ pc \in {"plan", "flushed"} /\ pc' = "phase"
    /\ phases' = ParsePhases(LastPiece, cap)
    /\ TextReset
    /\ UNCHANGED <<cap, coders, round, wave, work, lessons, lastRedo, cancel, abort, jobsRun>>

\* The head of the loop over the phases, and of _run_wave, which clears abort.
StartPhase ==
    /\ pc = "phase" /\ phases # <<>> /\ ~ cancel
    /\ LET new == [k \in DOMAIN Head(phases) |->
                     [task |-> Head(phases)[k], text |-> NoText, open |-> TRUE]]
       IN  coders' = coders \o new /\ wave' = DOMAIN coders' \ DOMAIN coders
    /\ phases' = Tail(phases) /\ abort' = FALSE /\ pc' = "wave"
    /\ UNCHANGED <<textVars, cap, round, work, lessons, lastRedo, cancel, jobsRun>>

Open == {k \in wave : coders[k].open}
Answer(k, files) == [by |-> k, round |-> round, files |-> files]

WaveItem ==
    /\ pc = "wave"
    /\ \E k \in Open, files \in SUBSET Files :
         coders' = [coders EXCEPT ![k].text = Answer(k, files), ![k].open = FALSE]
    /\ UNCHANGED <<textVars, pc, cap, phases, round, wave, work, lessons, lastRedo, cancel, abort, jobsRun>>

\* Cancel or abort: the open answers end where they are, with the files that were
\* complete in them, if any.
WaveAborted ==
    /\ pc = "wave" /\ Open # {} /\ (cancel \/ abort)
    /\ \E files \in [Open -> SUBSET Files] :
         coders' = [k \in DOMAIN coders |->
                      IF k \in Open THEN [coders[k] EXCEPT !.text = Answer(k, files[k]), !.open = FALSE]
                      ELSE coders[k]]
    /\ UNCHANGED <<textVars, pc, cap, phases, round, wave, work, lessons, lastRedo, cancel, abort, jobsRun>>

\* _write_coder_files of the wave's coders in their order: the last one that
\* declares a path has it.
Declares(k, f) == coders[k].text # NoText /\ f \in coders[k].text.files

\* Fault: the first coder of a wave to declare a path keeps it.
WrittenFirst ==
    [f \in Files |->
        IF f \in Outside \/ \A k \in wave : ~ Declares(k, f) THEN work[f]
        ELSE coders[Min({k \in wave : Declares(k, f)})].text]

Written ==
    [f \in Files |->
        IF f \in Outside \/ \A k \in wave : ~ Declares(k, f) THEN work[f]
        ELSE coders[Max({k \in wave : Declares(k, f)})].text]

PhaseEnd ==
    /\ pc = "wave" /\ Open = {} /\ round = 1 /\ pc' = "phase"
    /\ work' = Written
    /\ UNCHANGED <<textVars, cap, phases, coders, round, wave, lessons, lastRedo, cancel, abort, jobsRun>>

Cancelled ==
    /\ pc \in {"phase", "review"} /\ cancel
    /\ pc' = "ended"
    /\ UNCHANGED <<textVars, cap, flowVars, cancel, abort, jobsRun>>

StartVerify ==
    /\ pc = "phase" /\ phases = <<>> /\ ~ cancel
    /\ pc' = "verify"
    /\ UNCHANGED <<textVars, cap, flowVars, cancel, abort, jobsRun>>

\* Fault: the oldest lines of the lessons are kept.
SaveLessonOldest(lines, instr) ==
    IF instr \in Range(lines) THEN lines
    ELSE SubSeq(Append(lines, instr), 1, IF Len(lines) < FileLines THEN Len(lines) + 1 ELSE FileLines)

\* _save_lesson, into a directory that can be written.
SaveLesson(lines, instr) ==
    IF instr \in Range(lines) THEN lines ELSE LastN(Append(lines, instr), FileLines)

\* One by one, as the RIFAI lines come.
SaveLessons(redos) ==
    LET saved[k \in 0 .. Len(redos)] ==
          IF k = 0 THEN lessons ELSE SaveLesson(saved[k - 1], redos[k][2])
    IN  saved[Len(redos)]

\* Fault: the number of a RIFAI line need not be a coder's.
RedosAny == SeqOf((1 .. Len(coders) + 1) \X Instrs, MaxRedos)

\* The RIFAI lines of the verdict whose number is a coder's, the same one perhaps
\* twice.
Redos == SeqOf((DOMAIN coders) \X Instrs, MaxRedos)

\* The last instruction for a coder is the one it gets.
Verify ==
    /\ pc = "verify"
    /\ \E redos \in Redos :
         \/ /\ redos = <<>> \/ cancel
            /\ pc' = "review" /\ UNCHANGED <<coders, round, wave, lessons, lastRedo, abort>>
         \/ /\ redos # <<>> /\ ~ cancel
            /\ lessons' = SaveLessons(redos)
            /\ lastRedo' = Last(redos)[2]
            /\ wave' = {redos[j][1] : j \in DOMAIN redos} /\ round' = 2
            /\ coders' = [k \in DOMAIN coders |->
                            IF k \notin wave' THEN coders[k]
                            ELSE [task |-> redos[Max({j \in DOMAIN redos : redos[j][1] = k})][2],
                                  text |-> NoText, open |-> TRUE]]
            /\ abort' = FALSE /\ pc' = "wave"
    /\ UNCHANGED <<textVars, cap, phases, work, cancel, jobsRun>>

\* Fault: corrections are verified again, and perhaps corrected again.
RedoEndAgain ==
    /\ pc = "wave" /\ Open = {} /\ round = 2 /\ pc' = "verify"
    /\ UNCHANGED <<textVars, cap, flowVars, cancel, abort, jobsRun>>

\* The corrected answers are parsed, and nothing else is done with them.
RedoEnd ==
    /\ pc = "wave" /\ Open = {} /\ round = 2 /\ pc' = "review"
    /\ UNCHANGED <<textVars, cap, flowVars, cancel, abort, jobsRun>>

Review ==
    /\ pc = "review" /\ ~ cancel /\ pc' = "ended"
    /\ UNCHANGED <<textVars, cap, flowVars, cancel, abort, jobsRun>>

\* Any exception ends the job.
Fail ==
    /\ pc \in {"plan", "flushed", "wave", "verify", "review"} /\ pc' = "ended"
    /\ TextReset
    /\ UNCHANGED <<cap, flowVars, cancel, abort, jobsRun>>

JobStep ==
    \/ Fail \/ PlanPiece \/ PlanLast \/ PlanEnd \/ StartPhase \/ WaveItem \/ WaveAborted \/ PhaseEnd
    \/ Cancelled \/ StartVerify \/ Verify \/ RedoEnd \/ Review

OrchNext == StartJob \/ Stop \/ JobStep

\* The worker goes on; its turns and waves come to an end.
OrchSpec == OrchInit /\ [][OrchNext]_orchVars /\ WF_orchVars(JobStep)

-----------------------------------------------------------------------------
\* Types of the job's state.
OrchTypeOK ==
    /\ pc \in {"plan", "flushed", "phase", "wave", "verify", "review", "ended"} /\ round \in {1, 2}
    /\ mode \in {"sniff", "strip", "pass"} /\ over \in BOOLEAN
    /\ cancel \in BOOLEAN /\ abort \in BOOLEAN
    /\ wave \subseteq DOMAIN coders
    /\ Range(lessons) \subseteq Instrs

\* The lines of a plan that are tasks, and the places of the coders in the phases.
TaskLines(plan) == {i \in DOMAIN plan : plan[i] \notin {Fase, Dash}}
Places(phs) == UNION {{k} \X DOMAIN phs[k] : k \in DOMAIN phs}

\* Each coder has the task of a line of its own, in the order of the lines, and a
\* FASE line is between two of them exactly if they are of different phases.
Laid(phs, plan, line) ==
    \A s, t \in Places(phs) :
       /\ phs[s[1]][s[2]] = plan[line[s]]
       /\ s[1] < t[1] => line[s] < line[t] /\ \E l \in line[s] .. line[t] : plan[l] = Fase
       /\ s[1] = t[1] /\ s[2] < t[2] =>
             line[s] < line[t] /\ \A l \in line[s] .. line[t] : plan[l] # Fase

\* No task is passed over: those left out come after n others.
InTurn(phs, plan, line, n) ==
    \A i \in TaskLines(plan) :
       \/ \E s \in Places(phs) : line[s] = i
       \/ Cardinality(Places(phs)) = n /\ \A s \in Places(phs) : line[s] < i

Faithful(phs, plan, n) ==
    /\ Cardinality(Places(phs)) \in 1 .. n /\ <<>> \notin Range(phs)
    /\ \/ phs = <<<<Goal>>>> /\ (plan = <<>> \/ Dash \in Range(plan))
       \/ Range(plan) = {Fase} /\ \A s \in Places(phs) : phs[s[1]][s[2]] = Fase
       \/ \E line \in [Places(phs) -> TaskLines(plan)] :
             Laid(phs, plan, line) /\ (Dash \in Range(plan) \/ InTurn(phs, plan, line, n))

\* The plan becomes at least one coder and at most n of them, in phases that are
\* not empty, from what the user is shown of the orchestrator's answer and never
\* from its thought, however that arrived: tasks in their order, two of them in one
\* phase exactly if no FASE line is between them, and the first n of all.  A line of
\* list marks alone costs its phase a place, and the goal is the task if nothing is
\* left; a plan of FASE lines alone has them for tasks.
PlanSound ==
    pc \in {"plan", "flushed"} => Faithful(ParsePhases(LastPiece, cap), StripThought(consumed), cap)

\* Whoever declares a file, in whatever phase, and whatever was cancelled or
\* aborted: when the answers are verified each path holds what the last coder to
\* declare it wrote.
FilesOfCoders ==
    pc = "verify" => \A f \in Files \ Outside :
        work[f] = LET by == {k \in DOMAIN coders : Declares(k, f)}
                  IN  IF by = {} THEN NoText ELSE coders[Max(by)].text

\* Over all jobs the lessons stay within their lines, none is there twice, and
\* what was just corrected is among them.
LessonsHold ==
    /\ Len(lessons) <= FileLines /\ IsInjective(lessons)
    /\ lastRedo # NoText => lastRedo \in Range(lessons)

\* Every job comes to its end, cancelled or not.
OrchestrateEnds == pc = "plan" ~> pc = "ended"

\* serve.py:406-407: "il coder li racchiude in ```file:percorso ...``` e il server
\* li scrive nella cartella di lavoro": a file that a final answer declares is in
\* the working directory as one of the final answers has it.
RedoneFilesWritten ==
    pc = "review" => \A f \in Files \ Outside :
        (\E k \in DOMAIN coders : Declares(k, f)) =>
            \E k \in DOMAIN coders : Declares(k, f) /\ work[f] = coders[k].text
=============================================================================
