----------------------------- MODULE Generators -----------------------------
(***************************************************************************)
(* The generators one process runs one after the other (chat.py's loop,    *)
(* _generate and _run_wave of serve.py): self-speculation and the MTP head *)
(* over a conversation's cache or a fresh one, prompt lookup, which is     *)
(* there for a caller's use, and the waves, which decode token by token    *)
(* through the same runtime.  All of them promise GreedyDecode.            *)
(***************************************************************************)
EXTENDS MtpSpec, LookupSpec

vars == <<specVars, headVars, hist>>

GeneratorsInit == SpecInit /\ HeadInit /\ hist = <<>>

SelfTurn == drafter = "self" /\ SelfSteps /\ UNCHANGED <<drafter, headVars, hist>>
HeadTurn == drafter = "head" /\ HeadSteps /\ UNCHANGED <<drafter, hist>>
LookupTurn == drafter = "lookup" /\ LookupSteps /\ UNCHANGED <<drafter, headVars>>

\* A wave whose batch is down to one item decodes it one token at a time
\* (BatchGenerator, external, over the model of model.py, which takes a single
\* token for a draft when rt.draft_gpu is set).
WaveStep ==
    /\ drafter = "wave"
    /\ \/ /\ pc = "start" /\ cur' = greedy[1] /\ pc' = "loop"
          /\ UNCHANGED <<outVars, kv, rec>>
       \/ /\ pc = "loop" /\ (cur \in Eos \/ Len(emitted) = MaxTokens)
          /\ Return("complete")
          /\ UNCHANGED <<kv, rec, cur>>
       \/ /\ pc = "loop" /\ cur \notin Eos /\ Len(emitted) < MaxTokens
          /\ Emit(cur)
          /\ kv' = kv \o Positions(<<cur>>) /\ rec' = kv'
          /\ cur' \in Answers(kv')
          /\ UNCHANGED pc
    /\ UNCHANGED <<drafter, snap, flags, fed, draft, verified, acc, i, nfeed, headVars, hist>>

Turn == (SelfTurn \/ HeadTurn \/ LookupTurn \/ WaveStep) /\ UNCHANGED apart

\* Ctrl+C, Stop, the doom-loop guard; or an exception.
Break ==
    /\ \/ drafter = "self" /\ SelfBreaks /\ UNCHANGED <<headVars, hist>>
       \/ drafter = "head" /\ HeadBreaks /\ UNCHANGED hist
       \/ drafter = "lookup" /\ LookupBreaks /\ UNCHANGED <<apart, headVars>>
       \/ /\ drafter = "wave" /\ pc = "loop" /\ Return("cut")
          /\ UNCHANGED <<cacheVars, apart, locals, headVars, hist>>
    /\ UNCHANGED drafter

Leave == SpecLeave /\ HeadLeave /\ hist' = <<>>

\* rt.draft_gpu is only ever left on in a process that drafts for itself; what
\* runs next there is such a turn or a wave.  Without it any generator may
\* follow, in this process or another.
Start ==
    \E d \in {"self", "head", "lookup", "wave"} :
        /\ draftGpu => d \in {"self", "wave"}
        /\ SpecStart(d) /\ HeadStart(d)
        /\ IF d = "lookup" THEN hist' \in Prompts ELSE UNCHANGED hist

GeneratorsNext == Turn \/ Break \/ Leave \/ Start

\* The consumer goes on taking tokens unless it drops the generator.
GeneratorsSpec == GeneratorsInit /\ [][GeneratorsNext]_vars /\ WF_vars(Turn)

-----------------------------------------------------------------------------
\* Greedy decoding is what every generator implements, draft or not, interrupted,
\* failed or followed by further turns; prompt lookup also hands on the token
\* that ends the sequence.  A wave after a failed draft promises nothing: it
\* counts as none at all.
Spoilt == drafter = "wave" /\ stuck
Visible ==
    IF Spoilt THEN <<>>
    ELSE IF emitted # <<>> /\ Last(emitted) \in Eos THEN Front(emitted) ELSE emitted
Verdict ==
    CASE Spoilt -> "none"
      [] outcome \in {"torn", "strayed", "failed"} /\ ~ Spoilt -> "cut"
      [] OTHER -> outcome
Greedy == INSTANCE GreedyDecode WITH emitted <- Visible, outcome <- Verdict
RefinesGreedy == Greedy!GreedySpec
=============================================================================
