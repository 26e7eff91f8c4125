---------------------------- MODULE GreedyDecode ----------------------------
(***************************************************************************)
(* What every generator of moe_stream promises (self_spec.py: "identical   *)
(* token for token to normal greedy generation"): the tokens it yields are *)
(* the greedy continuation of the prompt, one after the other, up to the   *)
(* first end-of-sequence token, or to max_tokens; the user may cut the     *)
(* generation short at any point, and another one may follow.              *)
(***************************************************************************)
EXTENDS Integers, Sequences

CONSTANTS Eos,         \* end-of-sequence tokens
          MaxTokens    \* max_tokens

VARIABLES greedy,      \* the greedy continuation of the prompt
          emitted,     \* tokens yielded so far
          outcome      \* "none", "running", "complete" or "cut"

greedyVars == <<greedy, emitted, outcome>>

Following == greedy[Len(emitted) + 1]

GreedyInit == emitted = <<>> /\ outcome = "none"

Yield ==
    /\ outcome = "running" /\ Len(emitted) < MaxTokens
    /\ Following \notin Eos
    /\ emitted' = Append(emitted, Following)
    /\ UNCHANGED <<greedy, outcome>>

Complete ==
    /\ outcome = "running"
    /\ Len(emitted) = MaxTokens \/ Following \in Eos
    /\ outcome' = "complete"
    /\ UNCHANGED <<greedy, emitted>>

Cut ==
    /\ outcome = "running"
    /\ outcome' = "cut"
    /\ UNCHANGED <<greedy, emitted>>

\* A prompt comes with a continuation of its own; before it there is none.
Prompt ==
    /\ outcome # "running" /\ outcome' \in {"none", "running"}
    /\ emitted' = <<>>

GreedyNext == Yield \/ Complete \/ Cut \/ Prompt

\* What is yielded, and when a generation may be complete.
GreedySafety == GreedyInit /\ [][GreedyNext]_greedyVars

\* A generation that is not cut comes to its end.
GreedySpec == GreedySafety /\ WF_greedyVars(Yield \/ Complete)
=============================================================================
