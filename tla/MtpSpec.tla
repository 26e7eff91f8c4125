------------------------------ MODULE MtpSpec ------------------------------
(***************************************************************************)
(* mtp_spec_generate of self_spec.py: the draft comes from the native MTP  *)
(* head, one layer with a KV cache of its own that must stay in step with  *)
(* the prompt cache while both are advanced, trimmed and rewound.  Position *)
(* j of the head takes in position j of the model and the token after it.  *)
(*                                                                         *)
(* mc is the head's cache from the last position of the prompt on, as the  *)
(* tokens taken in; a position computed from the head's own output, not    *)
(* the model's, is marked approximate.                                     *)
(***************************************************************************)
EXTENDS SelfSpec

VARIABLES mc,      \* mtp_cache
          mcFed,   \* positions of the draft in mc
          lag      \* history: an earlier turn of this conversation left the head out of
                   \* step: it ended at its first token, and the head has not seen that
                   \* prompt, or Ctrl+C tore it from the model

headVars == <<mc, mcFed, lag>>

HeadInit == mc = <<>> /\ mcFed = 0 /\ lag = FALSE

OwnDraft(t) == <<[token |-> t, approx |-> TRUE]>>
TrimHead(n) == mc' = SubSeq(mc, 1, Len(mc) - n)

\* The head takes the prompt in, unless its first token ends the sequence.
HeadPrefill ==
    /\ pc = "first" /\ pc' = "aligned"
    /\ mc' = mc \o Exactly(<<cur>>)
    /\ UNCHANGED <<outVars, cacheVars, locals, mcFed, lag>>

HeadYieldFirst ==
    /\ pc = "aligned" /\ pc' = "cycle"
    /\ Emit(cur)
    /\ UNCHANGED <<cacheVars, locals, headVars>>

\* d1, the head's last output, is the first token of the draft.
HeadCycleStart ==
    /\ pc = "cycle" /\ Len(emitted) < MaxTokens
    /\ snap' = rec /\ fed' = 0 /\ mcFed' = 0
    /\ \E t \in Tokens : draft' = <<t>>
    /\ pc' = IF K = 1 THEN "drafted" ELSE "draft"
    /\ UNCHANGED <<outVars, kv, rec, flags, cur, verified, acc, i, nfeed, mc, lag>>

HeadDraftForward ==
    /\ pc = "draft" /\ pc' = "headForward"
    /\ mc' = mc \o OwnDraft(Last(draft))
    /\ UNCHANGED <<outVars, cacheVars, locals, mcFed, lag>>

HeadDraft ==
    /\ pc = "headForward"
    /\ mcFed' = mcFed + 1
    /\ \E t \in Tokens : draft' = Append(draft, t)
    /\ pc' = IF Len(draft') = K THEN "drafted" ELSE "draft"
    /\ UNCHANGED <<outVars, cacheVars, cur, fed, verified, acc, i, nfeed, mc, lag>>

HeadDraftRewind ==
    /\ pc = "drafted" /\ pc' = "headRewound"
    /\ TrimHead(mcFed)
    /\ UNCHANGED <<outVars, cacheVars, locals, mcFed, lag>>

HeadDraftDone ==
    /\ pc = "headRewound" /\ pc' = "verify"
    /\ mcFed' = 0
    /\ UNCHANGED <<outVars, cacheVars, locals, mc, lag>>

\* upd_next: the accepted tokens and the model's own one after them.
Realign ==
    /\ pc = "realign" /\ pc' = "realigned"
    /\ mc' = mc \o Exactly(SubSeq(draft, 1, acc) \o <<verified[acc + 1]>>)
    /\ UNCHANGED <<outVars, cacheVars, locals, mcFed, lag>>

\* The try block ends.
RealignDone ==
    /\ pc = "realigned" /\ pc' = "emit"
    /\ UNCHANGED <<outVars, cacheVars, locals, headVars>>

\* An end in the middle of the accepted tokens takes back what Realign added,
\* and both caches take in the tokens that were kept, one after the other.
HeadTruncate ==
    /\ pc = "rewind" /\ pc' = "truncate"
    /\ TrimHead(acc + 1)
    /\ UNCHANGED <<outVars, cacheVars, locals, mcFed, lag>>

HeadKeep ==
    /\ pc = "truncateForward" /\ pc' = "kept"
    /\ Complete(Kept)
    /\ UNCHANGED <<outVars, snap, flags, locals, headVars>>

HeadTruncateDone ==
    /\ pc = "kept" /\ Return("complete")
    /\ mc' = mc \o Exactly(SubSeq(draft, 1, nfeed) \o <<verified[nfeed + 1]>>)
    /\ UNCHANGED <<cacheVars, locals, mcFed, lag>>

HeadSteps ==
    \/ HeadPrefill \/ HeadYieldFirst \/ HeadCycleStart \/ HeadDraftForward \/ HeadDraft
    \/ HeadDraftRewind \/ HeadDraftDone \/ Realign \/ RealignDone
    \/ HeadTruncate \/ HeadKeep \/ HeadTruncateDone
    \/ /\ \/ Prefill \/ CycleEnd \/ Verify \/ EmitDraft \/ AfterYield \/ EmitNext
          \/ TruncateForward
       /\ UNCHANGED headVars

\* Places in the try block where the head's cache has taken in, or given back,
\* what mcFed does not say; and places that no handler covers, at which one of
\* the two caches is ahead.
HeadUncounted == {"headForward", "headRewound", "realigned"}
OneAhead == {"first", "rewind", "kept"}

\* Fault: the handler rewinds the prompt cache alone.
HeadInterruptModelOnly ==
    /\ \/ pc \in Counted \cup {"realign"} /\ Return("cut")
       \/ pc \in Uncounted /\ Return("torn")
       \/ pc \in HeadUncounted /\ Return("strayed")
    /\ Rewind
    /\ UNCHANGED <<snap, flags, locals, headVars>>

\* The handler of the try block, which Realign is part of.
HeadInterrupt ==
    /\ \/ pc \in Counted \cup {"realign"} /\ Return("cut")
       \/ pc \in Uncounted /\ Return("torn")
       \/ pc \in HeadUncounted /\ Return("strayed")
    /\ Rewind /\ TrimHead(mcFed)
    /\ UNCHANGED <<snap, flags, locals, mcFed, lag>>

HeadDrop ==
    \/ Drop(Unprotected \cup {"aligned"})
    \/ pc \in OneAhead /\ Return("strayed") /\ UNCHANGED <<cacheVars, apart, locals>>

HeadBreaks ==
    \/ HeadInterrupt
    \/ (HeadDrop \/ Fail(ModelForwards \cup OneAhead \cup {"draft", "realign"}))
       /\ UNCHANGED headVars

\* The head's cache lives as long as the conversation.
HeadLeave ==
    /\ mc' = <<>> /\ mcFed' = 0
    /\ lag' = (drafter = "head" /\ outcome # "failed" /\
                  (lag \/ outcome \in {"torn", "strayed"} \/
                      (outcome = "complete" /\ emitted = <<>>)))

\* The same conversation, or another one with fresh caches.
HeadStart(d) == lag' \in {FALSE, lag /\ d = "head"} /\ UNCHANGED <<mc, mcFed>>

-----------------------------------------------------------------------------
\* self_spec.py:31-32: the head's cache is "allineata posizione-per-posizione a
\* quella principale".  It is, wherever the generator is suspended or has ended,
\* holding the confirmed tokens as the model computed them and nothing of a
\* draft (and nothing at all of a prompt that Ctrl+C kept from going in).  Not so
\* after a turn that ended at its first token, or that Ctrl+C cut inside a
\* forward, between a forward or a rewind in the try block and the statement that
\* counts it, or between the model's part and the head's of the same tokens,
\* which no handler covers; nor later in such a conversation.
HeadInStep ==
    /\ drafter = "head" /\ pc \in {"cycle", "yielded", "end"} /\ ~ lag
    /\ outcome \notin {"failed", "torn", "strayed"} /\ (outcome = "complete" => emitted # <<>>)
    => mc = IF cur = NoToken THEN <<>> ELSE Exactly(SubSeq(greedy, 1, Len(kv) + 1))
=============================================================================
