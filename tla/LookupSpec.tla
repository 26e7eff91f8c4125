----------------------------- MODULE LookupSpec -----------------------------
(***************************************************************************)
(* spec_generate and _Lookup of spec_generate.py: the draft is what        *)
(* followed the last ngram tokens where they occurred before in the prompt *)
(* and the output.  The cache is the generator's own; accepted tokens are  *)
(* yielded one by one while the rejected ones are still in it.             *)
(***************************************************************************)
EXTENDS SelfSpec

CONSTANTS Prompts,   \* bound: the prompts to start from
          Ngram, NDraft

ASSUME LookupConstants ==
    /\ Prompts \subseteq Seq(Tokens)
    /\ Ngram \in Nat \ {0} /\ NDraft \in Nat /\ NDraft <= Ahead

VARIABLE hist    \* _Lookup.hist; the index is a function of it

\* _Lookup.draft: the longest continuation, the first one of that length.
LookupDraft(h, ngram, nDraft) ==
    LET query == SubSeq(h, Len(h) - ngram + 1, Len(h))
        starts == {s \in 1 .. Len(h) - ngram : SubSeq(h, s, s + ngram - 1) = query}
        next(s) == SubSeq(h, s + ngram, Min({Len(h), s + ngram + nDraft - 1}))
        best(s) == \A r \in starts :
                      Len(next(r)) < Len(next(s)) \/ (Len(next(r)) = Len(next(s)) /\ s <= r)
    IN  IF Len(h) < ngram \/ starts = {} THEN <<>>
        ELSE next(CHOOSE s \in starts : best(s))

LookupPrefill ==
    /\ pc = "start" /\ pc' = "loop"
    /\ cur' = greedy[1]
    /\ UNCHANGED <<outVars, cacheVars, fed, draft, verified, acc, i, nfeed, hist>>

\* The loop test holds here: it was made when the last token had been yielded.
Give ==
    /\ pc = "loop" /\ pc' = "gave"
    /\ Emit(cur)
    /\ UNCHANGED <<cacheVars, locals, hist>>

\* Fault: the token that was yielded is not added to the history.
NextDraftStale ==
    /\ pc = "gave" /\ Last(emitted) \notin Eos /\ Len(emitted) < MaxTokens
    /\ draft' = LookupDraft(hist, Ngram, NDraft) /\ acc' = 0
    /\ snap' = rec
    /\ pc' = IF draft' = <<>> THEN "readvance" ELSE "verify"
    /\ UNCHANGED <<outVars, kv, rec, flags, cur, fed, verified, i, nfeed, hist>>

\* Without a draft the step is that of `Confirmed`, <<cur>> alone.
NextDraft ==
    /\ pc = "gave" /\ Last(emitted) \notin Eos /\ Len(emitted) < MaxTokens
    /\ hist' = Append(hist, cur)
    /\ draft' = LookupDraft(hist', Ngram, NDraft) /\ acc' = 0
    /\ snap' = rec
    /\ pc' = IF draft' = <<>> THEN "readvance" ELSE "verify"
    /\ UNCHANGED <<outVars, kv, rec, flags, cur, fed, verified, i, nfeed>>

\* After a yield, of cur or of an accepted token.
LookupEnd ==
    /\ pc \in {"gave", "accepted"}
    /\ Last(emitted) \in Eos \/ Len(emitted) >= MaxTokens
    /\ Return("complete")
    /\ UNCHANGED <<cacheVars, locals, hist>>

Accept ==
    /\ pc = "judge" /\ acc < Len(draft) /\ draft[acc + 1] = verified[acc + 1]
    /\ acc' = acc + 1
    /\ hist' = Append(hist, draft[acc'])
    /\ Emit(draft[acc']) /\ pc' = "accepted"
    /\ UNCHANGED <<cacheVars, cur, fed, draft, verified, i, nfeed>>

AcceptMore ==
    /\ pc = "accepted" /\ Last(emitted) \notin Eos /\ Len(emitted) < MaxTokens
    /\ pc' = "judge"
    /\ UNCHANGED <<outVars, cacheVars, locals, hist>>

Reject ==
    /\ pc = "judge" /\ acc < Len(draft) /\ draft[acc + 1] # verified[acc + 1]
    /\ Rollback(Len(Candidate)) /\ pc' = "readvance"
    /\ UNCHANGED <<outVars, snap, flags, locals, hist>>

AcceptAll ==
    /\ pc = "judge" /\ acc = Len(draft)
    /\ cur' = verified[acc + 1] /\ pc' = "loop"
    /\ UNCHANGED <<outVars, cacheVars, fed, draft, verified, acc, i, nfeed, hist>>

\* The next token is the answer of this forward.
LookupStep ==
    /\ pc = "readvanceForward" /\ pc' = "loop"
    /\ Complete(Confirmed)
    /\ cur' \in IF rec' = kv THEN Answers(kv) ELSE Tokens
    /\ UNCHANGED <<outVars, snap, flags, fed, draft, verified, acc, i, nfeed, hist>>

LookupSteps ==
    \/ LookupPrefill \/ Give \/ NextDraft \/ LookupEnd
    \/ Accept \/ AcceptMore \/ Reject \/ AcceptAll \/ LookupStep
    \/ (VerifyForward \/ VerifyTokens \/ ReadvanceForward) /\ UNCHANGED hist

\* No handler: the caller closes it at a yield, or an exception ends it anywhere.
LookupBreaks ==
    /\ \/ pc \in {"gave", "accepted"} /\ Return("cut")
       \/ pc \in {"start", "verifyForward", "readvanceForward"} /\ Return("failed")
    /\ UNCHANGED <<cacheVars, locals, hist>>

-----------------------------------------------------------------------------
\* At the head of the loop the history that drafts are taken from is the prompt
\* and everything yielded, once each, and the cache has taken in exactly what was
\* yielded, however many tokens of how many drafts were accepted or taken back.
LookupInStep ==
    drafter = "lookup" /\ pc = "loop" =>
        /\ \E p \in Prompts : hist = p \o emitted
        /\ kv = Exactly(emitted) /\ rec = kv
=============================================================================
