------------------------------ MODULE SelfSpec ------------------------------
(***************************************************************************)
(* self_spec_generate of self_spec.py with _snapshot and _rollback of      *)
(* spec_generate.py: one turn of draft-and-verify decoding over a prompt   *)
(* cache that outlives the turn.  MtpSpec and LookupSpec draft in other    *)
(* ways and share the verification; Generators puts the three together.    *)
(*                                                                         *)
(* The prompt cache has two kinds of layers (external, mlx_lm): attention  *)
(* layers, which trim(n) shortens, and recurrent layers, whose state is    *)
(* saved and assigned as a whole.  kv and rec are the positions each kind  *)
(* has taken in after the prompt.  A position computed by a draft forward  *)
(* (one token, rt.draft_gpu set) is approximate and is marked so.          *)
(*                                                                         *)
(* The full model is a function of its context.  greedy is its own         *)
(* continuation of the prompt; what it answers off that path, or on layers *)
(* that disagree, may be any token, like everything a draft answers.       *)
(*                                                                         *)
(* Ctrl+C may strike at every place: before each step, and inside each     *)
(* forward.  A step ends wherever the statements before it have changed a  *)
(* cache, or the count of what a cache has to give back.                   *)
(***************************************************************************)
EXTENDS Integers, SequencesExt

CONSTANTS Tokens, Eos, MaxTokens, K,
          Ahead,          \* bound: greedy is given for so many tokens past MaxTokens
          NoToken         \* no token

ASSUME SpecConstants ==
    /\ Eos \subseteq Tokens /\ NoToken \notin Tokens
    /\ MaxTokens \in Nat \ {0} /\ K \in Nat \ {0} /\ Ahead \in Nat /\ K <= Ahead

VARIABLES drafter,     \* which generator runs: "self", "head", "lookup"; "wave" does not draft
          greedy,      \* greedy continuation, long enough for the last verification
          emitted,
          outcome,     \* "none", "running", "complete", "failed", or cut short: "cut",
                       \* "torn" where the handler leaves the kinds of layers apart,
                       \* "strayed" where it leaves the MTP head apart from the model
          kv, rec,     \* positions in the attention and in the recurrent layers
          apart,       \* positions that the attention layers hold more than the
                       \* recurrent ones, of the prompt and before (fewer: negative)
          snap,        \* recurrent state saved by _snapshot
          draftGpu,    \* rt.draft_gpu
          stuck,       \* history: draftGpu was left on by a draft that failed
          pc,          \* where the generator is
          cur, fed, draft, verified, acc,   \* its locals
          i,           \* loop index over draft[:acc]
          nfeed        \* argument of _truncate

outVars == <<greedy, emitted, outcome>>
flags == <<draftGpu, stuck>>
cacheVars == <<kv, rec, snap, flags>>
locals == <<cur, fed, draft, verified, acc, i, nfeed>>
specVars == <<drafter, outVars, cacheVars, apart, pc, locals>>

Horizon == 1 .. MaxTokens + Ahead

-----------------------------------------------------------------------------
\* How the layers of the model take tokens in.
Positions(toks) ==
    [j \in DOMAIN toks |->
        [token |-> toks[j], approx |-> draftGpu /\ Len(toks) = 1]]

Exactly(toks) == [j \in DOMAIN toks |-> [token |-> toks[j], approx |-> FALSE]]
OnPath(c) == IsPrefix(c, Exactly(greedy))

\* The answers the full model may give on context c.
Answers(c) == IF OnPath(c) THEN {greedy[Len(c) + 1]} ELSE Tokens

\* A forward runs through the layers in order, and the kinds alternate.  Two
\* steps are enough to stop between an attention layer and a recurrent one.
Advance(toks) == kv' = kv \o Positions(toks) /\ UNCHANGED rec
Complete(toks) == rec' = rec \o Positions(toks) /\ UNCHANGED kv

\* Fault: only the layers that can be trimmed are rewound.
RollbackKvOnly(n) ==
    /\ UNCHANGED rec
    /\ kv' = SubSeq(kv, 1, Len(kv) - n)

\* _rollback(pc, snap, n): the recurrent layers get their state back, the
\* attention layers forget the last n positions.
Rollback(n) ==
    /\ rec' = snap
    /\ kv' = SubSeq(kv, 1, Len(kv) - n)

Emit(t) == emitted' = Append(emitted, t) /\ UNCHANGED <<greedy, outcome>>
End(o) == outcome' = o /\ UNCHANGED <<greedy, emitted>>
Return(o) == End(o) /\ pc' = "end"

-----------------------------------------------------------------------------
SpecInit ==
    /\ drafter = "none" /\ greedy = <<>> /\ emitted = <<>> /\ outcome = "none"
    /\ kv = <<>> /\ rec = <<>> /\ apart = 0 /\ snap = <<>>
    /\ draftGpu = FALSE /\ stuck = FALSE
    /\ pc = "idle"
    /\ cur = NoToken /\ fed = 0 /\ draft = <<>> /\ verified = <<>>
    /\ acc = 0 /\ i = 0 /\ nfeed = 0

\* Between two generations only rt.draft_gpu outlives the generator; the cache
\* goes on from where it is, as it is, and the next positions count from there.
SpecLeave ==
    /\ pc = "end" /\ pc' = "idle"
    /\ drafter' = "none" /\ greedy' = <<>> /\ emitted' = <<>> /\ outcome' = "none"
    /\ kv' = <<>> /\ rec' = <<>> /\ apart' = 0 /\ snap' = <<>> /\ UNCHANGED flags
    /\ cur' = NoToken /\ fed' = 0 /\ draft' = <<>> /\ verified' = <<>>
    /\ acc' = 0 /\ i' = 0 /\ nfeed' = 0

\* A prompt for a generator.
SpecStart(d) ==
    /\ pc = "idle" /\ pc' = "start"
    /\ drafter' = d /\ greedy' \in [Horizon -> Tokens] /\ outcome' = "running"
    /\ UNCHANGED <<emitted, cacheVars, apart, locals>>

\* The prompt goes in and the first token comes out.
Prefill ==
    /\ pc = "start"
    /\ cur' = greedy[1]
    /\ \/ cur' \in Eos /\ Return("complete")
       \/ cur' \notin Eos /\ pc' = "first" /\ UNCHANGED outVars
    /\ UNCHANGED <<cacheVars, fed, draft, verified, acc, i, nfeed>>

YieldFirst ==
    /\ pc = "first" /\ pc' = "cycle"
    /\ Emit(cur)
    /\ UNCHANGED <<cacheVars, locals>>

\* The loop test of a cycle, after the consumer has taken the last token.
CycleStart ==
    /\ pc = "cycle" /\ Len(emitted) < MaxTokens
    /\ snap' = rec /\ fed' = 0
    /\ draftGpu' = TRUE /\ stuck' = FALSE /\ draft' = <<>>
    /\ pc' = "draft"
    /\ UNCHANGED <<outVars, kv, rec, cur, verified, acc, i, nfeed>>

CycleEnd ==
    /\ pc = "cycle" /\ Len(emitted) >= MaxTokens
    /\ Return("complete")
    /\ UNCHANGED <<cacheVars, locals>>

DraftInput == <<IF draft = <<>> THEN cur ELSE Last(draft)>>

DraftForward ==
    /\ pc = "draft"
    /\ Advance(DraftInput)
    /\ pc' = "draftForward"
    /\ UNCHANGED <<outVars, snap, flags, locals>>

\* fed += 1; the answer of the draft is any token.
DraftToken ==
    /\ pc = "draftForward"
    /\ Complete(DraftInput)
    /\ fed' = fed + 1
    /\ \E t \in Tokens : draft' = Append(draft, t)
    /\ pc' = IF Len(draft') = K THEN "drafted" ELSE "draft"
    /\ UNCHANGED <<outVars, snap, flags, cur, verified, acc, i, nfeed>>

DraftRewind ==
    /\ pc = "drafted" /\ pc' = "rewound"
    /\ draftGpu' = FALSE
    /\ Rollback(fed)
    /\ UNCHANGED <<outVars, snap, stuck, locals>>

DraftDone ==
    /\ pc = "rewound" /\ pc' = "verify"
    /\ fed' = 0
    /\ UNCHANGED <<outVars, cacheVars, cur, draft, verified, acc, i, nfeed>>

Candidate == <<cur>> \o draft

VerifyForward ==
    /\ pc = "verify"
    /\ Advance(Candidate)
    /\ pc' = "verifyForward"
    /\ UNCHANGED <<outVars, snap, flags, locals>>

\* fed = k + 1; verified[j] is the answer after the j-th token of [cur] + draft.
VerifyTokens ==
    /\ pc = "verifyForward"
    /\ Complete(Candidate)
    /\ fed' = Len(Candidate)
    /\ verified' \in [1 .. fed' -> Tokens]
    /\ rec' = kv =>
          \A j \in 1 .. fed' : verified'[j] \in Answers(SubSeq(kv, 1, Len(kv) - fed' + j))
    /\ pc' = "judge"
    /\ UNCHANGED <<outVars, snap, flags, cur, draft, acc, i, nfeed>>

\* Fault: the first rejected token counts as accepted.
AgreeOneMore(a) ==
    /\ \A j \in 1 .. a - 1 : draft[j] = verified[j]
    /\ a = K \/ (a > 0 /\ draft[a] # verified[a])

\* Exactly the first a draft tokens are what the full model says.
Agree(a) ==
    /\ \A j \in 1 .. a : draft[j] = verified[j]
    /\ a = K \/ draft[a + 1] # verified[a + 1]

AfterVerify == IF drafter = "head" THEN "realign" ELSE "emit"

\* All accepted: the cache is right as it is.  Otherwise rewind and take in the
\* confirmed tokens alone.
Judge ==
    /\ pc = "judge"
    /\ acc' \in {a \in 0 .. K : Agree(a)}
    /\ i' = 0
    /\ \/ acc' = K /\ pc' = AfterVerify /\ UNCHANGED <<kv, rec>>
       \/ acc' < K /\ Rollback(fed) /\ pc' = "rejected"
    /\ UNCHANGED <<outVars, snap, flags, cur, fed, draft, verified, nfeed>>

RejectDone ==
    /\ pc = "rejected" /\ pc' = "readvance"
    /\ fed' = 0
    /\ UNCHANGED <<outVars, cacheVars, cur, draft, verified, acc, i, nfeed>>

Confirmed == <<cur>> \o SubSeq(draft, 1, acc)

ReadvanceForward ==
    /\ pc = "readvance"
    /\ Advance(Confirmed)
    /\ pc' = "readvanceForward"
    /\ UNCHANGED <<outVars, snap, flags, locals>>

ReadvanceDone ==
    /\ pc = "readvanceForward"
    /\ Complete(Confirmed)
    /\ fed' = acc + 1
    /\ pc' = AfterVerify
    /\ UNCHANGED <<outVars, snap, flags, cur, draft, verified, acc, i, nfeed>>

\* _truncate begins; the MTP generator rewinds its head next.
Truncating == IF drafter = "head" THEN "rewind" ELSE "truncate"

\* The loop over draft[:acc]: an end-of-sequence token truncates the cache to
\* the tokens before it, any other is yielded.
EmitDraft ==
    /\ pc = "emit" /\ i < acc
    /\ \/ /\ draft[i + 1] \in Eos
          /\ Rollback(fed) /\ nfeed' = i /\ pc' = Truncating
          /\ UNCHANGED outVars
       \/ /\ draft[i + 1] \notin Eos
          /\ Emit(draft[i + 1]) /\ pc' = "yielded"
          /\ UNCHANGED <<kv, rec, nfeed>>
    /\ UNCHANGED <<snap, flags, cur, fed, draft, verified, acc, i>>

\* Fault: a token too many before the turn ends.
AfterYieldLate ==
    /\ pc = "yielded"
    /\ \/ /\ Len(emitted) > MaxTokens
          /\ Rollback(fed) /\ nfeed' = i + 1 /\ pc' = Truncating
          /\ UNCHANGED i
       \/ /\ Len(emitted) <= MaxTokens
          /\ i' = i + 1 /\ pc' = "emit"
          /\ UNCHANGED <<kv, rec, nfeed>>
    /\ UNCHANGED <<outVars, snap, flags, cur, fed, draft, verified, acc>>

\* Resumed after a yield of the loop.
AfterYield ==
    /\ pc = "yielded"
    /\ \/ /\ Len(emitted) >= MaxTokens
          /\ Rollback(fed) /\ nfeed' = i + 1 /\ pc' = Truncating
          /\ UNCHANGED i
       \/ /\ Len(emitted) < MaxTokens
          /\ i' = i + 1 /\ pc' = "emit"
          /\ UNCHANGED <<kv, rec, nfeed>>
    /\ UNCHANGED <<outVars, snap, flags, cur, fed, draft, verified, acc>>

\* The full model's own token after the accepted ones.
EmitNext ==
    /\ pc = "emit" /\ i = acc
    /\ cur' = verified[acc + 1]
    /\ \/ cur' \in Eos /\ Return("complete")
       \/ cur' \notin Eos /\ Emit(cur') /\ pc' = "cycle"
    /\ UNCHANGED <<cacheVars, fed, draft, verified, acc, i, nfeed>>

\* Fault: the token that ends the turn is fed as well.
KeptPlusOne == <<cur>> \o SubSeq(draft, 1, IF nfeed < acc THEN nfeed + 1 ELSE nfeed)

Kept == <<cur>> \o SubSeq(draft, 1, nfeed)

TruncateForward ==
    /\ pc = "truncate"
    /\ Advance(Kept)
    /\ pc' = "truncateForward"
    /\ UNCHANGED <<outVars, snap, flags, locals>>

TruncateDone ==
    /\ pc = "truncateForward"
    /\ Complete(Kept)
    /\ Return("complete")
    /\ UNCHANGED <<snap, flags, locals>>

\* Places in the try block: where fed counts what the cache has to give back,
\* and where it does not, inside a forward or before the statement that counts.
Counted == {"draft", "drafted", "verify", "judge", "readvance"}
Forwards == {"draftForward", "verifyForward", "readvanceForward"}
Uncounted == Forwards \cup {"rewound", "rejected"}

\* The handler rewinds what fed counts and raises.  Positions trimmed twice come
\* off the prompt once the turn's own are gone.
Rewind ==
    /\ Rollback(fed)
    /\ apart' = IF fed > Len(kv) THEN Len(kv) - fed ELSE 0

\* Fault: the handler leaves drafting switched on.
InterruptDrafting ==
    /\ \/ pc \in Counted /\ Return("cut")
       \/ pc \in Uncounted /\ Return("torn")
    /\ Rewind
    /\ UNCHANGED <<snap, flags, locals>>

\* Ctrl+C inside the try block.
Interrupt ==
    /\ \/ pc \in Counted /\ Return("cut")
       \/ pc \in Uncounted /\ Return("torn")
    /\ draftGpu' = FALSE
    /\ Rewind
    /\ UNCHANGED <<snap, stuck, locals>>

\* Ctrl+C where no handler covers it, or while the consumer holds the generator
\* suspended; the doom-loop guard and Stop drop it there as well.  Inside a
\* forward it leaves the kinds of layers apart (by one position of the prompt,
\* which stands for any number).
Drop(safe) ==
    /\ \/ pc \in safe /\ Return("cut") /\ UNCHANGED apart
       \/ pc = "start" /\ Return("torn") /\ apart' = 1
       \/ pc = "truncateForward" /\ Return("torn") /\ UNCHANGED apart
    /\ UNCHANGED <<cacheVars, locals>>

Unprotected == {"start", "cycle", "emit", "yielded", "truncate"}

\* Any other exception in a forward leaves everything as it is.
Fail(forwards) ==
    /\ pc \in forwards
    /\ Return("failed") /\ stuck' = draftGpu
    /\ UNCHANGED <<kv, rec, apart, snap, draftGpu, locals>>

ModelForwards == Forwards \cup {"start", "truncateForward"}

\* What drafting generators share after the draft.
Verify ==
    \/ VerifyForward \/ VerifyTokens \/ Judge \/ RejectDone
    \/ ReadvanceForward \/ ReadvanceDone

SelfSteps ==
    \/ Prefill \/ YieldFirst \/ CycleStart \/ CycleEnd
    \/ DraftForward \/ DraftToken \/ DraftRewind \/ DraftDone \/ Verify
    \/ EmitDraft \/ AfterYield \/ EmitNext \/ TruncateForward \/ TruncateDone

SelfBreaks == Interrupt \/ Drop(Unprotected \cup {"first"}) \/ Fail(ModelForwards)

-----------------------------------------------------------------------------
\* Types of the generator's state.
SpecTypeOK ==
    LET positions == Seq([token : Tokens, approx : BOOLEAN])
    IN  /\ emitted \in Seq(Tokens) /\ Len(emitted) <= MaxTokens
        /\ outcome \in {"none", "running", "complete", "cut", "torn", "strayed", "failed"}
        /\ apart \in Int /\ kv \in positions /\ rec \in positions /\ snap \in positions
        /\ draftGpu \in BOOLEAN /\ stuck \in BOOLEAN
        /\ draft \in Seq(Tokens) /\ verified \in Seq(Tokens)
        /\ fed \in 0 .. Ahead + 1 /\ acc \in 0 .. Ahead /\ i \in 0 .. acc /\ nfeed \in 0 .. acc

Persistent == drafter \in {"self", "head"}

\* Whenever a drafting generator is suspended at a yield or has ended, unless by
\* an exception that ended its conversation too, the recurrent layers hold only
\* positions computed at full precision from the greedy continuation.  So do the
\* attention layers, and the same ones, if Ctrl+C did not strike inside a
\* forward, or between a rewind in the try block and the statement after it:
\* the next turn can build on this cache.  Drafting is switched off, unless by a
\* draft that failed earlier.
RestsOnPath ==
    pc \in {"cycle", "yielded", "end"} /\ Persistent /\ outcome # "failed" =>
        /\ OnPath(rec)
        /\ outcome # "torn" => kv = rec /\ apart = 0
        /\ draftGpu => stuck

\* A turn that comes to its own end leaves no position in the cache beyond the
\* emitted tokens, and lacks at most the last of them (the end-of-sequence
\* token is never fed).
TurnEndsInStep ==
    outcome = "complete" /\ Persistent => kv \in {Exactly(emitted), Exactly(Front(emitted))}

\* self_spec.py:215: "interrotti a meta' ciclo: riporta la cache allo stato
\* confermato".
InterruptRestores ==
    outcome \in {"cut", "torn"} /\ Persistent /\ emitted # <<>> =>
        kv = rec /\ OnPath(kv) /\ apart = 0
=============================================================================
