-------------------------- MODULE GeneratorsProofs --------------------------
(***************************************************************************)
(* The generators yield the greedy continuation and leave the prompt cache *)
(* on it, for every K, MaxTokens, set of tokens and lookup setting.        *)
(*                                                                         *)
(* The inductive invariant says, for every place a generator can be at,    *)
(* how far along the greedy continuation the cache is, and from where the  *)
(* confirmed tokens and the model's answers count.                         *)
(***************************************************************************)
EXTENDS Generators, KeyOrders

-----------------------------------------------------------------------------
\* Positions and the first m of them on the greedy continuation.
Pos == [token : Tokens, approx : BOOLEAN]
PathOf(g, m) == [j \in 1 .. m |-> [token |-> g[j], approx |-> FALSE]]
Path(m) == PathOf(greedy, m)

Count == Len(emitted)
Depth == MaxTokens + Ahead

Typed ==
    /\ emitted \in Seq(Tokens) /\ Count <= MaxTokens
    /\ kv \in Seq(Pos) /\ rec \in Seq(Pos) /\ snap \in Seq(Pos) /\ mc \in Seq(Pos)
    /\ draft \in Seq(Tokens) /\ Len(draft) <= Ahead /\ verified \in Seq(Tokens)
    /\ draftGpu \in BOOLEAN /\ stuck \in BOOLEAN /\ lag \in BOOLEAN
    /\ fed \in 0 .. Ahead + 1 /\ acc \in 0 .. Ahead /\ mcFed \in Nat
    /\ i \in 0 .. acc /\ nfeed \in 0 .. acc
    /\ drafter \in {"lookup", "wave"} => i = 0 /\ nfeed = 0
    /\ pc \notin {"rewind", "truncate", "truncateForward", "kept", "end"} => nfeed = 0

\* Drafting is on while a generator drafts for itself, and after a draft that failed.
Drafting == pc \in {"draft", "draftForward", "headForward", "drafted"}
Flags ==
    /\ drafter \in {"head", "lookup"} => ~ draftGpu
    /\ drafter = "self" /\ Drafting => draftGpu
    /\ drafter = "self" /\ pc \notin {"start", "first", "cycle", "end"} /\ ~ Drafting => ~ draftGpu
    /\ draftGpu => stuck \/ (drafter = "self" /\ Drafting)

Reset ==
    /\ emitted = <<>> /\ kv = <<>> /\ rec = <<>> /\ snap = <<>>
    /\ draft = <<>> /\ verified = <<>> /\ fed = 0 /\ acc = 0 /\ i = 0 /\ nfeed = 0
    /\ mc = <<>> /\ mcFed = 0 /\ cur = NoToken

AtIdle == drafter = "none" /\ outcome = "none" /\ greedy = <<>> /\ Reset

Running == outcome = "running" /\ greedy \in [Horizon -> Tokens]

AtStart ==
    /\ drafter \in {"self", "head", "lookup", "wave"}
    /\ Running /\ Reset
    /\ drafter = "lookup" => hist \in Prompts

\* The tokens yielded are the first of the greedy continuation, and none of them,
\* or none but the last, ends the sequence.
Told == \A j \in 1 .. Count : emitted[j] = greedy[j]
Open == \A j \in 1 .. Count : emitted[j] \notin Eos
OpenBefore == \A j \in 1 .. Count - 1 : emitted[j] \notin Eos

Rest(m) == kv = Path(m) /\ rec = Path(m)
From(m) == m \in 0 .. MaxTokens /\ snap = Path(m) /\ cur = greedy[m + 1]

\* The first acc tokens of the draft, and what the model answered to them.
Accepted(m) == acc <= Len(draft) /\ \A l \in 1 .. acc : draft[l] = greedy[m + 1 + l]
Judged(m) ==
    /\ acc <= Len(draft) /\ Len(verified) = Len(draft) + 1
    /\ \A l \in 1 .. acc + 1 : verified[l] = greedy[m + 1 + l]
    /\ \A l \in 1 .. acc : draft[l] = verified[l]

\* An answer is right if the draft before it is.
Truthful(m) ==
    /\ Len(verified) = Len(draft) + 1
    /\ \A j \in 1 .. Len(verified) :
          (\A l \in 1 .. j - 1 : draft[l] = greedy[m + 1 + l]) => verified[j] = greedy[m + 1 + j]

-----------------------------------------------------------------------------
\* Generators over a conversation's cache.
HeadAt(m) == drafter = "head" => mc = Path(m) /\ mcFed = 0

AtFirst ==
    /\ Count = 0 /\ Rest(0) /\ cur = greedy[1] /\ cur \notin Eos
    /\ pc = "aligned" => drafter = "head"
    /\ HeadAt(IF pc = "first" THEN 0 ELSE 1)

AtCycle ==
    /\ Count >= 1 /\ Rest(Count - 1) /\ cur = greedy[Count] /\ HeadAt(Count)

AtDraft ==
    /\ Count >= 1 /\ Count < MaxTokens /\ From(Count - 1)
    /\ drafter = "self" =>
          /\ fed = Len(draft)
          /\ Len(kv) = Count - 1 + fed + (IF pc = "draftForward" THEN 1 ELSE 0)
          /\ SubSeq(kv, 1, Count - 1) = Path(Count - 1)
          /\ pc # "headForward"
    /\ drafter = "head" =>
          /\ pc # "draftForward" /\ Rest(Count - 1) /\ fed = 0
          /\ Len(draft) = mcFed + 1
          /\ Len(mc) = Count + mcFed + (IF pc = "headForward" THEN 1 ELSE 0)
          /\ SubSeq(mc, 1, Count) = Path(Count)
    /\ Len(draft) <= K /\ (pc = "drafted" <=> Len(draft) = K)

\* The draft is taken back; its length is still in fed, or in mcFed.
AtRewound ==
    /\ Count >= 1 /\ Count < MaxTokens /\ From(Count - 1) /\ Rest(Count - 1)
    /\ Len(draft) = K
    /\ pc = "rewound" => drafter = "self" /\ fed = K
    /\ pc = "headRewound" => drafter = "head" /\ fed = 0 /\ mc = Path(Count)

AtVerify ==
    /\ Count >= 1 /\ Count < MaxTokens /\ From(Count - 1) /\ HeadAt(Count)
    /\ Len(draft) = K /\ fed = 0
    /\ kv = IF pc = "verify" THEN Path(Count - 1) ELSE Path(Count - 1) \o Exactly(Candidate)
    /\ rec = Path(Count - 1)

AtJudge ==
    /\ Count >= 1 /\ Count < MaxTokens /\ From(Count - 1) /\ HeadAt(Count)
    /\ Len(draft) = K /\ fed = K + 1
    /\ kv = Path(Count - 1) \o Exactly(Candidate) /\ rec = kv
    /\ Truthful(Count - 1)

AtReadvance ==
    /\ Count >= 1 /\ Count < MaxTokens /\ From(Count - 1) /\ HeadAt(Count)
    /\ Len(draft) = K /\ fed = (IF pc = "rejected" THEN K + 1 ELSE 0)
    /\ i = 0 /\ Judged(Count - 1)
    /\ kv = IF pc = "readvanceForward" THEN Path(Count + acc) ELSE Path(Count - 1)
    /\ rec = Path(Count - 1)

\* acc tokens are accepted after position m + 1; i of them have been yielded.
Emitting(m) ==
    /\ From(m) /\ m + acc + 2 <= Depth
    /\ Rest(m + 1 + acc) /\ fed = acc + 1 /\ Judged(m)

AtRealign ==
    /\ drafter = "head" /\ Count >= 1 /\ Count < MaxTokens
    /\ i = 0 /\ Emitting(Count - 1)
    /\ HeadAt(IF pc = "realign" THEN Count ELSE Count + acc + 1)

AtEmit ==
    /\ Count < MaxTokens
    /\ Emitting(Count - 1 - i) /\ HeadAt(Count - i + acc + 1)

AtYielded ==
    /\ i < acc
    /\ Emitting(Count - 2 - i) /\ HeadAt(Count - i + acc)

AtTruncate ==
    LET m == Count - 1 - nfeed
    IN  /\ From(m) /\ m + acc + 2 <= Depth
        /\ Judged(m)
        /\ pc \in {"rewind", "kept"} => drafter = "head"
        /\ HeadAt(IF pc = "rewind" THEN m + acc + 2 ELSE m + 1)
        /\ kv = IF pc \in {"rewind", "truncate"} THEN Path(m) ELSE Path(Count)
        /\ rec = IF pc = "kept" THEN Path(Count) ELSE Path(m)
        /\ Count = MaxTokens \/ greedy[Count + 1] \in Eos

OverConversation ==
    /\ Persistent /\ Running /\ Told /\ Open
    /\ \/ pc \in {"first", "aligned"} /\ AtFirst
       \/ pc = "cycle" /\ AtCycle
       \/ Drafting /\ AtDraft
       \/ pc \in {"rewound", "headRewound"} /\ AtRewound
       \/ pc \in {"verify", "verifyForward"} /\ AtVerify
       \/ pc = "judge" /\ AtJudge
       \/ pc \in {"rejected", "readvance", "readvanceForward"} /\ AtReadvance
       \/ pc \in {"realign", "realigned"} /\ AtRealign
       \/ pc = "emit" /\ AtEmit
       \/ pc = "yielded" /\ AtYielded
       \/ pc \in {"rewind", "truncate", "truncateForward", "kept"} /\ AtTruncate

-----------------------------------------------------------------------------
\* Prompt lookup and the waves, over caches of their own.
Hist(k) == \E p \in Prompts : hist = p \o SubSeq(emitted, 1, k)

AtLoop ==
    /\ Open /\ Count < MaxTokens
    /\ Rest(Count) /\ cur = greedy[Count + 1] /\ Hist(Count)

AtGave ==
    /\ OpenBefore /\ Count >= 1
    /\ Rest(Count - 1) /\ cur = greedy[Count] /\ Hist(Count - 1)

Matching(m) == From(m) /\ m + Len(draft) + 2 <= Depth /\ Hist(Count) /\ Accepted(m)

AtLookupVerify ==
    /\ Open /\ Count < MaxTokens
    /\ acc = 0 /\ Matching(Count - 1)
    /\ kv = IF pc = "verify" THEN Path(Count - 1) ELSE Path(Count - 1) \o Exactly(Candidate)
    /\ rec = Path(Count - 1)

AtMatch ==
    LET m == Count - 1 - acc
    IN  /\ IF pc = "judge" THEN Open /\ Count < MaxTokens ELSE OpenBefore /\ acc >= 1
        /\ Matching(m) /\ Truthful(m)
        /\ kv = Path(m) \o Exactly(Candidate) /\ rec = kv

AtStep ==
    LET m == Count - 1 - acc
    IN  /\ Open /\ Count < MaxTokens
        /\ Matching(m)
        /\ kv = IF pc = "readvance" THEN Path(m) ELSE Path(Count)
        /\ rec = Path(m)

OverHistory ==
    /\ drafter = "lookup" /\ Running /\ Told
    /\ \/ pc = "loop" /\ AtLoop
       \/ pc = "gave" /\ AtGave
       \/ pc \in {"verify", "verifyForward"} /\ AtLookupVerify
       \/ pc \in {"judge", "accepted"} /\ AtMatch
       \/ pc \in {"readvance", "readvanceForward"} /\ AtStep

InWave ==
    /\ Running /\ cur \in Tokens /\ Len(kv) = Count
    /\ ~ stuck => Told /\ Open /\ Rest(Count) /\ cur = greedy[Count + 1]

\* What is left when a generation has ended.
OnTheWay(m) == m \in 0 .. Depth /\ Rest(m)

AtEnd ==
    /\ drafter \in {"self", "head", "lookup", "wave"}
    /\ outcome \in {"complete", "cut", "torn", "strayed", "failed"}
    /\ greedy \in [Horizon -> Tokens]
    /\ Persistent /\ outcome = "complete" =>
          /\ Told /\ OnTheWay(Len(kv)) /\ Len(kv) \in {Count - 1, Count}
          /\ drafter = "head" /\ emitted # <<>> =>
                mc = Path(Len(kv) + 1) /\ Len(kv) + 1 <= Depth /\ cur \in Tokens
    /\ Persistent /\ outcome \in {"cut", "strayed"} => OnTheWay(Len(kv))
    /\ drafter = "head" /\ outcome = "cut" =>
          IF cur = NoToken THEN mc = <<>> ELSE mc = Path(Len(kv) + 1) /\ Len(kv) + 1 <= Depth
    /\ Persistent /\ outcome = "torn" => rec = Path(Len(rec)) /\ Len(rec) <= Depth

Phase ==
    \/ pc = "idle" /\ AtIdle
    \/ pc = "start" /\ AtStart
    \/ OverConversation \/ OverHistory
    \/ drafter = "wave" /\ pc = "loop" /\ InWave
    \/ pc = "end" /\ AtEnd

GeneratorsInv == Typed /\ Flags /\ Phase

\* The kinds of layers are level unless Ctrl+C tore them apart.
Level ==
    /\ apart \in Int
    /\ ~ (pc = "end" /\ Persistent /\ outcome = "torn") => apart = 0

-----------------------------------------------------------------------------
\* Sequences: equality, concatenation and slices.

LEMMA Constants ==
    /\ MaxTokens \in Nat \ {0} /\ K \in Nat \ {0} /\ Ahead \in Nat /\ K <= Ahead
    /\ Depth \in Nat \ {0} /\ Horizon = 1 .. Depth
    /\ Eos \subseteq Tokens /\ NoToken \notin Tokens
    /\ Prompts \subseteq Seq(Tokens) /\ Ngram \in Nat \ {0} /\ NDraft \in Nat /\ NDraft <= Ahead
BY SpecConstants, LookupConstants DEF Depth, Horizon

\* A function on 1 .. m is a sequence of length m.
LEMMA FunctionIsSeq ==
    ASSUME NEW S, NEW m \in Nat, NEW f \in [1 .. m -> S]
    PROVE  f \in Seq(S) /\ Len(f) = m
BY SMT

\* Taking a slice off the front of a concatenation.
LEMMA SliceOfConcat ==
    ASSUME NEW S, NEW s \in Seq(S), NEW t \in Seq(S), NEW k \in 0 .. Len(t)
    PROVE  /\ SubSeq(s \o t, 1, Len(s) + k) \in Seq(S)
           /\ Len(SubSeq(s \o t, 1, Len(s) + k)) = Len(s) + k
           /\ \A j \in 1 .. Len(s) + k :
                 SubSeq(s \o t, 1, Len(s) + k)[j] = IF j <= Len(s) THEN s[j] ELSE t[j - Len(s)]
<1>1. /\ s \o t \in Seq(S) /\ Len(s \o t) = Len(s) + Len(t)
      /\ \A j \in 1 .. Len(s) + Len(t) : (s \o t)[j] = IF j <= Len(s) THEN s[j] ELSE t[j - Len(s)]
  BY ConcatProperties
<1>2. Len(s) \in Nat /\ Len(t) \in Nat
  BY LenProperties
<1> DEFINE st == s \o t
           n == Len(s) + k
<1>3. 1 \in 1 .. Len(st) + 1 /\ n \in 0 .. Len(st) /\ 1 <= n + 1
  BY <1>1, <1>2
<1>4. st \in Seq(S)
  BY <1>1
<1> HIDE DEF st
<1>5. /\ SubSeq(st, 1, n) \in Seq(S)
      /\ Len(SubSeq(st, 1, n)) = n - 1 + 1
      /\ \A j \in 1 .. n - 1 + 1 : SubSeq(st, 1, n)[j] = st[1 + j - 1]
  BY <1>3, <1>4, SliceFacts
<1>6. \A j \in 1 .. n : st[1 + j - 1] = IF j <= Len(s) THEN s[j] ELSE t[j - Len(s)]
  BY <1>1, <1>2 DEF st
<1> QED BY <1>2, <1>5, <1>6 DEF st

\* Forgetting all that was appended gives back what there was.
LEMMA DropAppended ==
    ASSUME NEW S, NEW s \in Seq(S), NEW t \in Seq(S)
    PROVE  SubSeq(s \o t, 1, Len(s)) = s
<1>1. Len(s) \in Nat /\ Len(t) \in Nat
  BY LenProperties
<1>2. /\ SubSeq(s \o t, 1, Len(s) + 0) \in Seq(S)
      /\ Len(SubSeq(s \o t, 1, Len(s) + 0)) = Len(s) + 0
      /\ \A j \in 1 .. Len(s) + 0 :
            SubSeq(s \o t, 1, Len(s) + 0)[j] = IF j <= Len(s) THEN s[j] ELSE t[j - Len(s)]
  BY <1>1, SliceOfConcat
<1>3. Len(s) + 0 = Len(s)
  BY <1>1
<1> DEFINE u == SubSeq(s \o t, 1, Len(s))
<1>4. u \in Seq(S) /\ Len(u) = Len(s) /\ \A j \in 1 .. Len(u) : u[j] = s[j]
  BY <1>1, <1>2, <1>3
<1> HIDE DEF u
<1>5. u = s
  BY <1>4, SeqEqual
<1> QED BY <1>5 DEF u

-----------------------------------------------------------------------------
\* The path of the greedy continuation.

LEMMA PathFacts ==
    ASSUME NEW g \in [Horizon -> Tokens], NEW m \in 0 .. Depth
    PROVE  /\ PathOf(g, m) \in Seq(Pos) /\ Len(PathOf(g, m)) = m
           /\ \A j \in 1 .. m : PathOf(g, m)[j] = [token |-> g[j], approx |-> FALSE]
<1>1. m \in Nat /\ \A j \in 1 .. m : g[j] \in Tokens
  BY Constants
<1>2. PathOf(g, m) \in [1 .. m -> Pos]
  BY <1>1 DEF PathOf, Pos
<1> QED BY <1>1, <1>2, FunctionIsSeq DEF PathOf

LEMMA ExactlyFacts ==
    ASSUME NEW s \in Seq(Tokens)
    PROVE  /\ Exactly(s) \in Seq(Pos) /\ Len(Exactly(s)) = Len(s)
           /\ \A j \in 1 .. Len(s) : Exactly(s)[j] = [token |-> s[j], approx |-> FALSE]
<1>1. Len(s) \in Nat /\ DOMAIN s = 1 .. Len(s) /\ \A j \in 1 .. Len(s) : s[j] \in Tokens
  BY LenProperties, ElementOfSeq
<1>2. Exactly(s) \in [1 .. Len(s) -> Pos]
  BY <1>1 DEF Exactly, Pos
<1> QED BY <1>1, <1>2, FunctionIsSeq DEF Exactly

\* What a forward adds to the cache.
LEMMA PositionsFacts ==
    ASSUME NEW s \in Seq(Tokens), draftGpu \in BOOLEAN
    PROVE  /\ Positions(s) \in Seq(Pos) /\ Len(Positions(s)) = Len(s)
           /\ ~ draftGpu \/ Len(s) # 1 => Positions(s) = Exactly(s)
<1>1. Len(s) \in Nat /\ DOMAIN s = 1 .. Len(s) /\ \A j \in 1 .. Len(s) : s[j] \in Tokens
  BY LenProperties, ElementOfSeq
<1>2. Positions(s) \in [1 .. Len(s) -> Pos]
  BY <1>1 DEF Positions, Pos
<1>3. ~ draftGpu \/ Len(s) # 1 => Positions(s) = Exactly(s)
  BY DEF Positions, Exactly
<1> QED BY <1>1, <1>2, <1>3, FunctionIsSeq

\* Appending the next tokens of the continuation goes along the path.
LEMMA PathExtends ==
    ASSUME NEW g \in [Horizon -> Tokens], NEW m \in Nat, NEW s \in Seq(Tokens),
           m + Len(s) <= Depth, \A j \in 1 .. Len(s) : s[j] = g[m + j]
    PROVE  PathOf(g, m) \o Exactly(s) = PathOf(g, m + Len(s))
<1> DEFINE p == PathOf(g, m)
           q == Exactly(s)
           r == PathOf(g, m + Len(s))
<1>1. Len(s) \in Nat /\ m \in 0 .. Depth /\ m + Len(s) \in 0 .. Depth
  BY LenProperties, Constants
<1>2. /\ p \in Seq(Pos) /\ Len(p) = m
      /\ \A j \in 1 .. m : p[j] = [token |-> g[j], approx |-> FALSE]
  BY <1>1, PathFacts
<1>3. /\ q \in Seq(Pos) /\ Len(q) = Len(s)
      /\ \A j \in 1 .. Len(s) : q[j] = [token |-> s[j], approx |-> FALSE]
  BY ExactlyFacts
<1>4. /\ r \in Seq(Pos) /\ Len(r) = m + Len(s)
      /\ \A j \in 1 .. m + Len(s) : r[j] = [token |-> g[j], approx |-> FALSE]
  BY <1>1, PathFacts
<1> HIDE DEF p, q, r
<1>5. /\ p \o q \in Seq(Pos) /\ Len(p \o q) = m + Len(s)
      /\ \A j \in 1 .. m + Len(s) : (p \o q)[j] = IF j <= m THEN p[j] ELSE q[j - m]
  <2>1. /\ p \o q \in Seq(Pos) /\ Len(p \o q) = Len(p) + Len(q)
        /\ \A j \in 1 .. Len(p) + Len(q) : (p \o q)[j] = IF j <= Len(p) THEN p[j] ELSE q[j - Len(p)]
    BY <1>2, <1>3, ConcatProperties
  <2> QED BY <1>2, <1>3, <2>1
<1>6. ASSUME NEW j \in 1 .. m + Len(s)  PROVE (p \o q)[j] = r[j]
  <2>1. CASE j <= m
    <3>1. j \in 1 .. m
      BY <1>1, <2>1
    <3>2. (p \o q)[j] = p[j]
      BY <1>5, <2>1
    <3> QED BY <1>2, <1>4, <3>1, <3>2
  <2>2. CASE j > m
    <3>1. j - m \in 1 .. Len(s) /\ m + (j - m) = j
      BY <1>1, <2>2
    <3>2. q[j - m] = [token |-> g[j], approx |-> FALSE]
      <4>1. s[j - m] = g[m + (j - m)]
        BY <3>1
      <4> QED BY <1>3, <3>1, <4>1
    <3>3. (p \o q)[j] = q[j - m]
      BY <1>1, <1>5, <2>2
    <3> QED BY <1>4, <3>2, <3>3
  <2>3. j <= m \/ j > m
    BY <1>1
  <2> QED BY <2>1, <2>2, <2>3, Zenon
<1>7. p \o q = r
  <2> DEFINE pq == p \o q
  <2>1. pq \in Seq(Pos) /\ Len(pq) = Len(r) /\ \A j \in 1 .. Len(pq) : pq[j] = r[j]
    BY <1>4, <1>5, <1>6
  <2> HIDE DEF pq
  <2>2. pq = r
    BY <1>4, <2>1, SeqEqual
  <2> QED BY <2>2 DEF pq
<1> QED BY <1>7 DEF p, q, r

\* One token more.
LEMMA PathStep ==
    ASSUME NEW g \in [Horizon -> Tokens], NEW m \in Nat, m + 1 <= Depth
    PROVE  PathOf(g, m) \o Exactly(<<g[m + 1]>>) = PathOf(g, m + 1)
<1>1. g[m + 1] \in Tokens
  BY Constants
<1> DEFINE s == <<g[m + 1]>>
<1>2. s \in Seq(Tokens) /\ Len(s) = 1 /\ s[1] = g[m + 1]
  BY <1>1
<1> HIDE DEF s
<1>3. PathOf(g, m) \o Exactly(s) = PathOf(g, m + Len(s))
  <2>1. m + Len(s) <= Depth
    BY <1>2
  <2>2. \A j \in 1 .. Len(s) : s[j] = g[m + j]
    BY <1>2
  <2> QED BY <1>2, <2>1, <2>2, PathExtends
<1> QED BY <1>2, <1>3

LEMMA PathPrefix ==
    ASSUME NEW g \in [Horizon -> Tokens], NEW m \in 0 .. Depth, NEW k \in 0 .. m
    PROVE  SubSeq(PathOf(g, m), 1, k) = PathOf(g, k)
<1> DEFINE p == PathOf(g, m)
           r == PathOf(g, k)
<1>1. k \in 0 .. Depth /\ m \in Nat /\ k \in Nat
  BY Constants
<1>2. /\ p \in Seq(Pos) /\ Len(p) = m
      /\ \A j \in 1 .. m : p[j] = [token |-> g[j], approx |-> FALSE]
  BY PathFacts
<1>3. /\ r \in Seq(Pos) /\ Len(r) = k
      /\ \A j \in 1 .. k : r[j] = [token |-> g[j], approx |-> FALSE]
  BY <1>1, PathFacts
<1> HIDE DEF p, r
<1>4. 1 \in 1 .. Len(p) + 1 /\ k \in 0 .. Len(p) /\ 1 <= k + 1
  BY <1>1, <1>2
<1>5. /\ SubSeq(p, 1, k) \in Seq(Pos) /\ Len(SubSeq(p, 1, k)) = k - 1 + 1
      /\ \A j \in 1 .. k - 1 + 1 : SubSeq(p, 1, k)[j] = p[1 + j - 1]
  BY <1>2, <1>4, SliceFacts
<1> DEFINE u == SubSeq(p, 1, k)
<1>6. u \in Seq(Pos) /\ Len(u) = Len(r) /\ \A j \in 1 .. Len(u) : u[j] = r[j]
  <2>1. Len(u) = k /\ \A j \in 1 .. k : u[j] = p[j]
    BY <1>1, <1>5
  <2>2. ASSUME NEW j \in 1 .. k  PROVE p[j] = r[j]
    <3>1. j \in 1 .. m
      BY <1>1
    <3> QED BY <1>2, <1>3, <3>1
  <2> QED BY <1>3, <1>5, <2>1, <2>2
<1> HIDE DEF u
<1>7. u = r
  BY <1>3, <1>6, SeqEqual
<1> QED BY <1>7 DEF p, r, u

\* On the path the full model answers with the next token.
LEMMA PathIsOnPath ==
    ASSUME greedy \in [Horizon -> Tokens], NEW m \in 0 .. Depth
    PROVE  OnPath(Path(m)) /\ Answers(Path(m)) = {greedy[m + 1]}
<1>1. Exactly(greedy) = PathOf(greedy, Depth)
  BY Constants DEF Exactly, PathOf
<1>2. Depth \in 0 .. Depth /\ m \in 0 .. Depth
  BY Constants
<1>3. Len(PathOf(greedy, Depth)) = Depth /\ Len(Path(m)) = m /\ Path(m) \in Seq(Pos)
  BY <1>2, PathFacts DEF Path
<1>4. SubSeq(PathOf(greedy, Depth), 1, m) = Path(m)
  BY <1>2, PathPrefix DEF Path
<1>5. SubSeq(Path(m), 1, Len(Path(m))) = Path(m)
  BY <1>3, SubSeqFull
<1>6. OnPath(Path(m))
  BY <1>1, <1>2, <1>3, <1>4, <1>5 DEF OnPath, IsPrefix
<1> QED BY <1>3, <1>6 DEF Answers

\* Appending leaves the front as it was.
LEMMA PrefixOfConcat ==
    ASSUME NEW S, NEW s \in Seq(S), NEW t \in Seq(S), NEW k \in 0 .. Len(s)
    PROVE  SubSeq(s \o t, 1, k) = SubSeq(s, 1, k)
<1> DEFINE st == s \o t
           u == SubSeq(st, 1, k)
           v == SubSeq(s, 1, k)
<1>1. Len(s) \in Nat /\ Len(t) \in Nat
  BY LenProperties
<1>2. /\ st \in Seq(S) /\ Len(st) = Len(s) + Len(t)
      /\ \A j \in 1 .. Len(s) + Len(t) : st[j] = IF j <= Len(s) THEN s[j] ELSE t[j - Len(s)]
  BY ConcatProperties
<1> HIDE DEF st
<1>3. 1 \in 1 .. Len(st) + 1 /\ k \in 0 .. Len(st) /\ 1 <= k + 1
  BY <1>1, <1>2
<1>4. u \in Seq(S) /\ Len(u) = k - 1 + 1 /\ \A j \in 1 .. k - 1 + 1 : u[j] = st[1 + j - 1]
  BY <1>2, <1>3, SliceFacts
<1>5. 1 \in 1 .. Len(s) + 1 /\ 1 <= k + 1
  BY <1>1
<1>6. v \in Seq(S) /\ Len(v) = k - 1 + 1 /\ \A j \in 1 .. k - 1 + 1 : v[j] = s[1 + j - 1]
  BY <1>5, SliceFacts
<1> HIDE DEF u, v
<1>7. ASSUME NEW j \in 1 .. k - 1 + 1  PROVE u[j] = v[j]
  <2>1. 1 + j - 1 = j /\ j \in 1 .. Len(s) + Len(t) /\ j <= Len(s)
    BY <1>1
  <2> QED BY <1>2, <1>4, <1>6, <2>1
<1>8. Len(u) = k - 1 + 1 /\ Len(u) = Len(v)
  BY <1>4, <1>6
<1>9. u = v
  BY <1>4, <1>6, <1>7, <1>8, SeqEqual
<1> QED BY <1>9 DEF u, v, st

\* The tokens of a verification, a step or a truncation: cur and the first k of
\* the draft.
LEMMA FedTokens ==
    ASSUME NEW c \in Tokens, NEW d \in Seq(Tokens), NEW k \in 0 .. Len(d)
    PROVE  /\ <<c>> \o SubSeq(d, 1, k) \in Seq(Tokens)
           /\ Len(<<c>> \o SubSeq(d, 1, k)) = k + 1
           /\ \A j \in 1 .. k + 1 : (<<c>> \o SubSeq(d, 1, k))[j] = IF j = 1 THEN c ELSE d[j - 1]
<1> DEFINE one == <<c>>
           rest == SubSeq(d, 1, k)
<1>1. one \in Seq(Tokens) /\ Len(one) = 1 /\ one[1] = c
  OBVIOUS
<1>2. Len(d) \in Nat /\ k \in Nat
  BY LenProperties
<1>3. 1 \in 1 .. Len(d) + 1 /\ 1 <= k + 1
  BY <1>2
<1>4. rest \in Seq(Tokens) /\ Len(rest) = k - 1 + 1 /\ \A j \in 1 .. k - 1 + 1 : rest[j] = d[1 + j - 1]
  BY <1>3, SliceFacts
<1> HIDE DEF one, rest
<1>5. /\ one \o rest \in Seq(Tokens) /\ Len(one \o rest) = Len(one) + Len(rest)
      /\ \A j \in 1 .. Len(one) + Len(rest) :
            (one \o rest)[j] = IF j <= Len(one) THEN one[j] ELSE rest[j - Len(one)]
  BY <1>1, <1>4, ConcatProperties
<1>6. Len(one) + Len(rest) = k + 1 /\ Len(rest) = k
  BY <1>1, <1>2, <1>4
<1>7. ASSUME NEW j \in 1 .. k + 1  PROVE (one \o rest)[j] = IF j = 1 THEN c ELSE d[j - 1]
  <2>1. CASE j = 1
    BY <1>1, <1>5, <1>6, <2>1
  <2>2. CASE j # 1
    <3>1. j - 1 \in 1 .. k - 1 + 1 /\ ~ (j <= 1) /\ 1 + (j - 1) - 1 = j - 1
      BY <1>2, <2>2
    <3>2. rest[j - 1] = d[j - 1]
      BY <1>4, <3>1
    <3>3. (one \o rest)[j] = rest[j - 1]
      BY <1>1, <1>5, <1>6, <3>1
    <3> QED BY <2>2, <3>2, <3>3
  <2> QED BY <2>1, <2>2
<1> QED BY <1>5, <1>6, <1>7 DEF one, rest

LEMMA CandidateFacts ==
    ASSUME cur \in Tokens, draft \in Seq(Tokens)
    PROVE  /\ Candidate = <<cur>> \o SubSeq(draft, 1, Len(draft))
           /\ Candidate \in Seq(Tokens) /\ Len(Candidate) = Len(draft) + 1
           /\ \A j \in 1 .. Len(draft) + 1 : Candidate[j] = IF j = 1 THEN cur ELSE draft[j - 1]
<1>1. SubSeq(draft, 1, Len(draft)) = draft /\ Len(draft) \in 0 .. Len(draft)
  BY SubSeqFull, LenProperties
<1> QED BY <1>1, FedTokens DEF Candidate

\* Feeding cur and accepted tokens goes along the path.
LEMMA FedAlongPath ==
    ASSUME NEW g \in [Horizon -> Tokens], NEW m \in Nat, NEW d \in Seq(Tokens),
           NEW k \in 0 .. Len(d), m + 1 + k <= Depth,
           \A l \in 1 .. k : d[l] = g[m + 1 + l]
    PROVE  PathOf(g, m) \o Exactly(<<g[m + 1]>> \o SubSeq(d, 1, k)) = PathOf(g, m + 1 + k)
<1>1. Len(d) \in Nat /\ k \in Nat /\ m + 1 \in 1 .. Depth
  BY LenProperties, Constants
<1>2. g[m + 1] \in Tokens
  BY <1>1, Constants
<1> DEFINE s == <<g[m + 1]>> \o SubSeq(d, 1, k)
<1>3. /\ s \in Seq(Tokens) /\ Len(s) = k + 1
      /\ \A j \in 1 .. k + 1 : s[j] = IF j = 1 THEN g[m + 1] ELSE d[j - 1]
  BY <1>2, FedTokens
<1> HIDE DEF s
<1>4. ASSUME NEW j \in 1 .. Len(s)  PROVE s[j] = g[m + j]
  <2>1. CASE j = 1
    BY <1>1, <1>3, <2>1
  <2>2. CASE j # 1
    <3>0. j \in 1 .. k + 1
      BY <1>3
    <3>1. j \in 1 .. k + 1 /\ j - 1 \in 1 .. k /\ m + 1 + (j - 1) = m + j
      BY <1>1, <2>2, <3>0
    <3>2. d[j - 1] = g[m + 1 + (j - 1)]
      BY <3>1
    <3> QED BY <1>3, <2>2, <3>1, <3>2
  <2> QED BY <2>1, <2>2
<1>5. m + Len(s) = m + 1 + k /\ m + Len(s) <= Depth
  BY <1>1, <1>3
<1>6. PathOf(g, m) \o Exactly(s) = PathOf(g, m + Len(s))
  BY <1>3, <1>4, <1>5, PathExtends
<1> QED BY <1>5, <1>6 DEF s

\* What the head takes in, accepted tokens and the model's own one after them, goes
\* along the path as well.
LEMMA HeadAlongPath ==
    ASSUME NEW g \in [Horizon -> Tokens], NEW m \in Nat, NEW d \in Seq(Tokens),
           NEW t \in Tokens, NEW k \in 0 .. Len(d), m + k + 2 <= Depth,
           \A l \in 1 .. k : d[l] = g[m + 1 + l], t = g[m + k + 2]
    PROVE  PathOf(g, m + 1) \o Exactly(SubSeq(d, 1, k) \o <<t>>) = PathOf(g, m + k + 2)
<1> DEFINE u == SubSeq(d, 1, k)
           w == <<t>>
           s == u \o w
<1>1. Len(d) \in Nat /\ k \in Nat
  BY LenProperties
<1>2. 1 \in 1 .. Len(d) + 1 /\ 1 <= k + 1 /\ k - 1 + 1 = k
  BY <1>1
<1>3. u \in Seq(Tokens) /\ Len(u) = k - 1 + 1 /\ \A j \in 1 .. k - 1 + 1 : u[j] = d[1 + j - 1]
  BY <1>2, SliceFacts
<1>4. w \in Seq(Tokens) /\ Len(w) = 1 /\ w[1] = t
  OBVIOUS
<1> HIDE DEF u, w
<1>5. /\ s \in Seq(Tokens) /\ Len(s) = Len(u) + Len(w)
      /\ \A j \in 1 .. Len(u) + Len(w) : s[j] = IF j <= Len(u) THEN u[j] ELSE w[j - Len(u)]
  BY <1>3, <1>4, ConcatProperties
<1>6. Len(u) = k /\ Len(u) + Len(w) = k + 1
  BY <1>2, <1>3, <1>4
<1> HIDE DEF s
<1>7. ASSUME NEW j \in 1 .. k + 1  PROVE s[j] = g[m + 1 + j]
  <2>1. CASE j \in 1 .. k
    <3>1. 1 + j - 1 = j /\ j <= k
      BY <1>1, <2>1
    <3>2. u[j] = d[j]
      BY <1>2, <1>3, <2>1, <3>1
    <3>3. s[j] = u[j]
      BY <1>5, <1>6, <3>1
    <3>4. d[j] = g[m + 1 + j]
      BY <2>1
    <3> QED BY <3>2, <3>3, <3>4
  <2>2. CASE j = k + 1
    <3>1. ~ (j <= k) /\ j - k = 1 /\ m + k + 2 = m + 1 + j
      BY <1>1, <2>2
    <3>2. s[j] = w[1]
      BY <1>5, <1>6, <3>1
    <3> QED BY <1>4, <3>1, <3>2
  <2>3. j \in 1 .. k \/ j = k + 1
    BY <1>1
  <2> QED BY <2>1, <2>2, <2>3, Zenon
<1>8. m + 1 \in Nat /\ m + 1 + Len(s) = m + k + 2 /\ m + 1 + Len(s) <= Depth /\ Len(s) = k + 1
  BY <1>1, <1>5, <1>6
<1>9. PathOf(g, m + 1) \o Exactly(s) = PathOf(g, m + 1 + Len(s))
  BY <1>5, <1>7, <1>8, PathExtends
<1> QED BY <1>8, <1>9 DEF s, u, w

\* A token yielded in its turn.
LEMMA Emitted ==
    ASSUME NEW g \in [Horizon -> Tokens], NEW e \in Seq(Tokens), NEW f, NEW t \in Tokens,
           f = Append(e, t), t = g[Len(e) + 1],
           \A j \in 1 .. Len(e) : e[j] = g[j]
    PROVE  /\ f \in Seq(Tokens) /\ Len(f) = Len(e) + 1
           /\ \A j \in 1 .. Len(f) : f[j] = g[j]
           /\ f[Len(f)] = t /\ \A j \in 1 .. Len(e) : f[j] = e[j]
<1>1. Len(e) \in Nat
  BY LenProperties
<1>2. /\ f \in Seq(Tokens) /\ Len(f) = Len(e) + 1
      /\ \A j \in 1 .. Len(e) : f[j] = e[j]
      /\ f[Len(e) + 1] = t
  BY AppendProperties
<1>3. ASSUME NEW j \in 1 .. Len(f)  PROVE f[j] = g[j]
  <2>1. j \in 1 .. Len(e) \/ j = Len(e) + 1
    BY <1>1, <1>2
  <2> QED BY <1>2, <2>1
<1> QED BY <1>2, <1>3

-----------------------------------------------------------------------------
\* Where a generator is tells what holds there.
LEMMA Where ==
    ASSUME GeneratorsInv
    PROVE  /\ pc = "idle" => AtIdle
           /\ pc = "start" => AtStart
           /\ pc = "end" => AtEnd
           /\ Persistent /\ pc \notin {"idle", "start", "end"} => OverConversation
           /\ drafter = "lookup" /\ pc \notin {"idle", "start", "end"} => OverHistory
           /\ drafter = "wave" /\ pc \notin {"idle", "start", "end"} => pc = "loop" /\ InWave
<1>1. AtIdle => drafter = "none"
  BY DEF AtIdle
<1>2. OverConversation => Persistent /\ pc \notin {"idle", "start", "end"}
  BY DEF OverConversation, Drafting
<1>3. OverHistory => drafter = "lookup" /\ pc \notin {"idle", "start", "end"}
  BY DEF OverHistory
<1>4. Persistent => drafter \in {"self", "head"}
  BY DEF Persistent
<1> QED BY <1>1, <1>2, <1>3, <1>4 DEF GeneratorsInv, Phase

-----------------------------------------------------------------------------
\* The steps of the generators over a conversation's cache, one lemma for each.

InConversation == GeneratorsInv /\ Persistent /\ drafter' = drafter
NoHead == UNCHANGED headVars

\* What the places of a cycle have in common.
LEMMA Cycle ==
    ASSUME InConversation
    PROVE  /\ Typed /\ Flags /\ drafter \in {"self", "head"}
           /\ pc \notin {"idle", "start", "end"} =>
                 /\ OverConversation /\ Running /\ Told /\ Open
                 /\ outcome = "running" /\ greedy \in [Horizon -> Tokens]
                 /\ Count \in 0 .. MaxTokens /\ Len(emitted) = Count
                 /\ Len(draft) \in 0 .. Ahead /\ draft \in Seq(Tokens)
                 /\ \A m \in 0 .. Depth :
                       /\ Path(m) = PathOf(greedy, m)
                       /\ Path(m) \in Seq(Pos) /\ Len(Path(m)) = m
                 /\ \A m \in 0 .. Depth - 1 : greedy[m + 1] \in Tokens
<1>1. Typed /\ Flags /\ drafter \in {"self", "head"}
  BY DEF InConversation, GeneratorsInv, Persistent
<1> SUFFICES ASSUME pc \notin {"idle", "start", "end"}
             PROVE  /\ OverConversation /\ Running /\ Told /\ Open
                    /\ outcome = "running" /\ greedy \in [Horizon -> Tokens]
                    /\ Count \in 0 .. MaxTokens /\ Len(emitted) = Count
                    /\ Len(draft) \in 0 .. Ahead /\ draft \in Seq(Tokens)
                    /\ \A m \in 0 .. Depth :
                          /\ Path(m) = PathOf(greedy, m)
                          /\ Path(m) \in Seq(Pos) /\ Len(Path(m)) = m
                    /\ \A m \in 0 .. Depth - 1 : greedy[m + 1] \in Tokens
  BY <1>1
<1>2. OverConversation
  BY Where DEF InConversation
<1>3. Running /\ Told /\ Open /\ outcome = "running" /\ greedy \in [Horizon -> Tokens]
  BY <1>2 DEF OverConversation, Running
<1>4. Len(emitted) \in Nat /\ Len(draft) \in Nat /\ draft \in Seq(Tokens)
  BY <1>1, LenProperties DEF Typed
<1>5. Count \in 0 .. MaxTokens /\ Len(emitted) = Count /\ Len(draft) \in 0 .. Ahead
  BY <1>1, <1>4, Constants DEF Typed, Count
<1>6. \A m \in 0 .. Depth :
          Path(m) = PathOf(greedy, m) /\ Path(m) \in Seq(Pos) /\ Len(Path(m)) = m
  BY <1>3, PathFacts DEF Path
<1>7. \A m \in 0 .. Depth - 1 : greedy[m + 1] \in Tokens
  BY <1>3, Constants
<1> QED BY <1>2, <1>3, <1>4, <1>5, <1>6, <1>7

\* What does not change from one place of a cycle to the next, no token yielded.
LEMMA Silent ==
    ASSUME InConversation, pc \notin {"idle", "start", "end"}, UNCHANGED outVars
    PROVE  /\ Persistent' /\ Running' /\ Told' /\ Open' /\ Count' = Count
           /\ \A m \in 0 .. Depth : Path(m)' = Path(m)
           /\ greedy' = greedy /\ emitted' = emitted
<1>1. Persistent /\ Running /\ Told /\ Open /\ UNCHANGED <<drafter, greedy, emitted, outcome>>
  BY Cycle DEF InConversation, outVars
<1> QED BY <1>1 DEF Persistent, Running, Told, Open, Count, Path

LEMMA StepCycleStart ==
    ASSUME InConversation, drafter = "self", CycleStart, NoHead
    PROVE  GeneratorsInv'
<1> USE DEF NoHead, headVars, flags
<1>1. /\ pc = "cycle" /\ Count < MaxTokens /\ snap' = rec /\ fed' = 0
      /\ draftGpu' = TRUE /\ stuck' = FALSE /\ draft' = <<>> /\ pc' = "draft"
      /\ UNCHANGED outVars
      /\ UNCHANGED <<drafter, kv, rec, cur, verified, acc, i, nfeed, mc, mcFed, lag>>
  BY DEF CycleStart, Count, InConversation, outVars
<1>2. AtCycle
  BY <1>1, Cycle DEF OverConversation, Drafting
<1>3. Count >= 1 /\ Count \in Nat /\ kv = Path(Count - 1) /\ rec = Path(Count - 1) /\ cur = greedy[Count]
  BY <1>1, <1>2, Cycle DEF AtCycle, Rest
<1>4. Count - 1 \in 0 .. Depth /\ Count - 1 \in 0 .. MaxTokens /\ (Count - 1) + 1 = Count
  BY <1>1, <1>3, Constants DEF Depth
<1>5. Len(kv) = Count - 1 /\ SubSeq(kv, 1, Count - 1) = Path(Count - 1)
  <2>1. Len(kv) = Count - 1 /\ kv \in Seq(Pos)
    BY <1>1, <1>3, <1>4, Cycle
  <2> QED BY <1>3, <2>1, SubSeqFull
<1>6. Typed'
  <2>1. draft' \in Seq(Tokens) /\ Len(draft') = 0
    BY <1>1
  <2>2. Typed
    BY Cycle
  <2>3. draftGpu' \in BOOLEAN /\ stuck' \in BOOLEAN
    BY <1>1, Zenon
  <2>4. /\ snap' \in Seq(Pos) /\ fed' \in 0 .. Ahead + 1
    BY <1>1, <2>2, Constants DEF Typed
  <2> QED BY <1>1, <2>1, <2>2, <2>3, <2>4, Constants DEF Typed, Count, outVars
<1>7. Flags'
  BY <1>1 DEF Flags, Drafting
<1>8. AtDraft'
  <2>1. From(Count - 1)'
    BY <1>1, <1>3, <1>4, Silent DEF From
  <2>2. Path(Count - 1)' = Path(Count - 1) /\ Count' = Count /\ Len(draft') = 0
    BY <1>1, <1>4, Silent DEF Path
  <2> QED BY <1>1, <1>3, <1>4, <1>5, <2>1, <2>2, Constants DEF AtDraft
<1> QED BY <1>1, <1>6, <1>7, <1>8, Silent DEF GeneratorsInv, Phase, OverConversation, Drafting

LEMMA StepHeadCycleStart ==
    ASSUME InConversation, drafter = "head", HeadCycleStart
    PROVE  GeneratorsInv'
<1> USE DEF flags
<1>1. /\ pc = "cycle" /\ Count < MaxTokens /\ snap' = rec /\ fed' = 0 /\ mcFed' = 0
      /\ pc' = IF K = 1 THEN "drafted" ELSE "draft"
      /\ UNCHANGED outVars
      /\ UNCHANGED <<drafter, kv, rec, draftGpu, stuck, cur, verified, acc, i, nfeed, mc, lag>>
  BY DEF HeadCycleStart, Count, InConversation, outVars
<1>2. PICK t \in Tokens : draft' = <<t>>
  BY DEF HeadCycleStart
<1>a. draft' \in Seq(Tokens) /\ Len(draft') = 1
  BY <1>2
<1>3. AtCycle
  BY <1>1, Cycle DEF OverConversation, Drafting
<1>4. /\ Count >= 1 /\ Count \in Nat /\ kv = Path(Count - 1) /\ rec = Path(Count - 1)
      /\ cur = greedy[Count] /\ mc = Path(Count)
  BY <1>1, <1>3, Cycle DEF AtCycle, Rest, HeadAt
<1>5. /\ Count - 1 \in 0 .. Depth /\ Count \in 0 .. Depth
      /\ Count - 1 \in 0 .. MaxTokens /\ (Count - 1) + 1 = Count
  BY <1>1, <1>4, Constants DEF Depth
<1>6. Len(mc) = Count /\ SubSeq(mc, 1, Count) = Path(Count)
  <2>1. Len(mc) = Count /\ mc \in Seq(Pos)
    BY <1>1, <1>4, <1>5, Cycle
  <2> QED BY <1>4, <2>1, SubSeqFull
<1>7. Typed'
  BY <1>1, <1>a, Cycle, Constants DEF Typed, Count, outVars
<1>8. Flags'
  BY <1>1, Cycle DEF Flags, Drafting
<1>9. AtDraft'
  <2>1. From(Count - 1)'
    BY <1>1, <1>4, <1>5, Silent DEF From
  <2>2. /\ Path(Count - 1)' = Path(Count - 1) /\ Path(Count)' = Path(Count) /\ Count' = Count
    BY <1>1, <1>5, Silent DEF Path
  <2> QED BY <1>1, <1>a, <1>4, <1>5, <1>6, <2>1, <2>2, Constants DEF AtDraft, Rest
<1> QED BY <1>1, <1>7, <1>8, <1>9, Silent DEF GeneratorsInv, Phase, OverConversation, Drafting

\* What a draft in progress looks like.
LEMMA InDraft ==
    ASSUME InConversation, Drafting
    PROVE  /\ AtDraft /\ Count >= 1 /\ Count < MaxTokens /\ Count - 1 \in 0 .. Depth
           /\ Count - 1 \in 0 .. MaxTokens /\ Count \in 0 .. Depth
           /\ snap = Path(Count - 1) /\ cur = greedy[Count] /\ cur \in Tokens
           /\ pc \notin {"idle", "start", "end"}
<1>1. pc \in {"draft", "draftForward", "headForward", "drafted"}
  BY DEF Drafting
<1>2. AtDraft
  BY <1>1, Cycle DEF OverConversation
<1>3. Count >= 1 /\ Count < MaxTokens /\ snap = Path(Count - 1) /\ cur = greedy[(Count - 1) + 1]
  BY <1>2 DEF AtDraft, From
<1>4. Count \in 0 .. MaxTokens /\ Count - 1 \in 0 .. Depth - 1
  <2>1. Count \in 0 .. MaxTokens
    BY <1>1, Cycle
  <2> QED BY <1>3, <2>1, Constants DEF Depth
<1>5. (Count - 1) + 1 = Count /\ greedy[(Count - 1) + 1] \in Tokens
  BY <1>1, <1>4, Cycle
<1> QED BY <1>1, <1>2, <1>3, <1>4, <1>5, Constants DEF Depth

LEMMA DraftInputFacts ==
    ASSUME cur \in Tokens, draft \in Seq(Tokens)
    PROVE  DraftInput \in Seq(Tokens) /\ Len(DraftInput) = 1
<1>1. draft # <<>> => Last(draft) \in Tokens
  <2> SUFFICES ASSUME draft # <<>>  PROVE draft[Len(draft)] \in Tokens
    BY DEF Last
  <2>1. Len(draft) \in Nat \ {0}
    BY EmptySeq
  <2>2. Len(draft) \in 1 .. Len(draft)
    BY <2>1
  <2> QED BY <2>2, ElementOfSeq
<1> DEFINE t == IF draft = <<>> THEN cur ELSE Last(draft)
<1>2. t \in Tokens
  BY <1>1
<1> HIDE DEF t
<1>3. <<t>> \in Seq(Tokens) /\ Len(<<t>>) = 1
  BY <1>2
<1> QED BY <1>3 DEF t, DraftInput

LEMMA StepDraftForward ==
    ASSUME InConversation, drafter = "self", DraftForward, NoHead
    PROVE  GeneratorsInv'
<1> USE DEF NoHead, headVars, flags, locals
<1>1. /\ pc = "draft" /\ kv' = kv \o Positions(DraftInput) /\ pc' = "draftForward"
      /\ UNCHANGED outVars
      /\ UNCHANGED <<drafter, rec, snap, draftGpu, stuck, cur, fed, draft, verified, acc, i, nfeed,
                     mc, mcFed, lag>>
  BY DEF DraftForward, Advance, InConversation
<1>2. Drafting /\ Drafting'
  BY <1>1 DEF Drafting
<1>3. /\ fed = Len(draft) /\ Len(kv) = Count - 1 + fed /\ SubSeq(kv, 1, Count - 1) = Path(Count - 1)
      /\ Len(draft) < K /\ Len(draft) \in Nat
  <2>1. Len(draft) \in Nat
    BY <1>1, Cycle
  <2> QED BY <1>1, <1>2, <2>1, InDraft, Constants DEF AtDraft
<1>4. Typed /\ draft \in Seq(Tokens)
  BY <1>1, Cycle
<1>5. DraftInput \in Seq(Tokens) /\ Len(DraftInput) = 1
  BY <1>2, <1>4, InDraft, DraftInputFacts
<1>6. Positions(DraftInput) \in Seq(Pos) /\ Len(Positions(DraftInput)) = 1 /\ kv \in Seq(Pos)
  BY <1>4, <1>5, PositionsFacts DEF Typed
<1>7. kv' \in Seq(Pos) /\ Len(kv') = Len(kv) + 1
  BY <1>1, <1>6, ConcatProperties
<1>8. SubSeq(kv', 1, Count - 1) = Path(Count - 1)
  <2>1. Count - 1 \in 0 .. Len(kv)
    BY <1>2, <1>3, InDraft
  <2> QED BY <1>1, <1>3, <1>6, <2>1, PrefixOfConcat
<1>9. Typed'
  BY <1>1, <1>4, <1>7 DEF Typed, Count, outVars
<1>10. Flags'
  BY <1>1, <1>2, Cycle DEF Flags, Drafting
<1>11. AtDraft'
  <2>1. Path(Count - 1)' = Path(Count - 1) /\ Count' = Count /\ greedy' = greedy
    BY <1>1, <1>2, InDraft, Silent DEF Path
  <2>2. From(Count - 1)'
    BY <1>1, <1>2, <2>1, InDraft DEF AtDraft, From
  <2>3. Len(kv') = Count - 1 + fed + 1
    BY <1>3, <1>7
  <2> QED BY <1>1, <1>2, <1>3, <1>8, <2>1, <2>2, <2>3, InDraft DEF AtDraft
<1> QED BY <1>1, <1>2, <1>9, <1>10, <1>11, Silent DEF GeneratorsInv, Phase, OverConversation

LEMMA StepDraftToken ==
    ASSUME InConversation, drafter = "self", DraftToken, NoHead
    PROVE  GeneratorsInv'
<1> USE DEF NoHead, headVars, flags
<1>1. /\ pc = "draftForward" /\ rec' = rec \o Positions(DraftInput) /\ fed' = fed + 1
      /\ pc' = (IF Len(draft') = K THEN "drafted" ELSE "draft")
      /\ UNCHANGED outVars
      /\ UNCHANGED <<drafter, kv, snap, draftGpu, stuck, cur, verified, acc, i, nfeed,
                     mc, mcFed, lag>>
  BY DEF DraftToken, Complete, InConversation
<1>a. PICK t \in Tokens : draft' = Append(draft, t)
  BY DEF DraftToken
<1>2. Drafting /\ Drafting'
  BY <1>1 DEF Drafting
<1>3. /\ fed = Len(draft) /\ Len(kv) = Count - 1 + fed + 1
      /\ SubSeq(kv, 1, Count - 1) = Path(Count - 1)
      /\ Len(draft) < K /\ Len(draft) \in Nat
  <2>1. Len(draft) \in Nat
    BY <1>1, Cycle
  <2> QED BY <1>1, <1>2, <2>1, InDraft, Constants DEF AtDraft
<1>4. Typed /\ draft \in Seq(Tokens)
  BY <1>1, Cycle
<1>5. DraftInput \in Seq(Tokens) /\ Len(DraftInput) = 1
  BY <1>2, <1>4, InDraft, DraftInputFacts
<1>6. Positions(DraftInput) \in Seq(Pos) /\ rec \in Seq(Pos)
  BY <1>4, <1>5, PositionsFacts DEF Typed
<1>7. rec' \in Seq(Pos)
  BY <1>1, <1>6, ConcatProperties
<1>8. draft' \in Seq(Tokens) /\ Len(draft') = Len(draft) + 1
  BY <1>4, <1>a, AppendProperties
<1>9. Typed'
  <2>1. fed' \in 0 .. Ahead + 1 /\ Len(draft') <= Ahead /\ pc \notin {"rewind", "truncate", "truncateForward", "kept", "end"}
    BY <1>1, <1>3, <1>8, Constants
  <2> QED BY <1>1, <1>4, <1>7, <1>8, <2>1 DEF Typed, Count, outVars
<1>10. Flags'
  BY <1>1, <1>2, Cycle DEF Flags, Drafting
<1>11. AtDraft'
  <2>1. Path(Count - 1)' = Path(Count - 1) /\ Count' = Count /\ greedy' = greedy
    BY <1>1, <1>2, InDraft, Silent DEF Path
  <2>2. From(Count - 1)'
    BY <1>1, <1>2, <2>1, InDraft DEF AtDraft, From
  <2>3. Len(kv') = Count - 1 + fed' /\ fed' = Len(draft') /\ Len(draft') <= K
    <3>1. fed' = Len(draft') /\ Len(kv') = Count - 1 + fed + 1 /\ Count \in Nat /\ fed \in Nat
      BY <1>1, <1>2, <1>3, <1>8, InDraft
    <3>2. Len(draft') <= K
      BY <1>3, <1>8, Constants
    <3>3. Count - 1 + fed + 1 = Count - 1 + fed'
      BY <1>1, <3>1
    <3> QED BY <3>1, <3>2, <3>3
  <2> QED BY <1>1, <1>2, <1>3, <2>1, <2>2, <2>3, InDraft DEF AtDraft
<1> QED BY <1>1, <1>2, <1>9, <1>10, <1>11, Silent DEF GeneratorsInv, Phase, OverConversation

LEMMA StepHeadDraftForward ==
    ASSUME InConversation, drafter = "head", HeadDraftForward
    PROVE  GeneratorsInv'
<1> USE DEF flags, cacheVars, locals
<1>1. /\ pc = "draft" /\ mc' = mc \o OwnDraft(Last(draft)) /\ pc' = "headForward"
      /\ UNCHANGED outVars
      /\ UNCHANGED <<drafter, kv, rec, snap, draftGpu, stuck, cur, fed, draft, verified, acc, i,
                     nfeed, mcFed, lag>>
  BY DEF HeadDraftForward, InConversation
<1>2. Drafting /\ Drafting'
  BY <1>1 DEF Drafting
<1>3. /\ Rest(Count - 1) /\ fed = 0 /\ Len(draft) = mcFed + 1
      /\ Len(mc) = Count + mcFed /\ SubSeq(mc, 1, Count) = Path(Count)
      /\ Len(draft) < K /\ Len(draft) \in Nat
  <2>1. Len(draft) \in Nat
    BY <1>1, Cycle
  <2>2. Typed /\ Count \in Nat
    BY <1>1, Cycle
  <2> QED BY <1>1, <1>2, <2>1, <2>2, InDraft, Constants DEF AtDraft, Typed
<1>4. Typed /\ draft \in Seq(Tokens) /\ mcFed \in Nat /\ mc \in Seq(Pos)
  BY <1>1, Cycle DEF Typed
<1>5. OwnDraft(Last(draft)) \in Seq(Pos) /\ Len(OwnDraft(Last(draft))) = 1
  <2>1. Len(draft) \in 1 .. Len(draft)
    BY <1>3, <1>4
  <2>2. Last(draft) \in Tokens
    BY <1>4, <2>1, ElementOfSeq DEF Last
  <2>3. [token |-> Last(draft), approx |-> TRUE] \in Pos
    BY <2>2 DEF Pos
  <2> QED BY <2>3 DEF OwnDraft
<1>6. mc' \in Seq(Pos) /\ Len(mc') = Len(mc) + 1
  BY <1>1, <1>4, <1>5, ConcatProperties
<1>7. SubSeq(mc', 1, Count) = Path(Count)
  <2>1. Count \in 0 .. Len(mc)
    BY <1>2, <1>3, <1>4, InDraft
  <2> QED BY <1>1, <1>3, <1>4, <1>5, <2>1, PrefixOfConcat
<1>8. Typed'
  BY <1>1, <1>4, <1>6 DEF Typed, Count, outVars
<1>9. Flags'
  BY <1>1, <1>2, Cycle DEF Flags, Drafting
<1>10. AtDraft'
  <2>1. /\ Path(Count - 1)' = Path(Count - 1) /\ Path(Count)' = Path(Count)
        /\ Count' = Count /\ greedy' = greedy
    BY <1>1, <1>2, InDraft, Silent DEF Path
  <2>2. From(Count - 1)'
    BY <1>1, <1>2, <2>1, InDraft DEF AtDraft, From
  <2>3. Len(mc') = Count + mcFed + 1
    BY <1>3, <1>6
  <2>4. Rest(Count - 1)'
    BY <1>1, <1>3, <2>1 DEF Rest
  <2> QED BY <1>1, <1>2, <1>3, <1>7, <2>1, <2>2, <2>3, <2>4, InDraft, Constants DEF AtDraft
<1> QED BY <1>1, <1>2, <1>8, <1>9, <1>10, Silent DEF GeneratorsInv, Phase, OverConversation

LEMMA StepHeadDraft ==
    ASSUME InConversation, drafter = "head", HeadDraft
    PROVE  GeneratorsInv'
<1> USE DEF flags, cacheVars
<1>1. /\ pc = "headForward" /\ mcFed' = mcFed + 1
      /\ pc' = (IF Len(draft') = K THEN "drafted" ELSE "draft")
      /\ UNCHANGED outVars
      /\ UNCHANGED <<drafter, kv, rec, snap, draftGpu, stuck, cur, fed, verified, acc, i, nfeed,
                     mc, lag>>
  BY DEF HeadDraft, InConversation
<1>a. PICK t \in Tokens : draft' = Append(draft, t)
  BY DEF HeadDraft
<1>2. Drafting /\ Drafting'
  BY <1>1 DEF Drafting
<1>3. /\ Rest(Count - 1) /\ fed = 0 /\ Len(draft) = mcFed + 1
      /\ Len(mc) = Count + mcFed + 1 /\ SubSeq(mc, 1, Count) = Path(Count)
      /\ Len(draft) < K /\ Len(draft) \in Nat
  <2>1. Len(draft) \in Nat
    BY <1>1, Cycle
  <2> QED BY <1>1, <1>2, <2>1, InDraft, Constants DEF AtDraft
<1>4. Typed /\ draft \in Seq(Tokens) /\ mcFed \in Nat /\ mc \in Seq(Pos)
  BY <1>1, Cycle DEF Typed
<1>5. draft' \in Seq(Tokens) /\ Len(draft') = Len(draft) + 1
  BY <1>4, <1>a, AppendProperties
<1>6. Typed'
  <2>1. mcFed' \in Nat /\ Len(draft') <= Ahead
    BY <1>1, <1>3, <1>4, <1>5, Constants
  <2> QED BY <1>1, <1>4, <1>5, <2>1 DEF Typed, Count, outVars
<1>7. Flags'
  BY <1>1, <1>2, Cycle DEF Flags, Drafting
<1>8. AtDraft'
  <2>1. /\ Path(Count - 1)' = Path(Count - 1) /\ Path(Count)' = Path(Count)
        /\ Count' = Count /\ greedy' = greedy
    BY <1>1, <1>2, InDraft, Silent DEF Path
  <2>2. From(Count - 1)'
    BY <1>1, <1>2, <2>1, InDraft DEF AtDraft, From
  <2>3. Len(mc') = Count + mcFed' /\ Len(draft') = mcFed' + 1 /\ Len(draft') <= K
    BY <1>1, <1>2, <1>3, <1>4, <1>5, InDraft, Constants
  <2>4. Rest(Count - 1)'
    BY <1>1, <1>3, <2>1 DEF Rest
  <2> QED BY <1>1, <1>2, <1>3, <2>1, <2>2, <2>3, <2>4, InDraft DEF AtDraft
<1> QED BY <1>1, <1>2, <1>6, <1>7, <1>8, Silent DEF GeneratorsInv, Phase, OverConversation

\* The draft is over: what it fed is forgotten.
LEMMA StepDraftRewind ==
    ASSUME InConversation, drafter = "self", DraftRewind, NoHead
    PROVE  GeneratorsInv'
<1> USE DEF NoHead, headVars, locals
<1>1. /\ pc = "drafted" /\ draftGpu' = FALSE /\ rec' = snap
      /\ kv' = SubSeq(kv, 1, Len(kv) - fed) /\ pc' = "rewound"
      /\ UNCHANGED outVars
      /\ UNCHANGED <<drafter, snap, stuck, cur, fed, draft, verified, acc, i, nfeed,
                     mc, mcFed, lag>>
  BY DEF DraftRewind, Rollback, InConversation
<1>2. Drafting
  BY <1>1 DEF Drafting
<1>3. /\ Len(draft) = K /\ fed = K
      /\ kv' = Path(Count - 1) /\ rec' = Path(Count - 1)
  <2>1. /\ fed = Len(draft) /\ Len(kv) = Count - 1 + fed + 0
        /\ SubSeq(kv, 1, Count - 1) = Path(Count - 1) /\ Len(draft) = K
    BY <1>1, <1>2, InDraft DEF AtDraft
  <2>2. Len(kv) - fed = Count - 1
    BY <1>2, <2>1, InDraft, Constants
  <2> QED BY <1>1, <1>2, <2>1, <2>2, InDraft
<1>4. Typed /\ Path(Count - 1) \in Seq(Pos)
  BY <1>1, <1>2, InDraft, Cycle
<1>5. Typed'
  <2>1. kv' \in Seq(Pos) /\ rec' \in Seq(Pos)
    BY <1>3, <1>4
  <2>2. draftGpu' \in BOOLEAN
    BY <1>1, Zenon
  <2> QED BY <1>1, <1>4, <2>1, <2>2 DEF Typed, Count, outVars
<1>6. Flags'
  BY <1>1 DEF Flags, Drafting
<1>7. AtRewound'
  <2>1. Path(Count - 1)' = Path(Count - 1) /\ Count' = Count /\ greedy' = greedy
    BY <1>1, <1>2, InDraft, Silent DEF Path
  <2>2. From(Count - 1)'
    BY <1>1, <1>2, <2>1, InDraft DEF AtDraft, From
  <2> QED BY <1>1, <1>2, <1>3, <2>1, <2>2, InDraft DEF AtRewound, Rest
<1> QED BY <1>1, <1>2, <1>5, <1>6, <1>7, Silent, InDraft DEF GeneratorsInv, Phase, OverConversation

LEMMA StepHeadDraftRewind ==
    ASSUME InConversation, drafter = "head", HeadDraftRewind
    PROVE  GeneratorsInv'
<1> USE DEF flags, cacheVars, locals
<1>1. /\ pc = "drafted" /\ mc' = SubSeq(mc, 1, Len(mc) - mcFed) /\ pc' = "headRewound"
      /\ UNCHANGED outVars
      /\ UNCHANGED <<drafter, kv, rec, snap, draftGpu, stuck, cur, fed, draft, verified, acc, i,
                     nfeed, mcFed, lag>>
  BY DEF HeadDraftRewind, TrimHead, InConversation
<1>2. Drafting
  BY <1>1 DEF Drafting
<1>3. Typed /\ mcFed \in Nat /\ Path(Count) \in Seq(Pos)
  BY <1>1, <1>2, InDraft, Cycle DEF Typed
<1>4. Len(draft) = K /\ fed = 0 /\ Rest(Count - 1) /\ mc' = Path(Count)
  <2>1. /\ Len(mc) = Count + mcFed + 0 /\ SubSeq(mc, 1, Count) = Path(Count)
        /\ Len(draft) = K /\ fed = 0 /\ Rest(Count - 1)
    BY <1>1, <1>2, InDraft DEF AtDraft
  <2>2. Len(mc) - mcFed = Count
    BY <1>2, <1>3, <2>1, InDraft
  <2> QED BY <1>1, <2>1, <2>2
<1>5. Typed'
  BY <1>1, <1>3, <1>4 DEF Typed, Count, outVars
<1>6. Flags'
  BY <1>1, Cycle DEF Flags, Drafting
<1>7. AtRewound'
  <2>1. /\ Path(Count - 1)' = Path(Count - 1) /\ Path(Count)' = Path(Count)
        /\ Count' = Count /\ greedy' = greedy
    BY <1>1, <1>2, InDraft, Silent DEF Path
  <2>2. From(Count - 1)' /\ Rest(Count - 1)'
    BY <1>1, <1>2, <1>4, <2>1, InDraft DEF AtDraft, From, Rest
  <2> QED BY <1>1, <1>2, <1>4, <2>1, <2>2, InDraft DEF AtRewound
<1> QED BY <1>1, <1>2, <1>5, <1>6, <1>7, Silent, InDraft DEF GeneratorsInv, Phase, OverConversation

\* What holds when the draft is taken back.
LEMMA Rewound ==
    ASSUME InConversation, pc \in {"rewound", "headRewound"}
    PROVE  /\ AtRewound /\ Typed /\ Flags /\ drafter \in {"self", "head"}
           /\ Count >= 1 /\ Count < MaxTokens /\ Count - 1 \in 0 .. Depth
           /\ Count - 1 \in 0 .. MaxTokens /\ Count \in 0 .. Depth
           /\ Rest(Count - 1) /\ Len(draft) = K
           /\ snap = Path(Count - 1) /\ cur = greedy[Count] /\ (Count - 1) + 1 = Count
<1>1. AtRewound /\ Typed /\ Flags /\ drafter \in {"self", "head"}
  BY Cycle DEF OverConversation, Drafting
<1>2. /\ Count >= 1 /\ Count < MaxTokens /\ Rest(Count - 1) /\ Len(draft) = K
      /\ snap = Path(Count - 1) /\ cur = greedy[(Count - 1) + 1]
  BY <1>1 DEF AtRewound, From
<1>3. Count \in 0 .. MaxTokens
  BY Cycle
<1>4. /\ Count - 1 \in 0 .. Depth /\ Count - 1 \in 0 .. MaxTokens /\ Count \in 0 .. Depth
      /\ (Count - 1) + 1 = Count
  BY <1>2, <1>3, Constants DEF Depth
<1> QED BY <1>1, <1>2, <1>4

LEMMA StepDraftDone ==
    ASSUME InConversation, drafter = "self", DraftDone, NoHead
    PROVE  GeneratorsInv'
<1> USE DEF NoHead, headVars, flags, cacheVars
<1>1. /\ pc = "rewound" /\ fed' = 0 /\ pc' = "verify"
      /\ UNCHANGED outVars
      /\ UNCHANGED <<drafter, kv, rec, snap, draftGpu, stuck, cur, draft, verified, acc, i, nfeed,
                     mc, mcFed, lag>>
  BY DEF DraftDone, InConversation
<1>2. Typed'
  <2>1. fed' \in 0 .. Ahead + 1
    BY <1>1, Constants
  <2> QED BY <1>1, <2>1, Rewound DEF Typed, Count, outVars
<1>3. Flags'
  BY <1>1, Rewound DEF Flags, Drafting
<1>4. AtVerify'
  <2>1. Path(Count - 1)' = Path(Count - 1) /\ Count' = Count /\ greedy' = greedy
    BY <1>1, Rewound, Silent DEF Path
  <2>2. From(Count - 1)' /\ HeadAt(Count)'
    BY <1>1, <2>1, Rewound DEF From, HeadAt
  <2> QED BY <1>1, <2>1, <2>2, Rewound DEF AtVerify, Rest
<1> QED BY <1>1, <1>2, <1>3, <1>4, Silent DEF GeneratorsInv, Phase, OverConversation

LEMMA StepHeadDraftDone ==
    ASSUME InConversation, drafter = "head", HeadDraftDone
    PROVE  GeneratorsInv'
<1> USE DEF flags, cacheVars, locals
<1>1. /\ pc = "headRewound" /\ mcFed' = 0 /\ pc' = "verify"
      /\ UNCHANGED outVars
      /\ UNCHANGED <<drafter, kv, rec, snap, draftGpu, stuck, cur, fed, draft, verified, acc, i,
                     nfeed, mc, lag>>
  BY DEF HeadDraftDone, InConversation
<1>2. fed = 0 /\ mc = Path(Count)
  BY <1>1, Rewound DEF AtRewound
<1>3. Typed'
  BY <1>1, Rewound DEF Typed, Count, outVars
<1>4. Flags'
  BY <1>1, Rewound DEF Flags, Drafting
<1>5. AtVerify'
  <2>1. /\ Path(Count - 1)' = Path(Count - 1) /\ Path(Count)' = Path(Count)
        /\ Count' = Count /\ greedy' = greedy
    BY <1>1, Rewound, Silent DEF Path
  <2>2. From(Count - 1)' /\ HeadAt(Count)'
    BY <1>1, <1>2, <2>1, Rewound DEF From, HeadAt
  <2> QED BY <1>1, <1>2, <2>1, <2>2, Rewound DEF AtVerify, Rest
<1> QED BY <1>1, <1>3, <1>4, <1>5, Silent DEF GeneratorsInv, Phase, OverConversation

-----------------------------------------------------------------------------
\* Verification, shared by self, head and lookup up to the answers.

\* The answers to a draft over the path are right as far as the draft is.
LEMMA AnswersTruthful ==
    ASSUME greedy \in [Horizon -> Tokens], draft \in Seq(Tokens), NEW m \in Nat,
           m + Len(draft) + 2 <= Depth, cur = greedy[m + 1],
           NEW c, c = Path(m) \o Exactly(Candidate),
           NEW v \in [1 .. Len(draft) + 1 -> Tokens],
           \A j \in 1 .. Len(draft) + 1 :
              v[j] \in Answers(SubSeq(c, 1, Len(c) - (Len(draft) + 1) + j))
    PROVE  /\ Len(v) = Len(draft) + 1
           /\ \A j \in 1 .. Len(draft) + 1 :
                 (\A l \in 1 .. j - 1 : draft[l] = greedy[m + 1 + l]) => v[j] = greedy[m + 1 + j]
<1>1. Len(draft) \in Nat /\ m \in 0 .. Depth /\ cur \in Tokens
  BY LenProperties, Constants
<1>2. Len(v) = Len(draft) + 1
  BY <1>1, FunctionIsSeq
<1> SUFFICES ASSUME NEW j \in 1 .. Len(draft) + 1,
                    \A l \in 1 .. j - 1 : draft[l] = greedy[m + 1 + l]
             PROVE  v[j] = greedy[m + 1 + j]
  BY <1>2
<1> DEFINE p == Path(m)
           q == Exactly(Candidate)
           r == Path(m + j)
           u == SubSeq(p \o q, 1, m + j)
<1>3. /\ p \in Seq(Pos) /\ Len(p) = m
      /\ \A l \in 1 .. m : p[l] = [token |-> greedy[l], approx |-> FALSE]
  BY <1>1, PathFacts DEF Path
<1>4. /\ Candidate \in Seq(Tokens) /\ Len(Candidate) = Len(draft) + 1
      /\ \A l \in 1 .. Len(draft) + 1 : Candidate[l] = IF l = 1 THEN cur ELSE draft[l - 1]
  BY <1>1, CandidateFacts
<1>5. /\ q \in Seq(Pos) /\ Len(q) = Len(draft) + 1
      /\ \A l \in 1 .. Len(draft) + 1 : q[l] = [token |-> Candidate[l], approx |-> FALSE]
  BY <1>4, ExactlyFacts
<1>6. m + j \in 0 .. Depth
  BY <1>1, Constants
<1>7. /\ r \in Seq(Pos) /\ Len(r) = m + j
      /\ \A l \in 1 .. m + j : r[l] = [token |-> greedy[l], approx |-> FALSE]
  BY <1>6, PathFacts DEF Path
<1> HIDE DEF p, q, r
<1>8. Len(c) - (Len(draft) + 1) + j = m + j /\ c = p \o q
  <2>1. Len(p \o q) = Len(p) + Len(q)
    BY <1>3, <1>5, ConcatProperties
  <2> QED BY <1>1, <1>3, <1>5, <2>1 DEF p, q
<1>9. /\ u \in Seq(Pos) /\ Len(u) = m + j
      /\ \A l \in 1 .. m + j : u[l] = IF l <= m THEN p[l] ELSE q[l - m]
  <2>1. j \in 0 .. Len(q)
    BY <1>1, <1>5
  <2>2. /\ SubSeq(p \o q, 1, Len(p) + j) \in Seq(Pos)
        /\ Len(SubSeq(p \o q, 1, Len(p) + j)) = Len(p) + j
        /\ \A l \in 1 .. Len(p) + j :
              SubSeq(p \o q, 1, Len(p) + j)[l] = IF l <= Len(p) THEN p[l] ELSE q[l - Len(p)]
    BY <1>3, <1>5, <2>1, SliceOfConcat
  <2> QED BY <1>3, <2>2
<1> HIDE DEF u
<1>10. ASSUME NEW l \in 1 .. m + j  PROVE u[l] = r[l]
  <2>1. CASE l <= m
    <3>1. l \in 1 .. m
      BY <1>1, <2>1
    <3> QED BY <1>3, <1>7, <1>9, <2>1, <3>1
  <2>2. CASE l = m + 1
    <3>1. l - m = 1 /\ ~ (l <= m) /\ 1 \in 1 .. Len(draft) + 1
      BY <1>1, <2>2
    <3>2. q[1] = [token |-> greedy[l], approx |-> FALSE]
      BY <1>4, <1>5, <2>2, <3>1
    <3> QED BY <1>7, <1>9, <3>1, <3>2
  <2>3. CASE l > m + 1
    <3>0. l \in Int /\ m \in Int /\ j \in Int /\ l <= m + j /\ j <= Len(draft) + 1
      BY <1>1
    <3>1. /\ ~ (l <= m) /\ l - m \in 1 .. Len(draft) + 1 /\ l - m # 1
          /\ (l - m) - 1 \in 1 .. j - 1 /\ m + 1 + ((l - m) - 1) = l
      <4> HIDE <1>1
      <4>1. l - m > 1 /\ l - m <= j
        BY <2>3, <3>0
      <4>2. Len(draft) \in Nat
        BY <1>1
      <4> QED BY <3>0, <4>1, <4>2
    <3>2. draft[(l - m) - 1] = greedy[m + 1 + ((l - m) - 1)]
      BY <3>1
    <3>3. q[l - m] = [token |-> greedy[l], approx |-> FALSE]
      <4>1. q[l - m] = [token |-> Candidate[l - m], approx |-> FALSE]
        BY <1>5, <3>1
      <4>2. Candidate[l - m] = draft[(l - m) - 1]
        BY <1>4, <3>1
      <4> QED BY <3>1, <3>2, <4>1, <4>2
    <3> QED BY <1>7, <1>9, <3>1, <3>3
  <2>4. l <= m \/ l = m + 1 \/ l > m + 1
    BY <1>1
  <2> QED BY <2>1, <2>2, <2>3, <2>4, Zenon
<1>11. u = r
  BY <1>7, <1>9, <1>10, SeqEqual
<1>12. Answers(Path(m + j)) = {greedy[m + j + 1]}
  BY <1>6, PathIsOnPath
<1>13. v[j] \in Answers(SubSeq(c, 1, m + j))
  BY <1>8
<1>14. SubSeq(c, 1, m + j) = Path(m + j)
  <2>1. SubSeq(p \o q, 1, m + j) = Path(m + j)
    BY <1>11 DEF u, r
  <2> QED BY <1>8, <2>1
<1>15. m + j + 1 = m + 1 + j
  OBVIOUS
<1> QED BY <1>12, <1>13, <1>14, <1>15

\* What the places of a cycle after the draft have in common.
LEMMA InCycle ==
    ASSUME InConversation, Count >= 1, Count < MaxTokens, From(Count - 1),
           pc \notin {"idle", "start", "end"}
    PROVE  /\ Count - 1 \in 0 .. Depth /\ Count - 1 \in 0 .. MaxTokens /\ Count \in 0 .. Depth
           /\ Count \in Nat /\ Count - 1 \in Nat /\ (Count - 1) + 1 = Count
           /\ (Count - 1) + Ahead + 2 <= Depth /\ Count + Ahead + 1 <= Depth
           /\ snap = Path(Count - 1) /\ cur = greedy[Count] /\ cur \in Tokens
           /\ cur = greedy[(Count - 1) + 1]
           /\ Path(Count - 1)' = PathOf(greedy', Count' - 1)
<1>1. snap = Path(Count - 1) /\ cur = greedy[(Count - 1) + 1]
  BY DEF From
<1>2. Count \in 0 .. MaxTokens
  BY Cycle
<1>3. /\ Count - 1 \in 0 .. Depth - 1 /\ Count - 1 \in 0 .. MaxTokens /\ Count \in 0 .. Depth
      /\ (Count - 1) + 1 = Count
      /\ (Count - 1) + Ahead + 2 <= Depth /\ Count + Ahead + 1 <= Depth
  BY <1>2, Constants DEF Depth
<1>4. greedy[(Count - 1) + 1] \in Tokens
  BY <1>3, Cycle
<1> QED BY <1>1, <1>2, <1>3, <1>4, Constants DEF Path

\* The places that verify rest on the same facts.
LEMMA VerifyFacts ==
    ASSUME InConversation, pc \in {"verify", "verifyForward", "judge"}
    PROVE  /\ Count >= 1 /\ Count < MaxTokens /\ From(Count - 1) /\ HeadAt(Count)
           /\ Len(draft) = K /\ draft \in Seq(Tokens) /\ ~ draftGpu
           /\ Candidate \in Seq(Tokens) /\ Len(Candidate) = K + 1
           /\ Positions(Candidate) = Exactly(Candidate)
           /\ Exactly(Candidate) \in Seq(Pos) /\ Len(Exactly(Candidate)) = K + 1
           /\ cur \in Tokens
           /\ pc \in {"verify", "verifyForward"} => AtVerify
           /\ pc = "judge" => AtJudge
<1>0. pc \notin {"idle", "start", "end"}
  OBVIOUS
<1>1. (pc \in {"verify", "verifyForward"} => AtVerify) /\ (pc = "judge" => AtJudge)
  BY Cycle DEF OverConversation, Drafting
<1>2. Count >= 1 /\ Count < MaxTokens /\ From(Count - 1) /\ HeadAt(Count) /\ Len(draft) = K
  BY <1>1 DEF AtVerify, AtJudge
<1>3. draft \in Seq(Tokens) /\ cur \in Tokens /\ Typed
  BY <1>0, <1>2, Cycle, InCycle
<1>4. ~ draftGpu
  BY Cycle DEF Flags, Drafting
<1>5. Candidate \in Seq(Tokens) /\ Len(Candidate) = K + 1
  BY <1>2, <1>3, CandidateFacts
<1>6. Exactly(Candidate) \in Seq(Pos) /\ Len(Exactly(Candidate)) = K + 1
  BY <1>5, ExactlyFacts
<1>7. draftGpu \in BOOLEAN
  BY <1>3 DEF Typed
<1>8. Positions(Candidate) = Exactly(Candidate)
  BY <1>4, <1>5, <1>7, PositionsFacts
<1> QED BY <1>1, <1>2, <1>3, <1>4, <1>5, <1>6, <1>8

LEMMA StepVerifyForward ==
    ASSUME InConversation, VerifyForward, NoHead
    PROVE  GeneratorsInv'
<1> USE DEF NoHead, headVars, flags, locals
<1>1. /\ pc = "verify" /\ kv' = kv \o Positions(Candidate) /\ pc' = "verifyForward"
      /\ UNCHANGED outVars
      /\ UNCHANGED <<drafter, rec, snap, draftGpu, stuck, cur, fed, draft, verified, acc, i, nfeed,
                     mc, mcFed, lag>>
  BY DEF VerifyForward, Advance, InConversation
<1>2. /\ AtVerify /\ Count >= 1 /\ Count < MaxTokens /\ From(Count - 1) /\ HeadAt(Count)
      /\ Len(draft) = K /\ Positions(Candidate) = Exactly(Candidate)
      /\ Exactly(Candidate) \in Seq(Pos)
  BY <1>1, VerifyFacts
<1>3. kv = Path(Count - 1) /\ rec = Path(Count - 1) /\ fed = 0
  BY <1>1, <1>2 DEF AtVerify
<1>4. Typed /\ Path(Count - 1) \in Seq(Pos)
  BY <1>1, <1>2, InCycle, Cycle
<1>5. kv' \in Seq(Pos) /\ kv' = Path(Count - 1) \o Exactly(Candidate)
  BY <1>1, <1>2, <1>3, <1>4, ConcatProperties
<1>6. Typed'
  BY <1>1, <1>4, <1>5 DEF Typed, Count, outVars
<1>7. Flags'
  BY <1>1, Cycle DEF Flags, Drafting
<1>8. AtVerify'
  <2>1. /\ Path(Count - 1)' = Path(Count - 1) /\ Path(Count)' = Path(Count)
        /\ Count' = Count /\ greedy' = greedy
    BY <1>1, <1>2, InCycle, Silent DEF Path
  <2>2. From(Count - 1)' /\ HeadAt(Count)'
    BY <1>1, <1>2, <2>1 DEF From, HeadAt
  <2>3. Exactly(Candidate)' = Exactly(Candidate)
    BY <1>1 DEF Exactly, Candidate
  <2> QED BY <1>1, <1>2, <1>3, <1>5, <2>1, <2>2, <2>3 DEF AtVerify
<1> QED BY <1>1, <1>6, <1>7, <1>8, Silent DEF GeneratorsInv, Phase, OverConversation

LEMMA StepVerifyTokens ==
    ASSUME InConversation, VerifyTokens, NoHead
    PROVE  GeneratorsInv'
<1> USE DEF NoHead, headVars, flags
<1>1. /\ pc = "verifyForward" /\ rec' = rec \o Positions(Candidate) /\ fed' = Len(Candidate)
      /\ verified' \in [1 .. fed' -> Tokens]
      /\ pc' = "judge"
      /\ UNCHANGED outVars
      /\ UNCHANGED <<drafter, kv, snap, draftGpu, stuck, cur, draft, acc, i, nfeed, mc, mcFed, lag>>
  BY DEF VerifyTokens, Complete, InConversation
<1>2. /\ AtVerify /\ Count >= 1 /\ Count < MaxTokens /\ From(Count - 1) /\ HeadAt(Count)
      /\ Len(draft) = K /\ draft \in Seq(Tokens) /\ Positions(Candidate) = Exactly(Candidate)
      /\ Exactly(Candidate) \in Seq(Pos) /\ Len(Candidate) = K + 1
  BY <1>1, VerifyFacts
<1>3. kv = Path(Count - 1) \o Exactly(Candidate) /\ rec = Path(Count - 1)
  BY <1>1, <1>2 DEF AtVerify
<1>4. Typed /\ Path(Count - 1) \in Seq(Pos)
  BY <1>1, <1>2, InCycle, Cycle
<1>5. rec' = kv /\ fed' = K + 1 /\ verified' \in [1 .. K + 1 -> Tokens] /\ kv \in Seq(Pos)
  BY <1>1, <1>2, <1>3, <1>4 DEF Typed
<1>6. \A j \in 1 .. K + 1 : verified'[j] \in Answers(SubSeq(kv, 1, Len(kv) - (K + 1) + j))
  BY <1>1, <1>5 DEF VerifyTokens
<1>7. Len(verified') = K + 1 /\ verified' \in Seq(Tokens)
  BY <1>5, FunctionIsSeq, Constants
<1>8. \A j \in 1 .. K + 1 :
          (\A l \in 1 .. j - 1 : draft[l] = greedy[Count - 1 + 1 + l])
             => verified'[j] = greedy[Count - 1 + 1 + j]
  <2> DEFINE m == Count - 1
             v == verified'
  <2>1. m \in Nat /\ m + Len(draft) + 2 <= Depth /\ cur = greedy[m + 1]
    <3>1. m \in Nat /\ m + Ahead + 2 <= Depth /\ cur = greedy[m + 1]
      BY <1>1, <1>2, InCycle
    <3> HIDE DEF m
    <3>2. m + Len(draft) + 2 <= Depth
      BY <1>2, <3>1, Constants
    <3> QED BY <3>1, <3>2
  <2>2. greedy \in [Horizon -> Tokens]
    BY <1>1, Cycle
  <2>3. kv = Path(m) \o Exactly(Candidate)
    BY <1>3
  <2>4. /\ v \in [1 .. Len(draft) + 1 -> Tokens]
        /\ \A j \in 1 .. Len(draft) + 1 :
              v[j] \in Answers(SubSeq(kv, 1, Len(kv) - (Len(draft) + 1) + j))
    BY <1>2, <1>5, <1>6
  <2> HIDE DEF m, v
  <2>5. \A j \in 1 .. Len(draft) + 1 :
           (\A l \in 1 .. j - 1 : draft[l] = greedy[m + 1 + l]) => v[j] = greedy[m + 1 + j]
    BY <1>2, <2>1, <2>2, <2>3, <2>4, AnswersTruthful
  <2> QED BY <1>2, <2>5 DEF m, v
<1>9. Typed'
  <2>1. fed' \in 0 .. Ahead + 1
    BY <1>5, Constants
  <2>2. rec' \in Seq(Pos)
    BY <1>5
  <2> QED BY <1>1, <1>4, <1>7, <2>1, <2>2 DEF Typed, Count, outVars
<1>10. Flags'
  BY <1>1, Cycle DEF Flags, Drafting
<1>11. AtJudge'
  <2>1. /\ Path(Count - 1)' = Path(Count - 1) /\ Path(Count)' = Path(Count)
        /\ Count' = Count /\ greedy' = greedy
    BY <1>1, <1>2, InCycle, Silent DEF Path
  <2>2. From(Count - 1)' /\ HeadAt(Count)'
    BY <1>1, <1>2, <2>1 DEF From, HeadAt
  <2>3. Exactly(Candidate)' = Exactly(Candidate)
    BY <1>1 DEF Exactly, Candidate
  <2>4. Truthful(Count - 1)'
    BY <1>1, <1>2, <1>7, <1>8, <2>1 DEF Truthful
  <2> QED BY <1>1, <1>2, <1>3, <1>5, <2>1, <2>2, <2>3, <2>4 DEF AtJudge
<1> QED BY <1>1, <1>9, <1>10, <1>11, Silent DEF GeneratorsInv, Phase, OverConversation

\* Accepted tokens are on the path, one after the other, and so is the model's
\* answer to the last of them.
LEMMA AgreeOnPath ==
    ASSUME NEW m \in Nat, Truthful(m), Len(draft) = K, NEW a \in 0 .. K,
           \A j \in 1 .. a : draft[j] = verified[j]
    PROVE  \A l \in 1 .. a + 1 : verified[l] = greedy[m + 1 + l]
<1> DEFINE P == {x \in 0 .. a + 1 : \A l \in 1 .. x : verified[l] = greedy[m + 1 + l]}
<1>1. a + 1 \in Nat /\ Len(verified) = K + 1
  BY Constants DEF Truthful
<1>2. 0 \in P
  BY <1>1
<1>3. ASSUME NEW x \in 0 .. a + 1 - 1, x \in P  PROVE x + 1 \in P
  <2>1. x \in 0 .. a /\ x + 1 \in 0 .. a + 1 /\ x + 1 \in 1 .. K + 1
    BY Constants
  <2>2. \A l \in 1 .. (x + 1) - 1 : draft[l] = greedy[m + 1 + l]
    <3> SUFFICES ASSUME NEW l \in 1 .. (x + 1) - 1  PROVE draft[l] = greedy[m + 1 + l]
      OBVIOUS
    <3>1. l \in 1 .. a /\ l \in 1 .. x
      BY <2>1
    <3> QED BY <1>3, <3>1
  <2>3. verified[x + 1] = greedy[m + 1 + (x + 1)]
    BY <1>1, <2>1, <2>2 DEF Truthful
  <2>4. ASSUME NEW l \in 1 .. x + 1  PROVE verified[l] = greedy[m + 1 + l]
    <3>1. l \in 1 .. x \/ l = x + 1
      BY <2>1
    <3> QED BY <1>3, <2>3, <3>1
  <2> QED BY <2>1, <2>4
<1> HIDE DEF P
<1>4. \A x \in 0 .. a + 1 - 1 : x \in P => x + 1 \in P
  BY <1>3
<1>5. \A x \in 0 .. a + 1 : x \in P
  BY <1>1, <1>2, <1>4, UpTo
<1>6. a + 1 \in P
  BY <1>1, <1>5
<1> QED BY <1>6 DEF P

LEMMA StepJudge ==
    ASSUME InConversation, Judge, NoHead
    PROVE  GeneratorsInv'
<1> USE DEF NoHead, headVars, flags
<1> DEFINE m == Count - 1
<1>1. /\ pc = "judge" /\ i' = 0 /\ acc' \in 0 .. K
      /\ \A j \in 1 .. acc' : draft[j] = verified[j]
      /\ UNCHANGED outVars
      /\ UNCHANGED <<drafter, snap, draftGpu, stuck, cur, fed, draft, verified, nfeed, mc, mcFed, lag>>
      /\ \/ acc' = K /\ pc' = AfterVerify /\ UNCHANGED <<kv, rec>>
         \/ acc' < K /\ Rollback(fed) /\ pc' = "rejected"
  BY DEF Judge, Agree, InConversation
<1>2. /\ AtJudge /\ Count >= 1 /\ Count < MaxTokens /\ From(m) /\ HeadAt(Count)
      /\ Len(draft) = K /\ draft \in Seq(Tokens) /\ Candidate \in Seq(Tokens)
      /\ Exactly(Candidate) \in Seq(Pos) /\ Len(Exactly(Candidate)) = K + 1 /\ cur \in Tokens
  BY <1>1, VerifyFacts
<1>3. /\ m \in Nat /\ m \in 0 .. Depth /\ m + Ahead + 2 <= Depth /\ m + 1 = Count
      /\ snap = Path(m) /\ cur = greedy[m + 1]
  BY <1>1, <1>2, InCycle
<1>4. kv = Path(m) \o Exactly(Candidate) /\ rec = kv /\ fed = K + 1 /\ Truthful(m)
  BY <1>2 DEF AtJudge
<1>5. /\ Typed /\ Path(m) \in Seq(Pos) /\ Len(Path(m)) = m /\ greedy \in [Horizon -> Tokens]
      /\ Path(m) = PathOf(greedy, m) /\ nfeed = 0
  BY <1>1, <1>3, Cycle DEF Typed
<1>b. m' = m
  BY <1>1 DEF Count, outVars
<1> HIDE DEF m
<1>6. \A l \in 1 .. acc' + 1 : verified[l] = greedy[m + 1 + l]
  BY <1>1, <1>2, <1>3, <1>4, AgreeOnPath
<1>7. Len(verified) = Len(draft) + 1
  BY <1>4 DEF Truthful
<1>8. /\ Path(m)' = Path(m) /\ Path(Count)' = Path(Count) /\ Count' = Count /\ greedy' = greedy
      /\ (Count - 1)' = m /\ From(m)' /\ HeadAt(Count)' /\ m' = m
  <2>1. Path(m)' = Path(m) /\ Path(Count)' = Path(Count) /\ Count' = Count /\ greedy' = greedy
    BY <1>1, <1>3, <1>b, Silent DEF Path
  <2>2. (Count - 1)' = m
    BY <2>1 DEF m
  <2>3. From(m)' /\ HeadAt(Count)'
    BY <1>1, <1>2, <1>b, <2>1 DEF From, HeadAt
  <2> QED BY <1>b, <2>1, <2>2, <2>3
<1>9. Judged(m)'
  <2>1. acc' <= Len(draft) /\ \A l \in 1 .. acc' : draft[l] = verified[l]
    BY <1>1, <1>2
  <2> QED BY <1>1, <1>6, <1>7, <1>8, <2>1 DEF Judged
<1>10. Flags'
  BY <1>1, Cycle DEF Flags, Drafting, AfterVerify
<1>a. acc' \in 0 .. Ahead /\ i' \in 0 .. acc' /\ nfeed' \in 0 .. acc' /\ acc' \in Nat
  <2>1. acc' \in Nat /\ acc' <= K
    BY <1>1, Constants
  <2> QED BY <1>1, <1>5, <2>1, Constants
<1>11. CASE acc' = K /\ pc' = AfterVerify /\ UNCHANGED <<kv, rec>>
  <2>1. kv = PathOf(greedy, m + 1 + K)
    <3>1. Candidate = <<greedy[m + 1]>> \o SubSeq(draft, 1, K)
      BY <1>2, <1>3, CandidateFacts
    <3>2. K \in 0 .. Len(draft) /\ m + 1 + K <= Depth
      BY <1>2, <1>3, Constants
    <3>3. ASSUME NEW l \in 1 .. K  PROVE draft[l] = greedy[m + 1 + l]
      BY <1>1, <1>6, <1>11, Constants
    <3>4. PathOf(greedy, m) \o Exactly(<<greedy[m + 1]>> \o SubSeq(draft, 1, K)) = PathOf(greedy, m + 1 + K)
      BY <1>2, <1>3, <1>5, <3>2, <3>3, FedAlongPath
    <3> QED BY <1>4, <1>5, <3>1, <3>4
  <2>2. Typed'
    BY <1>1, <1>5, <1>11, <1>a DEF Typed, Count, outVars, AfterVerify
  <2>3. Emitting(m)'
    <3>1. m + acc' + 2 <= Depth
      BY <1>3, <1>11, Constants
    <3>2. Rest(m + 1 + acc)' /\ fed' = acc' + 1
      BY <1>1, <1>4, <1>8, <1>11, <2>1 DEF Rest, Path
    <3> QED BY <1>8, <1>9, <3>1, <3>2 DEF Emitting
  <2>4. CASE drafter = "head"
    <3>1. AtRealign' /\ pc' = "realign"
      BY <1>1, <1>2, <1>8, <1>11, <2>3, <2>4 DEF AtRealign, AfterVerify
    <3> QED BY <1>1, <1>10, <2>2, <3>1, Silent DEF GeneratorsInv, Phase, OverConversation
  <2>5. CASE drafter # "head"
    <3>0. (Count - 1 - i)' = m
      BY <1>1, <1>3, <1>8
    <3>1. AtEmit' /\ pc' = "emit"
      BY <1>1, <1>2, <1>8, <1>11, <2>3, <2>5, <3>0 DEF AtEmit, AfterVerify, HeadAt
    <3> QED BY <1>1, <1>10, <2>2, <3>1, Silent DEF GeneratorsInv, Phase, OverConversation
  <2> QED BY <2>4, <2>5
<1>12. CASE acc' < K /\ Rollback(fed) /\ pc' = "rejected"
  <2>1. kv' = Path(m) /\ rec' = Path(m)
    <3>1. Len(kv) - fed = Len(Path(m))
      <4>1. Len(kv) = Len(Path(m)) + (K + 1)
        <5>1. Len(Path(m) \o Exactly(Candidate)) = Len(Path(m)) + Len(Exactly(Candidate))
          BY <1>2, <1>5, ConcatProperties
        <5> QED BY <1>2, <1>4, <5>1
      <4> QED BY <1>3, <1>4, <1>5, <4>1, Constants
    <3>2. SubSeq(Path(m) \o Exactly(Candidate), 1, Len(Path(m))) = Path(m)
      BY <1>2, <1>5, DropAppended
    <3> QED BY <1>3, <1>4, <1>12, <3>1, <3>2 DEF Rollback
  <2>2. Typed'
    BY <1>1, <1>5, <1>12, <1>a, <2>1 DEF Typed, Count, outVars
  <2>3. AtReadvance'
    BY <1>1, <1>2, <1>4, <1>8, <1>9, <1>12, <2>1 DEF AtReadvance
  <2> QED BY <1>1, <1>10, <1>12, <2>2, <2>3, Silent DEF GeneratorsInv, Phase, OverConversation
<1> QED BY <1>1, <1>11, <1>12

LEMMA StepRejectDone ==
    ASSUME InConversation, RejectDone, NoHead
    PROVE  GeneratorsInv'
<1> USE DEF NoHead, headVars, flags, cacheVars
<1>1. /\ pc = "rejected" /\ fed' = 0 /\ pc' = "readvance"
      /\ UNCHANGED outVars
      /\ UNCHANGED <<drafter, kv, rec, snap, draftGpu, stuck, cur, draft, verified, acc, i, nfeed,
                     mc, mcFed, lag>>
  BY DEF RejectDone, InConversation
<1>2. AtReadvance /\ Typed /\ Flags
  BY <1>1, Cycle DEF OverConversation, Drafting
<1>3. /\ Count >= 1 /\ Count < MaxTokens /\ From(Count - 1) /\ HeadAt(Count)
      /\ Judged(Count - 1) /\ kv = Path(Count - 1) /\ rec = Path(Count - 1)
      /\ i = 0 /\ Len(draft) = K
  BY <1>1, <1>2 DEF AtReadvance
<1>4. Typed'
  <2>1. fed' \in 0 .. Ahead + 1
    BY <1>1, Constants
  <2> QED BY <1>1, <1>2, <2>1 DEF Typed, Count, outVars
<1>5. Flags'
  BY <1>1, <1>2 DEF Flags, Drafting
<1>6. AtReadvance'
  <2>1. /\ Path(Count - 1)' = Path(Count - 1) /\ Path(Count)' = Path(Count)
        /\ Count' = Count /\ greedy' = greedy
    BY <1>1, <1>3, InCycle, Silent DEF Path
  <2>2. From(Count - 1)' /\ HeadAt(Count)' /\ Judged(Count - 1)'
    BY <1>1, <1>3, <2>1 DEF From, HeadAt, Judged
  <2> QED BY <1>1, <1>3, <2>1, <2>2 DEF AtReadvance
<1> QED BY <1>1, <1>4, <1>5, <1>6, Silent DEF GeneratorsInv, Phase, OverConversation

\* A step over accepted tokens: what it feeds.
LEMMA ReadvanceFacts ==
    ASSUME InConversation, pc \in {"readvance", "readvanceForward"}
    PROVE  /\ AtReadvance /\ Count >= 1 /\ Count < MaxTokens /\ From(Count - 1) /\ HeadAt(Count)
           /\ Len(draft) = K /\ draft \in Seq(Tokens)
           /\ acc <= K /\ acc \in Nat /\ Judged(Count - 1)
           /\ Positions(Confirmed) \in Seq(Pos)
           /\ Path(Count - 1) \o Positions(Confirmed) = Path(Count + acc)
           /\ Count + acc \in 0 .. Depth
           /\ pc \notin {"idle", "start", "end"}
<1>1. AtReadvance /\ pc \notin {"idle", "start", "end"}
  BY Cycle DEF OverConversation, Drafting
<1>2. /\ Count >= 1 /\ Count < MaxTokens /\ From(Count - 1) /\ HeadAt(Count)
      /\ Len(draft) = K /\ Judged(Count - 1)
  BY <1>1 DEF AtReadvance
<1>3. draft \in Seq(Tokens) /\ Typed /\ Flags /\ greedy \in [Horizon -> Tokens]
  BY <1>1, Cycle
<1>4. acc <= K /\ acc \in Nat
  BY <1>2, <1>3, Constants DEF Typed, Judged
<1>5. /\ Count - 1 \in Nat /\ (Count - 1) + Ahead + 2 <= Depth /\ cur = greedy[(Count - 1) + 1]
      /\ cur \in Tokens /\ Count \in Nat
  BY <1>1, <1>2, InCycle
<1>6. acc \in 0 .. Len(draft)
  BY <1>2, <1>4, Constants
<1>7. Confirmed \in Seq(Tokens)
  BY <1>3, <1>5, <1>6, FedTokens DEF Confirmed
<1>8. Positions(Confirmed) = Exactly(Confirmed) /\ Positions(Confirmed) \in Seq(Pos)
  BY <1>3, <1>7, PositionsFacts, Cycle DEF Flags, Drafting, Typed
<1> DEFINE m == Count - 1
<1>9. /\ m \in Nat /\ m + 1 + acc <= Depth /\ cur = greedy[m + 1] /\ m + 1 + acc = Count + acc
      /\ \A l \in 1 .. acc : draft[l] = greedy[m + 1 + l]
  <2>1. m \in Nat /\ m + 1 + acc <= Depth /\ cur = greedy[m + 1] /\ m + 1 + acc = Count + acc
    BY <1>4, <1>5, Constants
  <2>2. ASSUME NEW l \in 1 .. acc  PROVE draft[l] = greedy[m + 1 + l]
    BY <1>2, <1>4 DEF Judged
  <2> QED BY <2>1, <2>2
<1>10. Path(m) = PathOf(greedy, m) /\ Path(m + 1 + acc) = PathOf(greedy, m + 1 + acc)
  BY DEF Path
<1> HIDE DEF m
<1>11. PathOf(greedy, m) \o Exactly(<<greedy[m + 1]>> \o SubSeq(draft, 1, acc)) = PathOf(greedy, m + 1 + acc)
  BY <1>3, <1>6, <1>9, FedAlongPath
<1>12. Path(m) \o Positions(Confirmed) = Path(m + 1 + acc)
  BY <1>8, <1>9, <1>10, <1>11 DEF Confirmed
<1>13. Path(Count - 1) \o Positions(Confirmed) = Path(Count + acc)
  BY <1>9, <1>12 DEF m
<1>14. Count + acc \in 0 .. Depth
  BY <1>4, <1>5, <1>9, Constants
<1> QED BY <1>1, <1>2, <1>3, <1>4, <1>8, <1>13, <1>14

LEMMA StepReadvanceForward ==
    ASSUME InConversation, ReadvanceForward, NoHead
    PROVE  GeneratorsInv'
<1> USE DEF NoHead, headVars, flags, locals
<1>1. /\ pc = "readvance" /\ kv' = kv \o Positions(Confirmed) /\ pc' = "readvanceForward"
      /\ UNCHANGED outVars
      /\ UNCHANGED <<drafter, rec, snap, draftGpu, stuck, cur, fed, draft, verified, acc, i, nfeed,
                     mc, mcFed, lag>>
  BY DEF ReadvanceForward, Advance, InConversation
<1>2. /\ AtReadvance /\ Count >= 1 /\ Count < MaxTokens /\ From(Count - 1) /\ HeadAt(Count)
      /\ Judged(Count - 1) /\ Count + acc \in 0 .. Depth
      /\ Path(Count - 1) \o Positions(Confirmed) = Path(Count + acc)
  BY <1>1, ReadvanceFacts
<1>3. kv = Path(Count - 1) /\ rec = Path(Count - 1) /\ fed = 0 /\ i = 0 /\ Len(draft) = K
  BY <1>1, <1>2 DEF AtReadvance
<1>4. Typed /\ Path(Count + acc) \in Seq(Pos)
  BY <1>1, <1>2, Cycle
<1>5. kv' = Path(Count + acc)
  BY <1>1, <1>2, <1>3
<1>6. Typed'
  BY <1>1, <1>4, <1>5 DEF Typed, Count, outVars
<1>7. Flags'
  BY <1>1, Cycle DEF Flags, Drafting
<1>8. AtReadvance'
  <2>1. /\ Path(Count - 1)' = Path(Count - 1) /\ Path(Count)' = Path(Count)
        /\ Count' = Count /\ greedy' = greedy /\ Path(Count + acc)' = Path(Count + acc)
    BY <1>1, <1>2, InCycle, Silent DEF Path
  <2>2. From(Count - 1)' /\ HeadAt(Count)' /\ Judged(Count - 1)'
    BY <1>1, <1>2, <2>1 DEF From, HeadAt, Judged
  <2> QED BY <1>1, <1>2, <1>3, <1>5, <2>1, <2>2 DEF AtReadvance
<1> QED BY <1>1, <1>6, <1>7, <1>8, Silent DEF GeneratorsInv, Phase, OverConversation

LEMMA StepReadvanceDone ==
    ASSUME InConversation, ReadvanceDone, NoHead
    PROVE  GeneratorsInv'
<1> USE DEF NoHead, headVars, flags
<1>1. /\ pc = "readvanceForward" /\ rec' = rec \o Positions(Confirmed) /\ fed' = acc + 1
      /\ pc' = AfterVerify
      /\ UNCHANGED outVars
      /\ UNCHANGED <<drafter, kv, snap, draftGpu, stuck, cur, draft, verified, acc, i, nfeed,
                     mc, mcFed, lag>>
  BY DEF ReadvanceDone, Complete, InConversation
<1>2. /\ AtReadvance /\ Count >= 1 /\ Count < MaxTokens /\ From(Count - 1) /\ HeadAt(Count)
      /\ Judged(Count - 1) /\ Count + acc \in 0 .. Depth /\ acc <= K /\ acc \in Nat
      /\ Path(Count - 1) \o Positions(Confirmed) = Path(Count + acc)
  BY <1>1, ReadvanceFacts
<1>3. /\ kv = Path(Count + acc) /\ rec = Path(Count - 1) /\ fed = 0 /\ i = 0 /\ Len(draft) = K
      /\ rec' = kv
  BY <1>1, <1>2 DEF AtReadvance
<1>4. Typed
  BY Cycle
<1>5. Typed'
  <2>1. fed' \in 0 .. Ahead + 1
    BY <1>1, <1>2, Constants
  <2> QED BY <1>1, <1>3, <1>4, <2>1 DEF Typed, Count, outVars, AfterVerify
<1>6. Flags'
  BY <1>1, Cycle DEF Flags, Drafting, AfterVerify
<1>7. /\ Count' = Count /\ (Count - 1)' = Count - 1 /\ HeadAt(Count)' /\ Emitting(Count - 1)'
      /\ (Count - 1 - i)' = Count - 1
  <2>1. /\ Path(Count - 1)' = Path(Count - 1) /\ Path(Count)' = Path(Count)
        /\ Count' = Count /\ greedy' = greedy /\ Path(Count + acc)' = Path(Count + acc)
    BY <1>1, <1>2, InCycle, Silent DEF Path
  <2>2. From(Count - 1)' /\ HeadAt(Count)' /\ Judged(Count - 1)'
    BY <1>1, <1>2, <2>1 DEF From, HeadAt, Judged
  <2>3. /\ Count - 1 + acc + 2 <= Depth /\ Count - 1 + 1 + acc = Count + acc
        /\ Count - 1 - 0 = Count - 1
    <3>1. (Count - 1) + Ahead + 2 <= Depth /\ Count \in Nat
      BY <1>1, <1>2, InCycle
    <3> QED BY <1>2, <3>1, Constants
  <2>4. Rest(Count - 1 + 1 + acc)'
    BY <1>1, <1>3, <2>1, <2>3 DEF Rest
  <2>5. Emitting(Count - 1)'
    BY <1>1, <2>1, <2>2, <2>3, <2>4 DEF Emitting
  <2> QED BY <1>1, <1>3, <2>1, <2>2, <2>3, <2>5
<1>8. CASE drafter = "head"
  <2>1. AtRealign' /\ pc' = "realign"
    BY <1>1, <1>2, <1>3, <1>7, <1>8 DEF AtRealign, AfterVerify
  <2> QED BY <1>1, <1>5, <1>6, <2>1, Silent DEF GeneratorsInv, Phase, OverConversation
<1>9. CASE drafter # "head"
  <2>1. AtEmit' /\ pc' = "emit"
    BY <1>1, <1>2, <1>7, <1>9 DEF AtEmit, AfterVerify, HeadAt
  <2> QED BY <1>1, <1>5, <1>6, <2>1, Silent DEF GeneratorsInv, Phase, OverConversation
<1> QED BY <1>8, <1>9

\* What the places after the judgement have in common.
LEMMA EmissionFacts ==
    ASSUME InConversation, pc \notin {"idle", "start", "end"}, NEW m, Emitting(m)
    PROVE  /\ m \in Nat /\ m \in 0 .. Depth /\ m + 1 \in 0 .. Depth /\ m + acc + 2 \in 0 .. Depth
           /\ m + 1 + acc \in 0 .. Depth /\ acc \in Nat
           /\ snap = Path(m) /\ cur = greedy[m + 1] /\ cur \in Tokens
           /\ kv = Path(m + 1 + acc) /\ rec = kv /\ fed = acc + 1 /\ Judged(m)
           /\ SubSeq(kv, 1, Len(kv) - fed) = Path(m) /\ Len(kv) - fed = m
           /\ Path(m) \in Seq(Pos)
           /\ SubSeq(Path(m + acc + 2), 1, Len(Path(m + acc + 2)) - (acc + 1)) = Path(m + 1)
           /\ \A l \in 1 .. acc : draft[l] = greedy[m + 1 + l]
           /\ verified[acc + 1] = greedy[m + 1 + (acc + 1)]
<1>1. /\ m \in 0 .. MaxTokens /\ snap = Path(m) /\ cur = greedy[m + 1] /\ m + acc + 2 <= Depth
      /\ kv = Path(m + 1 + acc) /\ rec = kv /\ fed = acc + 1 /\ Judged(m)
  BY DEF Emitting, From, Rest
<1>2. acc \in Nat /\ greedy \in [Horizon -> Tokens]
  BY Cycle DEF Typed
<1>3. /\ m \in Nat /\ m \in 0 .. Depth /\ m + 1 \in 0 .. Depth /\ m + acc + 2 \in 0 .. Depth
      /\ m + 1 + acc \in 0 .. Depth /\ m \in 0 .. Depth - 1
  BY <1>1, <1>2, Constants
<1>4. cur \in Tokens
  BY <1>1, <1>3, Cycle
<1>5. SubSeq(kv, 1, Len(kv) - fed) = Path(m) /\ Len(kv) - fed = m
  <2>1. Len(Path(m + 1 + acc)) = m + 1 + acc
    BY <1>3, Cycle
  <2>2. Len(kv) - fed = m /\ m \in 0 .. m + 1 + acc
    BY <1>1, <1>2, <1>3, <2>1
  <2>3. SubSeq(PathOf(greedy, m + 1 + acc), 1, m) = PathOf(greedy, m)
    BY <1>2, <1>3, <2>2, PathPrefix
  <2> QED BY <1>1, <2>2, <2>3 DEF Path
<1>6. SubSeq(Path(m + acc + 2), 1, Len(Path(m + acc + 2)) - (acc + 1)) = Path(m + 1)
  <2>1. Len(Path(m + acc + 2)) = m + acc + 2
    BY <1>3, Cycle
  <2>2. m + acc + 2 - (acc + 1) = m + 1 /\ m + 1 \in 0 .. m + acc + 2
    BY <1>2, <1>3
  <2>3. SubSeq(PathOf(greedy, m + acc + 2), 1, m + 1) = PathOf(greedy, m + 1)
    BY <1>2, <1>3, <2>2, PathPrefix
  <2>4. Path(m + acc + 2) = PathOf(greedy, m + acc + 2) /\ Path(m + 1) = PathOf(greedy, m + 1)
    BY DEF Path
  <2>5. SubSeq(Path(m + acc + 2), 1, m + 1) = Path(m + 1)
    BY <2>3, <2>4
  <2> DEFINE p == Path(m + acc + 2)
  <2>6. Len(p) = m + acc + 2 /\ SubSeq(p, 1, m + 1) = Path(m + 1)
    BY <2>1, <2>5
  <2> HIDE DEF p
  <2>7. Len(p) - (acc + 1) = m + 1
    BY <1>2, <1>3, <2>6
  <2>8. SubSeq(p, 1, Len(p) - (acc + 1)) = Path(m + 1)
    BY <2>6, <2>7
  <2> QED BY <2>8 DEF p
<1>7. Path(m) \in Seq(Pos)
  BY <1>3, Cycle
<1>8. /\ \A l \in 1 .. acc : draft[l] = greedy[m + 1 + l]
      /\ verified[acc + 1] = greedy[m + 1 + (acc + 1)]
  <2>1. acc + 1 \in 1 .. acc + 1 /\ \A l \in 1 .. acc : l \in 1 .. acc + 1
    BY <1>2
  <2> QED BY <1>1, <2>1 DEF Judged
<1> QED BY <1>1, <1>2, <1>3, <1>4, <1>5, <1>6, <1>7, <1>8

\* The head takes in the accepted tokens and the model's own one after them.
LEMMA StepRealign ==
    ASSUME InConversation, drafter = "head", Realign
    PROVE  GeneratorsInv'
<1> USE DEF flags, cacheVars, locals
<1> DEFINE m == Count - 1
           s == SubSeq(draft, 1, acc) \o <<verified[acc + 1]>>
<1>1. /\ pc = "realign" /\ mc' = mc \o Exactly(s) /\ pc' = "realigned"
      /\ UNCHANGED outVars
      /\ UNCHANGED <<drafter, kv, rec, snap, draftGpu, stuck, cur, fed, draft, verified, acc, i, nfeed,
                     mcFed, lag>>
  BY DEF Realign, InConversation
<1>2. Count >= 1 /\ Count < MaxTokens /\ i = 0 /\ Emitting(m) /\ mc = Path(Count) /\ mcFed = 0
  <2>1. AtRealign
    BY <1>1, Cycle DEF OverConversation, Drafting
  <2> QED BY <1>1, <2>1 DEF AtRealign, HeadAt
<1>3. /\ m \in Nat /\ m + acc + 2 \in 0 .. Depth /\ acc \in Nat
      /\ Judged(m) /\ \A l \in 1 .. acc : draft[l] = greedy[m + 1 + l]
      /\ verified[acc + 1] = greedy[m + 1 + (acc + 1)]
  BY <1>1, <1>2, EmissionFacts
<1>4. /\ draft \in Seq(Tokens) /\ verified \in Seq(Tokens) /\ Typed /\ greedy \in [Horizon -> Tokens]
      /\ Count = m + 1 /\ Count \in Nat
  <2>1. Count \in Nat
    BY <1>2, <1>1, Cycle
  <2>2. Typed /\ draft \in Seq(Tokens) /\ greedy \in [Horizon -> Tokens]
    BY <1>1, Cycle
  <2> QED BY <2>1, <2>2 DEF Typed
<1>6. mc' = Path(m + acc + 2)
  <2>1. acc \in 0 .. Len(draft) /\ acc + 1 \in 1 .. Len(verified) /\ Len(draft) \in Nat
    BY <1>1, <1>3, Cycle DEF Judged
  <2>2. verified[acc + 1] \in Tokens
    BY <1>4, <2>1, ElementOfSeq
  <2>3. m + acc + 2 <= Depth /\ verified[acc + 1] = greedy[m + acc + 2]
    <3>1. m + 1 + (acc + 1) = m + acc + 2
      BY <1>3
    <3> QED BY <1>3, <3>1
  <2>4. PathOf(greedy, m + 1) \o Exactly(s) = PathOf(greedy, m + acc + 2)
    BY <1>3, <1>4, <2>1, <2>2, <2>3, HeadAlongPath
  <2> QED BY <1>1, <1>2, <1>4, <2>4 DEF Path
<1> HIDE DEF s
<1>7. Typed'
  <2>1. mc' \in Seq(Pos)
    BY <1>1, <1>3, <1>6, Cycle
  <2> QED BY <1>1, <1>4, <2>1 DEF Typed, Count, outVars
<1>8. Flags'
  BY <1>1, Cycle DEF Flags, Drafting
<1>9. AtRealign'
  <2>1. Count' = Count /\ greedy' = greedy /\ (Count - 1)' = m /\ m' = m
    BY <1>1, <1>2, <1>3, Silent
  <2> HIDE DEF m
  <2>2. Emitting(m)'
    BY <1>1, <1>2, <2>1 DEF Emitting, From, Rest, Path, Judged
  <2>3. HeadAt(Count + acc + 1)'
    <3>1. Count + acc + 1 = m + acc + 2
      BY <1>3, <1>4
    <3> QED BY <1>1, <1>2, <1>6, <2>1, <3>1 DEF HeadAt, Path
  <2> QED BY <1>1, <1>2, <2>1, <2>2, <2>3 DEF AtRealign
<1> QED BY <1>1, <1>7, <1>8, <1>9, Silent DEF GeneratorsInv, Phase, OverConversation

LEMMA StepRealignDone ==
    ASSUME InConversation, drafter = "head", RealignDone
    PROVE  GeneratorsInv'
<1> USE DEF flags, cacheVars, locals, headVars
<1>1. /\ pc = "realigned" /\ pc' = "emit"
      /\ UNCHANGED outVars
      /\ UNCHANGED <<drafter, kv, rec, snap, draftGpu, stuck, cur, fed, draft, verified, acc, i,
                     nfeed, mc, mcFed, lag>>
  BY DEF RealignDone, InConversation
<1>2. /\ Count >= 1 /\ Count < MaxTokens /\ i = 0 /\ Emitting(Count - 1)
      /\ mc = Path(Count + acc + 1) /\ mcFed = 0
  <2>1. AtRealign
    BY <1>1, Cycle DEF OverConversation, Drafting
  <2> QED BY <1>1, <2>1 DEF AtRealign, HeadAt
<1>3. Typed /\ Flags /\ Count \in Nat /\ acc \in Nat
  BY <1>1, Cycle DEF Typed
<1>4. Typed'
  BY <1>1, <1>3 DEF Typed, Count, outVars
<1>5. Flags'
  BY <1>1, <1>3 DEF Flags, Drafting
<1>6. AtEmit'
  <2>1. Count' = Count /\ greedy' = greedy /\ Count - 1 - i = Count - 1 /\ Count - i + acc + 1 = Count + acc + 1
    BY <1>1, <1>2, <1>3, Silent
  <2>2. Emitting(Count - 1 - i)'
    BY <1>1, <1>2, <2>1 DEF Emitting, From, Rest, Path, Judged
  <2>3. HeadAt(Count - i + acc + 1)'
    BY <1>1, <1>2, <2>1 DEF HeadAt, Path
  <2> QED BY <1>1, <1>2, <2>1, <2>2, <2>3 DEF AtEmit
<1> QED BY <1>1, <1>4, <1>5, <1>6, Silent DEF GeneratorsInv, Phase, OverConversation

LEMMA StepEmitDraft ==
    ASSUME InConversation, EmitDraft, NoHead
    PROVE  GeneratorsInv'
<1> USE DEF flags, NoHead, headVars
<1> DEFINE m == Count - 1 - i
           t == draft[i + 1]
<1>1. /\ pc = "emit" /\ i < acc /\ UNCHANGED <<mc, mcFed, lag>>
      /\ UNCHANGED <<drafter, snap, draftGpu, stuck, cur, fed, draft, verified, acc, i>>
      /\ \/ /\ t \in Eos /\ Rollback(fed) /\ nfeed' = i /\ pc' = Truncating /\ UNCHANGED outVars
         \/ /\ t \notin Eos /\ Emit(t) /\ pc' = "yielded" /\ UNCHANGED <<kv, rec, nfeed>>
  BY DEF EmitDraft, InConversation
<1>2. Count < MaxTokens /\ Emitting(m) /\ HeadAt(Count - i + acc + 1)
  <2>1. AtEmit
    BY <1>1, Cycle DEF OverConversation, Drafting
  <2> QED BY <2>1 DEF AtEmit
<1>3. /\ m \in Nat /\ m \in 0 .. Depth /\ m + 1 \in 0 .. Depth /\ m + acc + 2 \in 0 .. Depth
      /\ acc \in Nat /\ snap = Path(m) /\ rec = kv /\ fed = acc + 1 /\ Judged(m)
      /\ SubSeq(kv, 1, Len(kv) - fed) = Path(m) /\ Path(m) \in Seq(Pos)
      /\ SubSeq(Path(m + acc + 2), 1, Len(Path(m + acc + 2)) - (acc + 1)) = Path(m + 1)
      /\ \A l \in 1 .. acc : draft[l] = greedy[m + 1 + l]
  BY <1>1, <1>2, EmissionFacts
<1>4. /\ Typed /\ greedy \in [Horizon -> Tokens] /\ i \in Nat /\ Count \in Nat /\ nfeed = 0
      /\ draft \in Seq(Tokens) /\ emitted \in Seq(Tokens) /\ Told /\ Open /\ Count = Len(emitted)
      /\ Running /\ Persistent
  BY <1>1, Cycle DEF Typed, InConversation
<1>5. Count = m + 1 + i /\ i + 1 \in 1 .. acc /\ m + 1 + (i + 1) = Count + 1 /\ i <= acc
  BY <1>1, <1>3, <1>4
<1>6. t = greedy[Count + 1] /\ t \in Tokens
  <2>1. t = greedy[m + 1 + (i + 1)]
    BY <1>3, <1>5
  <2>2. i + 1 \in 1 .. Len(draft)
    BY <1>1, <1>3, <1>5, Cycle DEF Judged
  <2> QED BY <1>4, <1>5, <2>1, <2>2, ElementOfSeq
<1> HIDE DEF m, t
<1>7. Flags'
  BY <1>1, Cycle DEF Flags, Drafting, Truncating
<1>8. CASE t \in Eos /\ Rollback(fed) /\ nfeed' = i /\ pc' = Truncating /\ UNCHANGED outVars
  <2>1. kv' = Path(m) /\ rec' = Path(m)
    BY <1>3, <1>8 DEF Rollback
  <2>2. Count' = Count /\ greedy' = greedy /\ Path(m)' = PathOf(greedy, m') /\ (Count - 1 - nfeed)' = m
    BY <1>1, <1>8 DEF Count, outVars, Path, m
  <2>3. /\ drafter = "head" => pc' = "rewind" /\ mc = Path(m + acc + 2) /\ mcFed = 0
        /\ drafter # "head" => pc' = "truncate"
    <3>1. Count - i + acc + 1 = m + acc + 2
      BY <1>1, <1>3, <1>4, <1>5
    <3> QED BY <1>2, <1>8, <3>1 DEF Truncating, HeadAt
  <2>4. Typed'
    <3>1. pc' \in {"rewind", "truncate"}
      BY <2>3
    <3>2. kv' \in Seq(Pos) /\ rec' \in Seq(Pos) /\ nfeed' \in 0 .. acc
      BY <1>3, <1>4, <1>5, <1>8, <2>1
    <3>3. ~ (drafter \in {"lookup", "wave"})
      BY <1>4 DEF Persistent
    <3> QED BY <1>1, <1>4, <1>8, <3>1, <3>2, <3>3 DEF Typed, Count, outVars
  <2>5. AtTruncate'
    <3>1. m' = m
      BY <1>1, <2>2 DEF m
    <3>2. From(m)' /\ Judged(m)' /\ HeadAt(IF pc = "rewind" THEN m + acc + 2 ELSE m + 1)'
      BY <1>1, <1>2, <1>3, <2>2, <2>3, <3>1 DEF Emitting, From, Judged, HeadAt, Path
    <3>3. m + acc + 2 <= Depth
      BY <1>2 DEF Emitting
    <3>4. greedy[Count + 1] \in Eos
      BY <1>6, <1>8
    <3> QED BY <1>1, <1>8, <2>1, <2>2, <2>3, <3>1, <3>2, <3>3, <3>4 DEF AtTruncate, Path
  <2> QED BY <1>1, <1>7, <1>8, <2>3, <2>4, <2>5, Silent DEF GeneratorsInv, Phase, OverConversation
<1>9. CASE t \notin Eos /\ Emit(t) /\ pc' = "yielded" /\ UNCHANGED <<kv, rec, nfeed>>
  <2>1. emitted' = Append(emitted, t) /\ greedy' = greedy /\ outcome' = outcome /\ mc' = mc
    BY <1>1, <1>9 DEF Emit
  <2>2. /\ emitted' \in Seq(Tokens) /\ Count' = Count + 1
        /\ Told' /\ Open'
    <3>1. /\ emitted' \in Seq(Tokens) /\ Len(emitted') = Len(emitted) + 1
          /\ \A j \in 1 .. Len(emitted') : emitted'[j] = greedy[j]
          /\ emitted'[Len(emitted')] = t /\ \A j \in 1 .. Len(emitted) : emitted'[j] = emitted[j]
      BY <1>4, <1>6, <2>1, Emitted DEF Told
    <3>2. Count' = Count + 1 /\ Told'
      BY <1>4, <2>1, <3>1 DEF Count, Told
    <3>3. ASSUME NEW j \in 1 .. Count'  PROVE emitted'[j] \notin Eos
      <4>1. j \in 1 .. Count \/ j = Count'
        BY <1>4, <3>2
      <4>2. Count' = Len(emitted')
        BY DEF Count
      <4> QED BY <1>4, <1>9, <3>1, <4>1, <4>2 DEF Open
    <3> QED BY <3>1, <3>2, <3>3 DEF Open
  <2>3. Persistent' /\ Running' /\ (Count - 2 - i)' = m /\ m' = m + 1
    <3>1. Count + 1 - 2 - i = m /\ Count + 1 - 1 - i = m + 1
      BY <1>3, <1>4, <1>5
    <3> QED BY <1>1, <1>4, <2>1, <2>2, <3>1 DEF Persistent, Running, m
  <2>4. Typed'
    <3>1. Count' <= MaxTokens
      BY <1>2, <1>4, <2>2, Constants
    <3> QED BY <1>1, <1>4, <1>9, <2>1, <2>2, <3>1 DEF Typed
  <2>5. AtYielded'
    <3> DEFINE k == Count' - 2 - i'
    <3>1. k = m /\ i' < acc' /\ Emitting(m)
      BY <1>1, <1>2, <2>3
    <3>2. Emitting(Count - 2 - i)'
      BY <1>1, <1>9, <2>1, <3>1 DEF Emitting, From, Rest, Judged, Path
    <3>3. HeadAt(Count - i + acc)'
      <4>1. Count + 1 - i + acc = Count - i + acc + 1
        BY <1>1, <1>3, <1>4
      <4>2. (Count - i + acc)' = Count - i + acc + 1
        <5>0. i' = i /\ acc' = acc /\ Count' = Count + 1
          BY <1>1, <2>2
        <5>1. Count' - i' + acc' = Count + 1 - i + acc
          BY <1>3, <1>4, <5>0
        <5> QED BY <4>1, <5>1
      <4> QED BY <1>1, <1>2, <2>1, <4>2 DEF HeadAt, Path
    <3> QED BY <3>1, <3>2, <3>3 DEF AtYielded
  <2> QED BY <1>1, <1>7, <1>9, <2>2, <2>3, <2>4, <2>5 DEF GeneratorsInv, Phase, OverConversation
<1> QED BY <1>1, <1>8, <1>9

LEMMA StepAfterYield ==
    ASSUME InConversation, AfterYield, NoHead
    PROVE  GeneratorsInv'
<1> USE DEF flags, NoHead, headVars
<1> DEFINE m == Count - 2 - i
<1>1. /\ pc = "yielded" /\ UNCHANGED <<mc, mcFed, lag>> /\ UNCHANGED outVars
      /\ UNCHANGED <<drafter, snap, draftGpu, stuck, cur, fed, draft, verified, acc>>
      /\ \/ /\ Count >= MaxTokens /\ Rollback(fed) /\ nfeed' = i + 1 /\ pc' = Truncating /\ i' = i
         \/ /\ Count < MaxTokens /\ i' = i + 1 /\ pc' = "emit" /\ UNCHANGED <<kv, rec, nfeed>>
  BY DEF AfterYield, InConversation, Count
<1>2. i < acc /\ Emitting(m) /\ HeadAt(Count - i + acc)
  <2>1. AtYielded
    BY <1>1, Cycle DEF OverConversation, Drafting
  <2> QED BY <2>1 DEF AtYielded
<1>3. /\ m \in Nat /\ m \in 0 .. Depth /\ m + 1 \in 0 .. Depth /\ m + acc + 2 \in 0 .. Depth
      /\ acc \in Nat /\ snap = Path(m) /\ rec = kv /\ fed = acc + 1 /\ Judged(m)
      /\ SubSeq(kv, 1, Len(kv) - fed) = Path(m) /\ Path(m) \in Seq(Pos)
      /\ SubSeq(Path(m + acc + 2), 1, Len(Path(m + acc + 2)) - (acc + 1)) = Path(m + 1)
  BY <1>1, <1>2, EmissionFacts
<1>4. /\ Typed /\ i \in Nat /\ Count \in Nat /\ Count <= MaxTokens /\ nfeed = 0 /\ Persistent
  BY <1>1, Cycle DEF Typed, InConversation
<1>5. /\ Count - i + acc = m + acc + 2 /\ Count - 1 - (i + 1) = m /\ i + 1 \in 0 .. acc
  BY <1>2, <1>3, <1>4
<1>6. Count' = Count /\ greedy' = greedy
  BY <1>1, Silent
<1> HIDE DEF m
<1>7. Flags'
  BY <1>1, Cycle DEF Flags, Drafting, Truncating
<1>8. CASE Count >= MaxTokens /\ Rollback(fed) /\ nfeed' = i + 1 /\ pc' = Truncating /\ i' = i
  <2>1. kv' = Path(m) /\ rec' = Path(m)
    BY <1>3, <1>8 DEF Rollback
  <2>2. m' = m
    BY <1>6, <1>8 DEF m
  <2>3. /\ drafter = "head" => pc' = "rewind" /\ mc = Path(m + acc + 2) /\ mcFed = 0
        /\ drafter # "head" => pc' = "truncate"
    BY <1>2, <1>5, <1>8 DEF Truncating, HeadAt
  <2>4. Typed'
    <3>1. pc' \in {"rewind", "truncate"}
      BY <2>3
    <3>2. kv' \in Seq(Pos) /\ rec' \in Seq(Pos) /\ nfeed' \in 0 .. acc
      BY <1>3, <1>5, <1>8, <2>1
    <3>3. ~ (drafter \in {"lookup", "wave"})
      BY <1>4 DEF Persistent
    <3> QED BY <1>1, <1>4, <1>8, <3>1, <3>2, <3>3 DEF Typed, Count, outVars
  <2>5. AtTruncate'
    <3>1. (Count - 1 - nfeed)' = m
      BY <1>5, <1>6, <1>8
    <3>2. From(m)' /\ Judged(m)' /\ HeadAt(IF pc = "rewind" THEN m + acc + 2 ELSE m + 1)'
      BY <1>1, <1>2, <1>3, <1>6, <2>2, <2>3 DEF Emitting, From, Judged, HeadAt, Path
    <3>3. m + acc + 2 <= Depth
      BY <1>2 DEF Emitting
    <3>4. Count = MaxTokens
      BY <1>4, <1>8, Constants
    <3> QED BY <1>1, <1>6, <1>8, <2>1, <2>2, <2>3, <3>1, <3>2, <3>3, <3>4 DEF AtTruncate, Path
  <2> QED BY <1>1, <1>7, <1>8, <2>3, <2>4, <2>5, Silent DEF GeneratorsInv, Phase, OverConversation
<1>9. CASE Count < MaxTokens /\ i' = i + 1 /\ pc' = "emit" /\ UNCHANGED <<kv, rec, nfeed>>
  <2>1. mc' = mc
    BY <1>1
  <2>2. Typed'
    <3>1. i' \in 0 .. acc
      BY <1>5, <1>9
    <3>2. ~ (drafter \in {"lookup", "wave"})
      BY <1>4 DEF Persistent
    <3> QED BY <1>1, <1>4, <1>9, <2>1, <3>1, <3>2 DEF Typed, Count, outVars
  <2>3. AtEmit'
    <3>1. (Count - 1 - i)' = m
      BY <1>5, <1>6, <1>9
    <3>2. (Count - i + acc + 1)' = Count - i + acc
      BY <1>1, <1>3, <1>4, <1>6, <1>9
    <3>3. Emitting(Count - 1 - i)'
      BY <1>1, <1>2, <1>6, <1>9, <3>1 DEF Emitting, From, Rest, Judged, Path
    <3>4. HeadAt(Count - i + acc + 1)'
      BY <1>1, <1>2, <1>6, <2>1, <3>2 DEF HeadAt, Path
    <3> QED BY <1>6, <1>9, <3>3, <3>4 DEF AtEmit
  <2> QED BY <1>1, <1>7, <1>9, <2>2, <2>3, Silent DEF GeneratorsInv, Phase, OverConversation
<1> QED BY <1>1, <1>8, <1>9

LEMMA StepEmitNext ==
    ASSUME InConversation, EmitNext, NoHead
    PROVE  GeneratorsInv'
<1> USE DEF NoHead, headVars, cacheVars, flags
<1> DEFINE m == Count - 1 - i
<1>1. /\ pc = "emit" /\ i = acc /\ cur' = verified[acc + 1]
      /\ UNCHANGED <<drafter, kv, rec, snap, draftGpu, stuck, fed, draft, verified, acc, i, nfeed,
                     mc, mcFed, lag>>
      /\ \/ cur' \in Eos /\ Return("complete")
         \/ cur' \notin Eos /\ Emit(cur') /\ pc' = "cycle"
  BY DEF EmitNext, InConversation
<1>2. Count < MaxTokens /\ Emitting(m) /\ HeadAt(Count - i + acc + 1)
  <2>1. AtEmit
    BY <1>1, Cycle DEF OverConversation, Drafting
  <2> QED BY <2>1 DEF AtEmit
<1>3. /\ m \in Nat /\ m + 1 + acc \in 0 .. Depth /\ m + acc + 2 \in 0 .. Depth /\ acc \in Nat
      /\ kv = Path(m + 1 + acc) /\ rec = kv /\ Judged(m)
      /\ verified[acc + 1] = greedy[m + 1 + (acc + 1)]
  BY <1>1, <1>2, EmissionFacts
<1>4. /\ Typed /\ greedy \in [Horizon -> Tokens] /\ i \in Nat /\ Count \in Nat /\ nfeed = 0
      /\ emitted \in Seq(Tokens) /\ Told /\ Open /\ Count = Len(emitted)
      /\ Running /\ Persistent
  BY <1>1, Cycle DEF Typed, InConversation
<1>5. /\ m + 1 + acc = Count /\ m + 1 + (acc + 1) = Count + 1 /\ Count - i + acc + 1 = Count + 1
      /\ Count + 1 \in 0 .. Depth /\ Count \in 0 .. Depth
  BY <1>1, <1>3, <1>4, <1>2
<1>6. cur' = greedy[Count + 1] /\ cur' \in Tokens /\ kv = Path(Count) /\ rec = Path(Count)
  <2>1. cur' = greedy[Count + 1] /\ kv = Path(Count) /\ rec = Path(Count)
    BY <1>1, <1>3, <1>5
  <2>2. Count \in 0 .. Depth - 1
    BY <1>4, <1>5, Constants
  <2> QED BY <1>1, <2>1, <2>2, Cycle
<1>7. Flags'
  BY <1>1, Cycle DEF Flags, Drafting, Return
<1>8. drafter = "head" => mc = Path(Count + 1) /\ mcFed = 0
  BY <1>2, <1>5 DEF HeadAt
<1> HIDE DEF m
<1>9. CASE cur' \in Eos /\ Return("complete")
  <2>1. pc' = "end" /\ outcome' = "complete" /\ greedy' = greedy /\ emitted' = emitted
    BY <1>9 DEF Return, End
  <2>2. Typed'
    BY <1>1, <1>4, <2>1 DEF Typed, Count
  <2>3. AtEnd'
    <3>1. Len(kv) = Count
      BY <1>1, <1>5, <1>6, Cycle
    <3>2. Count' = Count /\ Told' /\ Path(Count)' = Path(Count) /\ Path(Count + 1)' = Path(Count + 1)
      BY <1>4, <2>1 DEF Count, Told, Path
    <3>3. OnTheWay(Len(kv))' /\ (Len(kv))' \in {Count - 1, Count}
      BY <1>1, <1>5, <1>6, <2>1, <3>1 DEF OnTheWay, Rest, Path
    <3>4. (drafter = "head" /\ emitted # <<>> =>
              mc = Path(Len(kv) + 1) /\ Len(kv) + 1 <= Depth /\ cur \in Tokens)'
      BY <1>1, <1>5, <1>6, <1>8, <2>1, <3>1 DEF Path
    <3>5. drafter' \in {"self", "head"}
      BY <1>1, <1>4 DEF Persistent
    <3> QED BY <1>4, <2>1, <3>2, <3>3, <3>4, <3>5 DEF AtEnd
  <2> QED BY <1>7, <2>1, <2>2, <2>3 DEF GeneratorsInv, Phase
<1>10. CASE cur' \notin Eos /\ Emit(cur') /\ pc' = "cycle"
  <2>1. emitted' = Append(emitted, cur') /\ greedy' = greedy /\ outcome' = outcome
    BY <1>10 DEF Emit
  <2>2. emitted' \in Seq(Tokens) /\ Count' = Count + 1 /\ Told' /\ Open'
    <3> DEFINE t == cur'
    <3>0. t \in Tokens /\ t = greedy[Len(emitted) + 1] /\ emitted' = Append(emitted, t) /\ t \notin Eos
      BY <1>4, <1>6, <1>10, <2>1
    <3> HIDE DEF t
    <3>1. /\ emitted' \in Seq(Tokens) /\ Len(emitted') = Len(emitted) + 1
          /\ \A j \in 1 .. Len(emitted') : emitted'[j] = greedy[j]
          /\ emitted'[Len(emitted')] = t /\ \A j \in 1 .. Len(emitted) : emitted'[j] = emitted[j]
      BY <1>4, <3>0, Emitted DEF Told
    <3>2. Count' = Count + 1 /\ Told'
      BY <1>4, <2>1, <3>1 DEF Count, Told
    <3>3. ASSUME NEW j \in 1 .. Count'  PROVE emitted'[j] \notin Eos
      <4>1. j \in 1 .. Count \/ j = Count'
        BY <1>4, <3>2
      <4>2. Count' = Len(emitted')
        BY DEF Count
      <4> QED BY <1>4, <3>0, <3>1, <4>1, <4>2 DEF Open
    <3> QED BY <3>1, <3>2, <3>3 DEF Open
  <2>3. Persistent' /\ Running'
    BY <1>1, <1>4, <2>1 DEF Persistent, Running
  <2>4. Typed'
    <3>1. Count' <= MaxTokens
      BY <1>2, <1>4, <2>2, Constants
    <3> QED BY <1>1, <1>4, <1>10, <2>1, <2>2, <3>1 DEF Typed
  <2>5. AtCycle'
    <3>1. (Count - 1)' = Count /\ Count' >= 1
      BY <1>4, <2>2
    <3>2. Rest(Count - 1)'
      BY <1>1, <1>6, <2>1, <3>1 DEF Rest, Path
    <3>3. HeadAt(Count)'
      BY <1>1, <1>8, <2>1, <2>2 DEF HeadAt, Path
    <3> QED BY <1>6, <2>1, <2>2, <3>1, <3>2, <3>3 DEF AtCycle
  <2> QED BY <1>7, <1>10, <2>2, <2>3, <2>4, <2>5 DEF GeneratorsInv, Phase, OverConversation
<1> QED BY <1>1, <1>9, <1>10

\* A truncation: what it feeds.
LEMMA TruncateFacts ==
    ASSUME InConversation, pc \in {"rewind", "truncate", "truncateForward", "kept"},
           NEW m, m = Count - 1 - nfeed
    PROVE  /\ AtTruncate /\ m \in Nat /\ m \in 0 .. Depth /\ m + 1 \in 0 .. Depth
           /\ nfeed \in Nat /\ nfeed <= acc /\ m + nfeed + 2 \in 0 .. Depth
           /\ Count \in 0 .. Depth /\ m + nfeed + 1 = Count
           /\ From(m) /\ Judged(m) /\ cur \in Tokens /\ m + acc + 2 <= Depth /\ acc \in Nat
           /\ HeadAt(IF pc = "rewind" THEN m + acc + 2 ELSE m + 1)
           /\ rec = IF pc = "kept" THEN Path(Count) ELSE Path(m)
           /\ kv = IF pc \in {"rewind", "truncate"} THEN Path(m) ELSE Path(Count)
           /\ Count = MaxTokens \/ greedy[Count + 1] \in Eos
           /\ Positions(Kept) \in Seq(Pos) /\ Path(m) \o Positions(Kept) = Path(Count)
           /\ PathOf(greedy, m + 1) \o Exactly(SubSeq(draft, 1, nfeed) \o <<verified[nfeed + 1]>>)
                 = PathOf(greedy, m + nfeed + 2)
           /\ pc \notin {"idle", "start", "end"}
<1>1. AtTruncate /\ pc \notin {"idle", "start", "end"}
  BY Cycle DEF OverConversation, Drafting
<1>2. /\ From(m) /\ m + acc + 2 <= Depth /\ Judged(m)
      /\ HeadAt(IF pc = "rewind" THEN m + acc + 2 ELSE m + 1)
      /\ rec = IF pc = "kept" THEN Path(Count) ELSE Path(m)
      /\ kv = IF pc \in {"rewind", "truncate"} THEN Path(m) ELSE Path(Count)
      /\ Count = MaxTokens \/ greedy[Count + 1] \in Eos
      /\ cur = greedy[m + 1] /\ m \in 0 .. MaxTokens
  BY <1>1 DEF AtTruncate, From
<1>3. /\ draft \in Seq(Tokens) /\ verified \in Seq(Tokens) /\ Typed /\ Flags
      /\ greedy \in [Horizon -> Tokens]
      /\ Count \in 0 .. MaxTokens
  BY <1>1, Cycle DEF Typed
<1>4. acc \in Nat /\ nfeed \in Nat /\ nfeed <= acc /\ m \in Nat /\ Len(draft) \in Nat
  BY <1>1, <1>2, <1>3, Cycle, Constants DEF Typed
<1>5. /\ m \in 0 .. Depth - 1 /\ m \in 0 .. Depth /\ m + 1 \in 0 .. Depth
      /\ m + nfeed + 2 \in 0 .. Depth /\ m + nfeed + 1 = Count /\ m + 1 + nfeed <= Depth
      /\ Count \in 0 .. Depth
  BY <1>2, <1>3, <1>4, Constants
<1>6. acc <= Len(draft) /\ nfeed \in 0 .. Len(draft) /\ Len(verified) = Len(draft) + 1
  BY <1>2, <1>4 DEF Judged
<1>7. cur \in Tokens
  BY <1>1, <1>2, <1>5, Cycle
<1>8. Kept \in Seq(Tokens)
  BY <1>3, <1>6, <1>7, FedTokens DEF Kept
<1>9. Positions(Kept) = Exactly(Kept) /\ Positions(Kept) \in Seq(Pos)
  BY <1>3, <1>8, PositionsFacts, Cycle DEF Flags, Drafting, Typed
<1>10. \A l \in 1 .. nfeed : draft[l] = greedy[m + 1 + l]
  <2> SUFFICES ASSUME NEW l \in 1 .. nfeed  PROVE draft[l] = greedy[m + 1 + l]
    OBVIOUS
  <2>1. l \in 1 .. acc /\ l \in 1 .. acc + 1
    BY <1>4
  <2> QED BY <1>2, <2>1 DEF Judged
<1>11. verified[nfeed + 1] = greedy[m + nfeed + 2] /\ verified[nfeed + 1] \in Tokens
  <2>1. nfeed + 1 \in 1 .. acc + 1 /\ m + 1 + (nfeed + 1) = m + nfeed + 2 /\ nfeed + 1 \in 1 .. Len(verified)
    BY <1>4, <1>6
  <2>2. verified[nfeed + 1] = greedy[m + 1 + (nfeed + 1)]
    BY <1>2, <2>1 DEF Judged
  <2> QED BY <1>3, <2>1, <2>2, ElementOfSeq
<1>12. PathOf(greedy, m) \o Exactly(<<greedy[m + 1]>> \o SubSeq(draft, 1, nfeed)) = PathOf(greedy, m + 1 + nfeed)
  BY <1>3, <1>4, <1>5, <1>6, <1>10, FedAlongPath
<1>13. m + 1 + nfeed = Count
  BY <1>4, <1>5
<1>14. Path(m) \o Positions(Kept) = Path(Count)
  <2>1. PathOf(greedy, m) \o Exactly(<<greedy[m + 1]>> \o SubSeq(draft, 1, nfeed)) = PathOf(greedy, Count)
    BY <1>12, <1>13
  <2> QED BY <1>2, <1>9, <2>1 DEF Path, Kept
<1>15. PathOf(greedy, m + 1) \o Exactly(SubSeq(draft, 1, nfeed) \o <<verified[nfeed + 1]>>)
          = PathOf(greedy, m + nfeed + 2)
  <2>1. m + nfeed + 2 <= Depth
    BY <1>5
  <2> QED BY <1>3, <1>4, <1>6, <1>10, <1>11, <2>1, HeadAlongPath
<1> QED BY <1>1, <1>2, <1>4, <1>5, <1>7, <1>9, <1>14, <1>15

\* The head gives back what Realign added.
LEMMA StepHeadTruncate ==
    ASSUME InConversation, drafter = "head", HeadTruncate
    PROVE  GeneratorsInv'
<1> USE DEF flags, cacheVars, locals
<1> DEFINE m == Count - 1 - nfeed
<1>1. /\ pc = "rewind" /\ mc' = SubSeq(mc, 1, Len(mc) - (acc + 1)) /\ pc' = "truncate"
      /\ UNCHANGED outVars
      /\ UNCHANGED <<drafter, kv, rec, snap, draftGpu, stuck, cur, fed, draft, verified, acc, i,
                     nfeed, mcFed, lag>>
  BY DEF HeadTruncate, TrimHead, InConversation
<1>b. m' = m
  BY <1>1 DEF Count, outVars
<1>c. m = Count - 1 - nfeed
  OBVIOUS
<1> HIDE DEF m
<1>2. /\ Count \in 0 .. Depth /\ From(m) /\ Judged(m) /\ m \in Nat /\ m + 1 \in 0 .. Depth
      /\ acc \in Nat /\ m + acc + 2 <= Depth
      /\ mc = Path(m + acc + 2) /\ mcFed = 0 /\ rec = Path(m) /\ kv = Path(m)
      /\ Count = MaxTokens \/ greedy[Count + 1] \in Eos
  BY <1>1, <1>c, TruncateFacts DEF HeadAt
<1>3. /\ Typed /\ Flags /\ Path(m + 1) \in Seq(Pos) /\ greedy \in [Horizon -> Tokens]
      /\ Persistent
  BY <1>1, <1>2, Cycle DEF InConversation
<1>4. mc' = Path(m + 1)
  <2>1. m + acc + 2 \in 0 .. Depth /\ m + 1 \in 0 .. m + acc + 2
    BY <1>2, Constants
  <2>2. SubSeq(PathOf(greedy, m + acc + 2), 1, m + 1) = PathOf(greedy, m + 1)
    BY <1>3, <2>1, PathPrefix
  <2>3. Len(mc) = m + acc + 2
    BY <1>2, <1>3, <2>1, PathFacts DEF Path
  <2>4. Len(mc) - (acc + 1) = m + 1
    BY <1>2, <2>3
  <2> QED BY <1>1, <1>2, <2>2, <2>4 DEF Path
<1>5. Typed'
  <2>1. ~ (drafter \in {"lookup", "wave"})
    OBVIOUS
  <2> QED BY <1>1, <1>3, <1>4, <2>1 DEF Typed, Count, outVars
<1>6. Flags'
  BY <1>1, <1>3 DEF Flags, Drafting
<1>7. AtTruncate'
  <2>1. Count' = Count /\ greedy' = greedy /\ (Count - 1 - nfeed)' = m
    BY <1>1, <1>c, Silent
  <2>2. From(m)' /\ HeadAt(m + 1)' /\ Judged(m)'
    BY <1>1, <1>2, <1>4, <1>b, <2>1 DEF From, HeadAt, Judged, Path
  <2> QED BY <1>1, <1>2, <1>b, <2>1, <2>2 DEF AtTruncate, Path
<1> QED BY <1>1, <1>5, <1>6, <1>7, Silent DEF GeneratorsInv, Phase, OverConversation

LEMMA StepTruncateForward ==
    ASSUME InConversation, TruncateForward, NoHead
    PROVE  GeneratorsInv'
<1> USE DEF NoHead, headVars, flags, locals
<1> DEFINE m == Count - 1 - nfeed
<1>1. /\ pc = "truncate" /\ kv' = kv \o Positions(Kept) /\ pc' = "truncateForward"
      /\ UNCHANGED outVars
      /\ UNCHANGED <<drafter, rec, snap, draftGpu, stuck, cur, fed, draft, verified, acc, i, nfeed,
                     mc, mcFed, lag>>
  BY DEF TruncateForward, Advance, InConversation
<1>b. m' = m
  BY <1>1 DEF Count, outVars
<1>c. m = Count - 1 - nfeed
  OBVIOUS
<1> HIDE DEF m
<1>2. /\ AtTruncate /\ Count \in 0 .. Depth /\ From(m) /\ Judged(m) /\ HeadAt(m + 1) /\ rec = Path(m)
      /\ Path(m) \o Positions(Kept) = Path(Count)
  BY <1>1, <1>c, TruncateFacts
<1>3. /\ kv = Path(m) /\ m + acc + 2 <= Depth
      /\ Count = MaxTokens \/ greedy[Count + 1] \in Eos
  BY <1>1, <1>c, TruncateFacts
<1>4. Typed /\ Path(Count) \in Seq(Pos)
  BY <1>1, <1>2, Cycle
<1>5. kv' = Path(Count)
  BY <1>1, <1>2, <1>3
<1>6. Typed'
  BY <1>1, <1>4, <1>5 DEF Typed, Count, outVars
<1>7. Flags'
  BY <1>1, Cycle DEF Flags, Drafting
<1>8. AtTruncate'
  <2>1. Count' = Count /\ greedy' = greedy /\ (Count - 1 - nfeed)' = m
    BY <1>1, <1>c, Silent
  <2>2. From(m)' /\ HeadAt(m + 1)' /\ Judged(m)'
    BY <1>1, <1>2, <1>b, <2>1 DEF From, HeadAt, Judged, Path
  <2> QED BY <1>1, <1>2, <1>3, <1>5, <1>b, <2>1, <2>2 DEF AtTruncate, Path
<1> QED BY <1>1, <1>6, <1>7, <1>8, Silent DEF GeneratorsInv, Phase, OverConversation

\* What AtEnd asks of an end over a cache that rests on the path.
LEMMA EndsOnPath ==
    ASSUME InConversation, pc \notin {"idle", "start", "end"}, NEW n \in 0 .. Depth,
           pc' = "end", greedy' = greedy, emitted' = emitted,
           kv' = Path(n), rec' = Path(n),
           \/ outcome' \in {"cut", "strayed"}
           \/ outcome' = "complete" /\ n \in {Count - 1, Count},
           drafter = "head" /\ outcome' # "strayed" =>
              mc' = Path(n + 1) /\ n + 1 <= Depth /\ cur' \in Tokens
    PROVE  AtEnd'
<1>1. /\ drafter' \in {"self", "head"} /\ drafter' = drafter
      /\ Told /\ greedy \in [Horizon -> Tokens] /\ Len(Path(n)) = n
  BY Cycle DEF InConversation
<1>2. /\ Count' = Count /\ Told' /\ Path(n)' = Path(n) /\ Path(n + 1)' = Path(n + 1)
  BY <1>1 DEF Count, Told, Path
<1>3. Len(kv') = n
  BY <1>1
<1>4. OnTheWay(Len(kv))'
  BY <1>2, <1>3 DEF OnTheWay, Rest, Path
<1>5. drafter' = "head" /\ outcome' # "strayed" =>
         mc' = Path(Len(kv) + 1)' /\ Len(kv') + 1 <= Depth /\ cur' \in Tokens /\ cur' # NoToken
  BY <1>1, <1>3, Constants DEF Path
<1>6. outcome' = "complete" => Len(kv') \in {Count' - 1, Count'}
  BY <1>2, <1>3
<1> QED BY <1>1, <1>2, <1>4, <1>5, <1>6 DEF AtEnd

LEMMA StepTruncateDone ==
    ASSUME InConversation, drafter = "self", TruncateDone, NoHead
    PROVE  GeneratorsInv'
<1> USE DEF flags, locals, NoHead, headVars
<1> DEFINE m == Count - 1 - nfeed
<1>1. /\ pc = "truncateForward" /\ rec' = rec \o Positions(Kept)
      /\ pc' = "end" /\ outcome' = "complete" /\ greedy' = greedy /\ emitted' = emitted
      /\ UNCHANGED <<drafter, kv, snap, draftGpu, stuck, cur, fed, draft, verified, acc, i, nfeed,
                     mc, mcFed, lag>>
  BY DEF TruncateDone, Complete, Return, End, InConversation
<1>c. m = Count - 1 - nfeed
  OBVIOUS
<1> HIDE DEF m
<1>2. /\ Count \in 0 .. Depth /\ kv = Path(Count) /\ rec = Path(m)
      /\ Path(m) \o Positions(Kept) = Path(Count)
  BY <1>1, <1>c, TruncateFacts
<1>3. Typed /\ Flags /\ Path(Count) \in Seq(Pos)
  BY <1>1, <1>2, Cycle
<1>4. rec' = Path(Count)
  BY <1>1, <1>2
<1>5. Typed'
  BY <1>1, <1>3, <1>4 DEF Typed, Count
<1>6. Flags'
  BY <1>1, <1>3 DEF Flags, Drafting
<1>7. AtEnd'
  BY <1>1, <1>2, <1>4, EndsOnPath
<1> QED BY <1>1, <1>5, <1>6, <1>7 DEF GeneratorsInv, Phase

\* The model has taken in the tokens that were kept, and then so does the head.
LEMMA StepHeadKeep ==
    ASSUME InConversation, drafter = "head", HeadKeep
    PROVE  GeneratorsInv'
<1> USE DEF flags, locals, headVars
<1> DEFINE m == Count - 1 - nfeed
<1>1. /\ pc = "truncateForward" /\ rec' = rec \o Positions(Kept) /\ pc' = "kept"
      /\ UNCHANGED outVars
      /\ UNCHANGED <<drafter, kv, snap, draftGpu, stuck, cur, fed, draft, verified, acc, i, nfeed,
                     mc, mcFed, lag>>
  BY DEF HeadKeep, Complete, InConversation
<1>b. m' = m
  BY <1>1 DEF Count, outVars
<1>c. m = Count - 1 - nfeed
  OBVIOUS
<1> HIDE DEF m
<1>2. /\ Count \in 0 .. Depth /\ kv = Path(Count) /\ rec = Path(m)
      /\ From(m) /\ Judged(m) /\ HeadAt(m + 1) /\ m + acc + 2 <= Depth
      /\ Path(m) \o Positions(Kept) = Path(Count)
      /\ Count = MaxTokens \/ greedy[Count + 1] \in Eos
  BY <1>1, <1>c, TruncateFacts
<1>3. Typed /\ Flags /\ Path(Count) \in Seq(Pos)
  BY <1>1, <1>2, Cycle
<1>4. rec' = Path(Count)
  BY <1>1, <1>2
<1>5. Typed'
  <2>1. ~ (drafter \in {"lookup", "wave"})
    OBVIOUS
  <2> QED BY <1>1, <1>3, <1>4, <2>1 DEF Typed, Count, outVars
<1>6. Flags'
  BY <1>1, <1>3 DEF Flags, Drafting
<1>7. AtTruncate'
  <2>1. Count' = Count /\ greedy' = greedy /\ (Count - 1 - nfeed)' = m
    BY <1>1, <1>c, Silent
  <2>2. From(m)' /\ HeadAt(m + 1)' /\ Judged(m)'
    BY <1>1, <1>2, <1>b, <2>1 DEF From, HeadAt, Judged, Path
  <2> QED BY <1>1, <1>2, <1>4, <1>b, <2>1, <2>2 DEF AtTruncate, Path
<1> QED BY <1>1, <1>5, <1>6, <1>7, Silent DEF GeneratorsInv, Phase, OverConversation

LEMMA StepHeadTruncateDone ==
    ASSUME InConversation, drafter = "head", HeadTruncateDone
    PROVE  GeneratorsInv'
<1> USE DEF flags, locals, cacheVars
<1> DEFINE m == Count - 1 - nfeed
           s == SubSeq(draft, 1, nfeed) \o <<verified[nfeed + 1]>>
<1>1. /\ pc = "kept" /\ mc' = mc \o Exactly(s)
      /\ pc' = "end" /\ outcome' = "complete" /\ greedy' = greedy /\ emitted' = emitted
      /\ UNCHANGED <<drafter, kv, rec, snap, draftGpu, stuck, cur, fed, draft, verified, acc, i,
                     nfeed, mcFed, lag>>
  BY DEF HeadTruncateDone, Return, End, InConversation
<1>c. m = Count - 1 - nfeed
  OBVIOUS
<1> HIDE DEF m
<1>2. /\ Count \in 0 .. Depth /\ kv = Path(Count) /\ rec = Path(Count) /\ mc = Path(m + 1)
      /\ m \in Nat /\ m + nfeed + 2 \in 0 .. Depth /\ m + nfeed + 1 = Count /\ nfeed \in Nat
      /\ PathOf(greedy, m + 1) \o Exactly(s) = PathOf(greedy, m + nfeed + 2) /\ cur \in Tokens
  BY <1>1, <1>c, TruncateFacts DEF HeadAt
<1> HIDE DEF s
<1>3. m + nfeed + 2 = Count + 1 /\ Count + 1 <= Depth
  <2>1. m + nfeed + 2 = Count + 1
    BY <1>2
  <2>2. m + nfeed + 2 <= Depth
    BY <1>2
  <2> QED BY <2>1, <2>2
<1>4. mc' = Path(Count + 1)
  BY <1>1, <1>2, <1>3 DEF Path
<1>5. Typed /\ Flags /\ Path(Count + 1) \in Seq(Pos)
  <2>1. Count + 1 \in 0 .. Depth
    BY <1>2, <1>3, Constants
  <2> QED BY <1>1, <2>1, Cycle
<1>6. Typed'
  BY <1>1, <1>4, <1>5 DEF Typed, Count
<1>7. Flags'
  BY <1>1, <1>5 DEF Flags, Drafting
<1>8. AtEnd'
  BY <1>1, <1>2, <1>3, <1>4, EndsOnPath
<1> QED BY <1>1, <1>6, <1>7, <1>8 DEF GeneratorsInv, Phase

\* The prompt goes in; a first token that ends the sequence ends the turn, before
\* the head has run.
LEMMA StepPrefill ==
    ASSUME InConversation, Prefill, NoHead
    PROVE  GeneratorsInv'
<1> USE DEF cacheVars, flags, NoHead, headVars
<1>1. /\ pc = "start" /\ cur' = greedy[1]
      /\ UNCHANGED <<drafter, kv, rec, snap, draftGpu, stuck, fed, draft, verified, acc, i, nfeed,
                     mc, mcFed, lag>>
      /\ \/ cur' \in Eos /\ Return("complete")
         \/ cur' \notin Eos /\ pc' = "first" /\ UNCHANGED outVars
  BY DEF Prefill, InConversation
<1>2. Running /\ Reset
  BY <1>1, Where DEF InConversation, AtStart
<1>3. /\ Typed /\ Flags /\ drafter \in {"self", "head"} /\ Persistent
      /\ greedy \in [Horizon -> Tokens] /\ outcome = "running"
  BY <1>2, Cycle DEF Running, InConversation
<1>4. /\ emitted = <<>> /\ kv = <<>> /\ rec = <<>> /\ mc = <<>> /\ mcFed = 0
      /\ 0 \in 0 .. Depth /\ Count = 0 /\ Len(emitted) = 0
  BY <1>2, Constants DEF Reset, Count
<1>5. cur' \in Tokens
  BY <1>1, <1>3, Constants
<1>6. Path(0) = <<>>
  <2>1. PathOf(greedy, 0) \in Seq(Pos) /\ Len(PathOf(greedy, 0)) = 0
    BY <1>3, <1>4, PathFacts
  <2> QED BY <2>1, EmptySeq DEF Path
<1>7. Flags'
  BY <1>1, <1>3 DEF Flags, Drafting, Return
<1>8. CASE cur' \in Eos /\ Return("complete")
  <2>1. pc' = "end" /\ outcome' = "complete" /\ greedy' = greedy /\ emitted' = emitted
    BY <1>8 DEF Return, End
  <2>2. Typed'
    BY <1>1, <1>3, <2>1 DEF Typed, Count
  <2>3. AtEnd'
    <3>1. Len(kv') = 0 /\ kv' = Path(0)' /\ rec' = Path(0)' /\ Count' = 0
      BY <1>1, <1>4, <1>6, <2>1 DEF Path, Count
    <3>2. OnTheWay(Len(kv))' /\ Told'
      BY <1>4, <3>1 DEF OnTheWay, Rest, Told, Path
    <3> QED BY <1>1, <1>3, <1>4, <2>1, <3>1, <3>2 DEF AtEnd
  <2> QED BY <1>7, <2>1, <2>2, <2>3 DEF GeneratorsInv, Phase
<1>9. CASE cur' \notin Eos /\ pc' = "first" /\ UNCHANGED outVars
  <2>1. emitted' = emitted /\ greedy' = greedy /\ outcome' = outcome /\ Count' = 0
    BY <1>4, <1>9 DEF outVars, Count
  <2>2. Told' /\ Open' /\ Persistent' /\ Running'
    BY <1>1, <1>2, <1>3, <2>1 DEF Told, Open, Persistent, Running
  <2>3. Typed'
    BY <1>1, <1>3, <1>9, <2>1 DEF Typed, Count
  <2>4. AtFirst'
    <3>1. Rest(0)' /\ HeadAt(0)'
      BY <1>1, <1>4, <1>6, <2>1 DEF Rest, HeadAt, Path
    <3> QED BY <1>1, <1>9, <2>1, <3>1 DEF AtFirst
  <2> QED BY <1>7, <1>9, <2>2, <2>3, <2>4 DEF GeneratorsInv, Phase, OverConversation
<1> QED BY <1>1, <1>8, <1>9

\* What holds with the prompt in and nothing yielded.
LEMMA First ==
    ASSUME InConversation, pc \in {"first", "aligned"}
    PROVE  /\ AtFirst /\ Typed /\ Flags /\ Running /\ Persistent /\ drafter \in {"self", "head"}
           /\ greedy \in [Horizon -> Tokens] /\ outcome = "running"
           /\ emitted = <<>> /\ Count = 0 /\ Len(emitted) = 0 /\ Told /\ Open
           /\ Rest(0) /\ cur = greedy[0 + 1] /\ cur \in Tokens /\ cur \notin Eos
           /\ 0 \in 0 .. Depth /\ 1 \in 0 .. Depth
           /\ Path(0) \in Seq(Pos) /\ Path(1) \in Seq(Pos) /\ Path(0) \o Exactly(<<cur>>) = Path(1)
<1>1. /\ AtFirst /\ Typed /\ Flags /\ Running /\ Persistent /\ drafter \in {"self", "head"}
      /\ greedy \in [Horizon -> Tokens] /\ outcome = "running" /\ Told /\ Open
  BY Cycle DEF OverConversation, Drafting, InConversation
<1>2. Count = 0 /\ Rest(0) /\ cur = greedy[0 + 1] /\ cur \notin Eos
  BY <1>1 DEF AtFirst
<1>3. emitted = <<>> /\ Len(emitted) = 0
  BY <1>1, <1>2, EmptySeq DEF Typed, Count
<1>4. 0 \in 0 .. Depth /\ 1 \in 0 .. Depth /\ 0 \in 0 .. Depth - 1 /\ 0 + 1 = 1
  BY Constants
<1>5. cur \in Tokens
  BY <1>2, <1>4, Cycle
<1>6. PathOf(greedy, 0) \o Exactly(<<greedy[0 + 1]>>) = PathOf(greedy, 0 + 1)
  BY <1>1, <1>4, Constants, PathStep
<1>7. Path(0) \in Seq(Pos) /\ Path(1) \in Seq(Pos)
  BY <1>4, Cycle
<1> QED BY <1>1, <1>2, <1>3, <1>4, <1>5, <1>6, <1>7 DEF Path

LEMMA StepHeadPrefill ==
    ASSUME InConversation, drafter = "head", HeadPrefill
    PROVE  GeneratorsInv'
<1> USE DEF flags, cacheVars, locals
<1>1. /\ pc = "first" /\ mc' = mc \o Exactly(<<cur>>) /\ pc' = "aligned"
      /\ UNCHANGED outVars
      /\ UNCHANGED <<drafter, kv, rec, snap, draftGpu, stuck, cur, fed, draft, verified, acc, i,
                     nfeed, mcFed, lag>>
  BY DEF HeadPrefill, InConversation
<1>2. mc = Path(0) /\ mcFed = 0
  BY <1>1, First DEF AtFirst, HeadAt
<1>3. mc' = Path(1)
  BY <1>1, <1>2, First
<1>4. Typed'
  BY <1>1, <1>3, First DEF Typed, Count, outVars
<1>5. Flags'
  BY <1>1, First DEF Flags, Drafting
<1>6. AtFirst'
  <2>1. Rest(0)' /\ HeadAt(1)' /\ Count' = Count
    BY <1>1, <1>2, <1>3, First DEF Rest, HeadAt, Path, outVars, Count
  <2> QED BY <1>1, <2>1, First DEF AtFirst, outVars
<1> QED BY <1>1, <1>4, <1>5, <1>6, Silent DEF GeneratorsInv, Phase, OverConversation

\* The first token is yielded.
LEMMA FirstYielded ==
    ASSUME InConversation, pc = IF drafter = "head" THEN "aligned" ELSE "first",
           Emit(cur), pc' = "cycle", UNCHANGED <<cacheVars, locals, headVars>>
    PROVE  GeneratorsInv'
<1> USE DEF cacheVars, flags, locals, headVars
<1>1. /\ pc \in {"first", "aligned"}
      /\ emitted' = Append(emitted, cur) /\ greedy' = greedy /\ outcome' = outcome
      /\ UNCHANGED <<drafter, kv, rec, snap, draftGpu, stuck, cur, fed, draft, verified, acc, i,
                     nfeed, mc, mcFed, lag>>
  BY DEF Emit, InConversation
<1>2. emitted' = <<cur>>
  BY <1>1, First
<1>3. emitted' \in Seq(Tokens) /\ Count' = 1 /\ Told' /\ Open'
  <2>1. emitted' \in Seq(Tokens) /\ Count' = 1 /\ emitted'[1] = cur
    BY <1>1, <1>2, First DEF Count
  <2> QED BY <1>1, <2>1, First DEF Told, Open
<1>4. Persistent' /\ Running'
  BY <1>1, First DEF Persistent, Running
<1>5. drafter = "head" => mc = Path(1) /\ mcFed = 0
  BY <1>1, First DEF AtFirst, HeadAt
<1>6. Typed'
  <2>1. Count' <= MaxTokens
    BY <1>3, Constants
  <2> QED BY <1>1, <1>3, <2>1, First DEF Typed
<1>7. Flags'
  BY <1>1, First DEF Flags, Drafting
<1>8. AtCycle'
  <2>1. Rest(0)'
    BY <1>1, First DEF Rest, Path
  <2>2. HeadAt(1)'
    BY <1>1, <1>5 DEF HeadAt, Path
  <2>3. Count' >= 1 /\ (Count - 1)' = 0 /\ cur' = greedy'[Count']
    BY <1>1, <1>3, First
  <2> QED BY <1>3, <2>1, <2>2, <2>3 DEF AtCycle
<1> QED BY <1>3, <1>4, <1>6, <1>7, <1>8 DEF GeneratorsInv, Phase, OverConversation

LEMMA StepCycleEnd ==
    ASSUME InConversation, CycleEnd, NoHead
    PROVE  GeneratorsInv'
<1> USE DEF NoHead, headVars, cacheVars, flags, locals
<1>1. /\ pc = "cycle" /\ pc' = "end" /\ outcome' = "complete" /\ greedy' = greedy /\ emitted' = emitted
      /\ UNCHANGED <<drafter, kv, rec, snap, draftGpu, stuck, cur, fed, draft, verified, acc, i, nfeed,
                     mc, mcFed, lag>>
  BY DEF CycleEnd, Return, End, InConversation
<1>2. Count >= 1 /\ Rest(Count - 1) /\ HeadAt(Count) /\ cur = greedy[Count]
  <2>1. AtCycle
    BY <1>1, Cycle DEF OverConversation, Drafting
  <2> QED BY <2>1 DEF AtCycle
<1>3. Typed /\ Count \in 0 .. MaxTokens
  BY <1>1, Cycle
<1>4. Count - 1 \in 0 .. Depth /\ (Count - 1) + 1 = Count /\ Count <= Depth /\ cur \in Tokens
  <2>1. /\ Count - 1 \in 0 .. Depth /\ (Count - 1) + 1 = Count /\ Count <= Depth
        /\ Count - 1 \in 0 .. Depth - 1
    BY <1>2, <1>3, Constants DEF Depth
  <2>2. greedy[(Count - 1) + 1] \in Tokens
    BY <1>1, <2>1, Cycle
  <2> QED BY <1>2, <2>1, <2>2
<1>5. Typed'
  BY <1>1, <1>3 DEF Typed, Count
<1>6. Flags'
  BY <1>1, Cycle DEF Flags, Drafting
<1>7. AtEnd'
  <2> DEFINE n == Count - 1
  <2>1. /\ n \in 0 .. Depth /\ kv' = Path(n) /\ rec' = Path(n) /\ n \in {Count - 1, Count}
        /\ n + 1 = Count
    BY <1>1, <1>2, <1>4 DEF Rest
  <2> HIDE DEF n
  <2>2. drafter = "head" => mc' = Path(n + 1) /\ n + 1 <= Depth /\ cur' \in Tokens
    BY <1>1, <1>2, <1>4, <2>1 DEF HeadAt
  <2> QED BY <1>1, <2>1, <2>2, EndsOnPath
<1> QED BY <1>1, <1>5, <1>6, <1>7 DEF GeneratorsInv, Phase

-----------------------------------------------------------------------------
\* Interruptions.

LEMMA SlicedType ==
    ASSUME NEW S, NEW s \in Seq(S), NEW k \in Nat
    PROVE  SubSeq(s, 1, Len(s) - k) \in Seq(S)
<1>1. Len(s) \in Nat
  BY LenProperties
<1>2. 1 \in Int /\ Len(s) - k \in Int
  BY <1>1
<1>3. \A j \in 1 .. Len(s) - k : s[j] \in S
  <2> SUFFICES ASSUME NEW j \in 1 .. Len(s) - k  PROVE s[j] \in S
    OBVIOUS
  <2>1. j \in 1 .. Len(s)
    BY <1>1
  <2> QED BY <2>1, ElementOfSeq
<1> QED BY <1>2, <1>3, SubSeqProperties

TryBlock == Counted \cup Uncounted \cup {"realign"} \cup HeadUncounted

\* The state saved for the handler.
LEMMA InTry ==
    ASSUME InConversation, pc \in TryBlock
    PROVE  /\ pc \notin {"idle", "start", "end"} /\ Typed
           /\ Count \in Nat /\ Count >= 1 /\ Count < MaxTokens /\ From(Count - 1)
           /\ Count - 1 \in 0 .. Depth /\ (Count - 1) + 1 = Count /\ Count \in 0 .. Depth
           /\ Count <= Depth /\ snap = Path(Count - 1) /\ cur \in Tokens
<1> USE DEF TryBlock, Counted, Uncounted, Forwards, HeadUncounted
<1>0. pc \notin {"idle", "start", "end"} /\ Typed
  BY Cycle
<1>1. Count >= 1 /\ Count < MaxTokens /\ From(Count - 1)
  <2>1. CASE Drafting
    BY <2>1, InDraft DEF AtDraft
  <2>2. CASE pc \in {"rewound", "headRewound"}
    BY <2>2, Rewound DEF AtRewound
  <2>3. CASE pc \in {"verify", "verifyForward", "judge"}
    BY <2>3, VerifyFacts
  <2>4. CASE pc \in {"rejected", "readvance", "readvanceForward"}
    <3>1. AtReadvance
      BY <2>4, Cycle DEF OverConversation, Drafting
    <3> QED BY <3>1 DEF AtReadvance
  <2>5. CASE pc \in {"realign", "realigned"}
    <3>1. AtRealign
      BY <2>5, Cycle DEF OverConversation, Drafting
    <3> QED BY <3>1 DEF AtRealign, Emitting
  <2> QED BY <2>1, <2>2, <2>3, <2>4, <2>5 DEF Drafting
<1>2. /\ Count - 1 \in 0 .. Depth /\ (Count - 1) + 1 = Count /\ snap = Path(Count - 1)
      /\ Count \in Nat /\ Count \in 0 .. Depth /\ cur \in Tokens
  BY <1>0, <1>1, InCycle
<1> QED BY <1>0, <1>1, <1>2, Constants

\* The handler's rewind ends up where the cycle started.
LEMMA RollsBack ==
    ASSUME InConversation, pc \in Counted \cup {"realign"} \cup HeadUncounted
    PROVE  /\ SubSeq(kv, 1, Len(kv) - fed) = Path(Count - 1) /\ Len(kv) - fed = Count - 1
           /\ drafter = "head" /\ pc \notin HeadUncounted =>
                 SubSeq(mc, 1, Len(mc) - mcFed) = Path(Count)
<1> USE DEF Counted, HeadUncounted
<1>0. /\ pc \notin {"idle", "start", "end"} /\ Typed
      /\ Count \in Nat /\ Count >= 1 /\ Count < MaxTokens /\ From(Count - 1)
      /\ Count - 1 \in 0 .. Depth /\ (Count - 1) + 1 = Count /\ Count \in 0 .. Depth
  BY InTry DEF TryBlock
<1>1. Count >= 1 /\ Count < MaxTokens /\ From(Count - 1)
  BY <1>0
<1>2. /\ Count - 1 \in 0 .. Depth /\ (Count - 1) + 1 = Count
      /\ Count \in Nat /\ Count \in 0 .. Depth
  BY <1>0
<1>3. /\ Path(Count - 1) \in Seq(Pos) /\ Len(Path(Count - 1)) = Count - 1
      /\ Path(Count) \in Seq(Pos) /\ Len(Path(Count)) = Count
  BY <1>0, <1>2, Cycle
<1>4. ASSUME mc = Path(Count), mcFed = 0  PROVE SubSeq(mc, 1, Len(mc) - mcFed) = Path(Count)
  <2>1. Len(mc) - mcFed = Len(mc)
    BY <1>2, <1>3, <1>4
  <2> QED BY <1>3, <1>4, <2>1, SubSeqFull
<1>5. ASSUME kv = Path(Count - 1), fed = 0
      PROVE  SubSeq(kv, 1, Len(kv) - fed) = Path(Count - 1) /\ Len(kv) - fed = Count - 1
  <2>1. Len(kv) - fed = Len(kv)
    BY <1>2, <1>3, <1>5
  <2> QED BY <1>3, <1>5, <2>1, SubSeqFull
<1>6. CASE Drafting
  <2>1. AtDraft
    BY <1>6, InDraft
  <2>2. CASE drafter = "self"
    <3>1. fed = Len(draft) /\ Len(kv) = Count - 1 + fed + 0 /\ SubSeq(kv, 1, Count - 1) = Path(Count - 1)
      BY <1>0, <2>1, <2>2 DEF AtDraft
    <3>2. fed \in Nat
      BY <1>0 DEF Typed
    <3>3. Len(kv) - fed = Count - 1
      BY <1>2, <3>1, <3>2
    <3> QED BY <1>1, <1>2, <2>2, <3>1, <3>3
  <2>3. CASE drafter = "head"
    <3>1. /\ Rest(Count - 1) /\ fed = 0
          /\ Len(mc) = Count + mcFed + (IF pc = "headForward" THEN 1 ELSE 0)
          /\ SubSeq(mc, 1, Count) = Path(Count)
      BY <2>1, <2>3 DEF AtDraft
    <3>2. mcFed \in Nat
      BY <1>0 DEF Typed
    <3>3. pc # "headForward" => Len(mc) - mcFed = Count
      BY <1>2, <3>1, <3>2
    <3> QED BY <1>1, <1>2, <1>5, <3>1, <3>3 DEF Rest
  <2> QED BY <2>2, <2>3, Cycle
<1>7. CASE pc = "verify"
  <2>1. AtVerify /\ HeadAt(Count)
    BY <1>7, VerifyFacts
  <2>2. kv = Path(Count - 1) /\ fed = 0
    BY <1>7, <2>1 DEF AtVerify
  <2> QED BY <1>1, <1>2, <1>4, <1>5, <2>1, <2>2 DEF HeadAt
<1>8. CASE pc = "judge"
  <2>1. AtJudge /\ HeadAt(Count) /\ Exactly(Candidate) \in Seq(Pos) /\ Len(Exactly(Candidate)) = K + 1
    BY <1>8, VerifyFacts
  <2>2. kv = Path(Count - 1) \o Exactly(Candidate) /\ fed = K + 1
    BY <2>1 DEF AtJudge
  <2> DEFINE p == Path(Count - 1)
             q == Exactly(Candidate)
  <2>3. p \in Seq(Pos) /\ q \in Seq(Pos) /\ Len(q) = K + 1 /\ kv = p \o q /\ Len(p) \in Nat
    BY <1>2, <1>3, <2>1, <2>2
  <2> HIDE DEF p, q
  <2>4. Len(kv) = Len(p) + Len(q)
    BY <2>3, ConcatProperties
  <2>5. Len(kv) - fed = Len(p)
    BY <2>2, <2>3, <2>4, Constants
  <2>6. SubSeq(kv, 1, Len(kv) - fed) = p
    BY <2>3, <2>5, DropAppended
  <2>7. Len(p) = Count - 1
    BY <1>3 DEF p
  <2> QED BY <1>1, <1>2, <1>4, <2>1, <2>5, <2>6, <2>7 DEF HeadAt, p
<1>9. CASE pc = "readvance"
  <2>1. AtReadvance /\ HeadAt(Count)
    BY <1>9, ReadvanceFacts
  <2>2. kv = Path(Count - 1) /\ fed = 0
    BY <1>9, <2>1 DEF AtReadvance
  <2> QED BY <1>1, <1>2, <1>4, <1>5, <2>1, <2>2 DEF HeadAt
<1>10. CASE pc \in {"realign", "realigned"}
  <2>1. Emitting(Count - 1) /\ (pc = "realign" => HeadAt(Count))
    <3>1. AtRealign
      BY <1>10, Cycle DEF OverConversation, Drafting
    <3> QED BY <3>1 DEF AtRealign
  <2>2. SubSeq(kv, 1, Len(kv) - fed) = Path(Count - 1) /\ Len(kv) - fed = Count - 1
    BY <1>0, <2>1, EmissionFacts
  <2> QED BY <1>1, <1>2, <1>4, <1>10, <2>1, <2>2 DEF HeadAt
<1>11. CASE pc = "headRewound"
  <2>1. AtRewound
    BY <1>11, Rewound
  <2>2. kv = Path(Count - 1) /\ fed = 0
    BY <1>11, <2>1 DEF AtRewound, Rest
  <2> QED BY <1>5, <1>11, <2>2
<1> QED BY <1>0, <1>6, <1>7, <1>8, <1>9, <1>10, <1>11 DEF Drafting

LEMMA StepInterrupt ==
    ASSUME InConversation,
           (drafter = "self" /\ Interrupt /\ NoHead) \/ (drafter = "head" /\ HeadInterrupt)
    PROVE  GeneratorsInv'
<1> USE DEF flags, locals
<1>1. /\ pc' = "end" /\ greedy' = greedy /\ emitted' = emitted
      /\ kv' = SubSeq(kv, 1, Len(kv) - fed) /\ rec' = snap
      /\ UNCHANGED <<drafter, snap, stuck, cur, fed, draft, verified, acc, i, nfeed, mcFed, lag>>
      /\ IF drafter = "head" THEN mc' = SubSeq(mc, 1, Len(mc) - mcFed) /\ draftGpu' = draftGpu
         ELSE mc' = mc /\ draftGpu' = FALSE
  BY Cycle DEF Interrupt, HeadInterrupt, NoHead, headVars, Rewind, Rollback, TrimHead, Return, End,
               InConversation
<1>2. \/ outcome' = "cut" /\ pc \in Counted \cup {"realign"}
      \/ outcome' = "torn" /\ pc \in Uncounted
      \/ outcome' = "strayed" /\ pc \in HeadUncounted
  BY DEF Interrupt, HeadInterrupt, Return, End
<1>3. pc \in TryBlock
  BY <1>2 DEF TryBlock
<1>4. /\ Typed /\ Flags /\ fed \in Nat /\ mcFed \in Nat /\ kv \in Seq(Pos) /\ mc \in Seq(Pos)
      /\ drafter \in {"self", "head"} /\ greedy \in [Horizon -> Tokens]
      /\ pc \notin {"idle", "start", "end"}
  BY <1>3, InTry, Cycle DEF Typed
<1>5. Typed'
  <2>1. kv' \in Seq(Pos) /\ mc' \in Seq(Pos)
    <3>1. SubSeq(kv, 1, Len(kv) - fed) \in Seq(Pos) /\ SubSeq(mc, 1, Len(mc) - mcFed) \in Seq(Pos)
      BY <1>4, SlicedType
    <3> QED BY <1>1, <1>4, <3>1
  <2>2. draftGpu' \in BOOLEAN
    <3>1. draftGpu \in BOOLEAN
      BY <1>4 DEF Typed
    <3> QED BY <1>1, <3>1, Zenon
  <2> QED BY <1>1, <1>4, <2>1, <2>2 DEF Typed, Count
<1>6. Flags'
  <2>1. drafter = "head" => ~ draftGpu
    BY <1>4 DEF Flags
  <2> QED BY <1>1, <1>4, <2>1 DEF Flags, Drafting
<1> DEFINE n == Count - 1
<1>7. /\ n \in 0 .. Depth /\ rec' = Path(n) /\ n + 1 = Count /\ Count <= Depth /\ cur' \in Tokens
  BY <1>1, <1>3, InTry
<1>8. CASE pc \in Counted \cup {"realign"} \cup HeadUncounted
  <2>1. /\ kv' = Path(n)
        /\ drafter = "head" /\ pc \notin HeadUncounted => mc' = Path(Count)
    BY <1>1, <1>8, RollsBack
  <2>2. (outcome' = "cut" /\ pc \notin HeadUncounted) \/ outcome' = "strayed"
    BY <1>2, <1>8 DEF Counted, Uncounted, Forwards, HeadUncounted
  <2> HIDE DEF n
  <2>3. drafter = "head" /\ outcome' # "strayed" =>
           mc' = Path(n + 1) /\ n + 1 <= Depth /\ cur' \in Tokens
    BY <1>7, <2>1, <2>2
  <2>4. AtEnd'
    BY <1>1, <1>4, <1>7, <2>1, <2>2, <2>3, EndsOnPath
  <2> QED BY <1>1, <1>5, <1>6, <2>4 DEF GeneratorsInv, Phase
<1>9. CASE outcome' = "torn"
  <2> HIDE DEF n
  <2>1. Len(Path(n)) = n
    BY <1>4, <1>7, Cycle
  <2>2. rec' = Path(Len(rec))' /\ Len(rec') <= Depth
    BY <1>1, <1>7, <2>1 DEF Path
  <2>3. AtEnd'
    BY <1>1, <1>4, <1>9, <2>2 DEF AtEnd
  <2> QED BY <1>1, <1>5, <1>6, <2>3 DEF GeneratorsInv, Phase
<1> QED BY <1>2, <1>8, <1>9

\* A turn that is dropped, or whose prompt does not go in.
LEMMA StepDrop ==
    ASSUME InConversation, NEW safe, safe \subseteq Unprotected \cup {"first", "aligned"},
           drafter = "head" => "first" \notin safe,
           Drop(safe), NoHead
    PROVE  GeneratorsInv'
<1> USE DEF NoHead, headVars, cacheVars, flags, locals
<1>1. /\ \/ pc \in safe /\ outcome' = "cut"
         \/ pc \in {"start", "truncateForward"} /\ outcome' = "torn"
      /\ pc' = "end" /\ greedy' = greedy /\ emitted' = emitted
      /\ UNCHANGED <<drafter, kv, rec, snap, draftGpu, stuck, cur, fed, draft, verified, acc, i, nfeed,
                     mc, mcFed, lag>>
  BY DEF Drop, Return, End, InConversation
<1>2. pc \in {"start", "first", "aligned", "cycle", "emit", "yielded", "truncate", "truncateForward"}
  BY <1>1 DEF Unprotected
<1>3. /\ Typed /\ Flags /\ drafter \in {"self", "head"}
      /\ pc # "start" => greedy \in [Horizon -> Tokens] /\ Count \in 0 .. MaxTokens
  BY <1>2, Cycle
<1>4. Typed'
  BY <1>1, <1>3 DEF Typed, Count
<1>5. Flags'
  BY <1>1, <1>2, <1>3 DEF Flags, Drafting
<1>6. ASSUME NEW n \in 0 .. Depth, pc # "start", outcome' = "cut", kv = Path(n), rec = Path(n),
             drafter = "head" => mc = Path(n + 1) /\ n + 1 <= Depth, cur \in Tokens
      PROVE  GeneratorsInv'
  <2>1. AtEnd'
    BY <1>1, <1>2, <1>6, EndsOnPath
  <2> QED BY <1>1, <1>4, <1>5, <2>1 DEF GeneratorsInv, Phase
<1>7. CASE pc = "start"
  <2>1. /\ kv = <<>> /\ rec = <<>> /\ mc = <<>> /\ cur = NoToken /\ greedy \in [Horizon -> Tokens]
    BY <1>7, Where DEF InConversation, AtStart, Reset, Running
  <2>2. Path(0) = <<>> /\ 0 \in 0 .. Depth
    <3>1. 0 \in 0 .. Depth
      BY Constants
    <3>2. PathOf(greedy, 0) \in Seq(Pos) /\ Len(PathOf(greedy, 0)) = 0
      BY <2>1, <3>1, PathFacts
    <3> QED BY <3>1, <3>2, EmptySeq DEF Path
  <2>3. /\ Len(kv') = 0 /\ Len(rec') = 0 /\ kv' = Path(0)' /\ rec' = Path(0)'
        /\ mc' = <<>> /\ cur' = NoToken
    BY <1>1, <2>1, <2>2 DEF Path
  <2>4. OnTheWay(Len(kv))' /\ rec' = Path(Len(rec))' /\ Len(rec') <= Depth
    BY <2>2, <2>3 DEF OnTheWay, Rest, Path
  <2>5. AtEnd'
    BY <1>1, <1>3, <2>1, <2>3, <2>4 DEF AtEnd
  <2> QED BY <1>1, <1>4, <1>5, <2>5 DEF GeneratorsInv, Phase
<1>8. CASE pc \in {"first", "aligned"}
  <2>1. Rest(0) /\ cur \in Tokens /\ 0 \in 0 .. Depth /\ 0 + 1 <= Depth
    BY <1>8, First
  <2>2. outcome' = "cut" /\ (drafter = "head" => pc = "aligned")
    BY <1>1, <1>8
  <2>3. drafter = "head" => mc = Path(0 + 1)
    BY <1>8, <2>2, First DEF AtFirst, HeadAt
  <2> QED BY <1>6, <1>8, <2>1, <2>2, <2>3 DEF Rest
<1>9. CASE pc = "cycle"
  <2> DEFINE n == Count - 1
  <2>1. Count >= 1 /\ Rest(n) /\ HeadAt(Count) /\ cur = greedy[Count]
    <3>1. AtCycle
      BY <1>9, Cycle DEF OverConversation, Drafting
    <3> QED BY <3>1 DEF AtCycle
  <2>2. n \in 0 .. Depth /\ n + 1 = Count /\ Count <= Depth /\ n \in 0 .. Depth - 1
    BY <1>3, <1>9, <2>1, Constants DEF Depth
  <2>3. cur \in Tokens
    <3>1. greedy[n + 1] \in Tokens
      BY <1>9, <2>2, Cycle
    <3> QED BY <2>1, <2>2, <3>1
  <2> HIDE DEF n
  <2> QED BY <1>1, <1>6, <1>9, <2>1, <2>2, <2>3 DEF Rest, HeadAt
<1>10. CASE pc \in {"emit", "yielded"}
  <2> DEFINE m == IF pc = "emit" THEN Count - 1 - i ELSE Count - 2 - i
             n == m + 1 + acc
  <2>1. Emitting(m) /\ HeadAt(IF pc = "emit" THEN Count - i + acc + 1 ELSE Count - i + acc)
    <3>1. (pc = "emit" /\ AtEmit) \/ (pc = "yielded" /\ AtYielded)
      BY <1>10, Cycle DEF OverConversation, Drafting
    <3> QED BY <3>1 DEF AtEmit, AtYielded
  <2>2. /\ m \in Nat /\ n \in 0 .. Depth /\ m + acc + 2 \in 0 .. Depth /\ acc \in Nat
        /\ kv = Path(n) /\ rec = kv /\ cur \in Tokens
    BY <1>10, <2>1, EmissionFacts
  <2>3. /\ (IF pc = "emit" THEN Count - i + acc + 1 ELSE Count - i + acc) = n + 1
        /\ n + 1 <= Depth
    <3>1. i \in Nat /\ Count \in Nat
      BY <1>3, <1>10 DEF Typed
    <3> QED BY <2>2, <3>1
  <2> HIDE DEF m, n
  <2>4. outcome' = "cut" /\ HeadAt(n + 1)
    BY <1>1, <1>10, <2>1, <2>3
  <2> QED BY <1>6, <1>10, <2>2, <2>3, <2>4 DEF HeadAt
<1>11. CASE pc = "truncate"
  <2> DEFINE m == Count - 1 - nfeed
  <2>1. m = Count - 1 - nfeed
    OBVIOUS
  <2> HIDE DEF m
  <2>2. /\ m \in 0 .. Depth /\ m + 1 \in 0 .. Depth /\ HeadAt(m + 1) /\ rec = Path(m)
        /\ kv = Path(m) /\ cur \in Tokens
    BY <1>11, <2>1, TruncateFacts
  <2>3. m + 1 <= Depth /\ outcome' = "cut"
    BY <1>1, <1>11, <2>2
  <2> QED BY <1>6, <1>11, <2>2, <2>3 DEF HeadAt
<1>12. CASE pc = "truncateForward"
  <2> DEFINE m == Count - 1 - nfeed
  <2>1. m = Count - 1 - nfeed
    OBVIOUS
  <2> HIDE DEF m
  <2>2. m \in 0 .. Depth /\ rec = Path(m) /\ outcome' = "torn"
    BY <1>1, <1>12, <2>1, TruncateFacts DEF Unprotected
  <2>3. Len(rec) = m
    BY <1>12, <2>2, Cycle
  <2>4. rec' = Path(Len(rec))' /\ Len(rec') <= Depth
    BY <1>1, <2>2, <2>3 DEF Path
  <2>5. AtEnd'
    BY <1>1, <1>3, <1>12, <2>2, <2>4 DEF AtEnd
  <2> QED BY <1>1, <1>4, <1>5, <2>5 DEF GeneratorsInv, Phase
<1> QED BY <1>2, <1>7, <1>8, <1>9, <1>10, <1>11, <1>12

\* Ctrl+C between the model's part and the head's of the same tokens.
LEMMA HeadStrays ==
    ASSUME InConversation, drafter = "head", pc \in OneAhead, Return("strayed"),
           UNCHANGED <<cacheVars, locals>>, NoHead
    PROVE  GeneratorsInv'
<1> USE DEF NoHead, headVars, cacheVars, flags, locals, OneAhead
<1>1. /\ pc' = "end" /\ outcome' = "strayed" /\ greedy' = greedy /\ emitted' = emitted
      /\ UNCHANGED <<drafter, kv, rec, snap, draftGpu, stuck, cur, fed, draft, verified, acc, i, nfeed,
                     mc, mcFed, lag>>
  BY DEF Return, End, InConversation
<1>2. Typed /\ Flags
  BY Cycle
<1>3. Typed'
  BY <1>1, <1>2 DEF Typed, Count
<1>4. Flags'
  BY <1>1, <1>2 DEF Flags, Drafting
<1>5. \E n \in 0 .. Depth : kv = Path(n) /\ rec = Path(n)
  <2>1. CASE pc = "first"
    BY <2>1, First DEF Rest
  <2>2. CASE pc = "rewind"
    <3> DEFINE m == Count - 1 - nfeed
    <3>1. m = Count - 1 - nfeed
      OBVIOUS
    <3> HIDE DEF m
    <3>2. m \in 0 .. Depth /\ kv = Path(m) /\ rec = Path(m)
      BY <2>2, <3>1, TruncateFacts
    <3> QED BY <3>2
  <2>3. CASE pc = "kept"
    <3> DEFINE m == Count - 1 - nfeed
    <3>1. m = Count - 1 - nfeed
      OBVIOUS
    <3> HIDE DEF m
    <3>2. Count \in 0 .. Depth /\ kv = Path(Count) /\ rec = Path(Count)
      BY <2>3, <3>1, TruncateFacts
    <3> QED BY <3>2
  <2> QED BY <2>1, <2>2, <2>3
<1>6. AtEnd'
  BY <1>1, <1>5, EndsOnPath
<1> QED BY <1>1, <1>3, <1>4, <1>6 DEF GeneratorsInv, Phase

LEMMA StepFail ==
    ASSUME InConversation, NEW forwards, Fail(forwards), NoHead,
           forwards \subseteq ModelForwards \cup OneAhead \cup {"draft", "realign"}
    PROVE  GeneratorsInv'
<1> USE DEF NoHead, headVars, locals
<1>1. /\ pc \notin {"idle", "end"}
      /\ pc' = "end" /\ outcome' = "failed" /\ greedy' = greedy /\ emitted' = emitted
      /\ stuck' = draftGpu
      /\ UNCHANGED <<drafter, kv, rec, snap, draftGpu, cur, fed, draft, verified, acc, i, nfeed,
                     mc, mcFed, lag>>
  BY DEF Fail, Return, End, InConversation, ModelForwards, Forwards, OneAhead
<1>2. Typed /\ Flags /\ drafter \in {"self", "head"}
  BY Cycle
<1>3. greedy \in [Horizon -> Tokens]
  <2>1. CASE pc = "start"
    BY <2>1, Where DEF AtStart, Running, InConversation
  <2>2. CASE pc # "start"
    BY <1>1, <2>2, Cycle
  <2> QED BY <2>1, <2>2
<1>4. Typed'
  <2>1. stuck' \in BOOLEAN
    BY <1>1, <1>2 DEF Typed
  <2> QED BY <1>1, <1>2, <2>1 DEF Typed, Count
<1>5. Flags'
  BY <1>1, <1>2 DEF Flags, Drafting
<1>6. AtEnd'
  BY <1>1, <1>2, <1>3 DEF AtEnd
<1> QED BY <1>1, <1>4, <1>5, <1>6 DEF GeneratorsInv, Phase

-----------------------------------------------------------------------------
\* Prompt lookup.

\* A set of naturals has a least element.
LEMMA LeastElement ==
    ASSUME NEW S, S \subseteq Nat, NEW y \in S
    PROVE  \E x \in S : \A z \in S : x <= z
<1> SUFFICES ASSUME \A x \in S : \E z \in S : ~ (x <= z)
             PROVE  FALSE
  OBVIOUS
<1> DEFINE P == {x \in 0 .. y : \A z \in 0 .. x : z \notin S}
<1>1. y \in Nat
  OBVIOUS
<1>2. ASSUME NEW x \in S, \A z \in 0 .. x - 1 : z \notin S  PROVE FALSE
  <2>1. PICK z \in S : ~ (x <= z)
    OBVIOUS
  <2>2. x \in Nat /\ z \in Nat
    BY <2>1
  <2>3. z \in 0 .. x - 1
    BY <2>1, <2>2
  <2> QED BY <1>2, <2>3
<1>3. 0 \in P
  <2>1. 0 \notin S
    BY <1>2
  <2>2. \A z \in 0 .. 0 : z = 0
    OBVIOUS
  <2> QED BY <1>1, <2>1, <2>2
<1>4. ASSUME NEW x \in 0 .. y - 1, x \in P  PROVE x + 1 \in P
  <2>1. x + 1 \in 0 .. y /\ (x + 1) - 1 = x /\ \A z \in 0 .. x + 1 : z \in 0 .. x \/ z = x + 1
    BY <1>1
  <2>2. x + 1 \notin S
    BY <1>2, <1>4, <2>1
  <2> QED BY <1>4, <2>1, <2>2
<1> HIDE DEF P
<1>5. \A x \in 0 .. y - 1 : x \in P => x + 1 \in P
  BY <1>4
<1>6. \A x \in 0 .. y : x \in P
  BY <1>1, <1>3, <1>5, UpTo
<1>7. y \in P /\ y \in 0 .. y
  BY <1>1, <1>6
<1> QED BY <1>7 DEF P

\* A draft from the history is made of tokens, nDraft at the most.
LEMMA LookupDraftFacts ==
    ASSUME NEW h \in Seq(Tokens), NEW ngram \in Nat \ {0}, NEW nDraft \in Nat
    PROVE  /\ LookupDraft(h, ngram, nDraft) \in Seq(Tokens)
           /\ Len(LookupDraft(h, ngram, nDraft)) <= nDraft
<1> DEFINE query == SubSeq(h, Len(h) - ngram + 1, Len(h))
           starts == {s \in 1 .. Len(h) - ngram : SubSeq(h, s, s + ngram - 1) = query}
           last(s) == Min({Len(h), s + ngram + nDraft - 1})
           next(s) == SubSeq(h, s + ngram, last(s))
           best(s) == \A r \in starts :
                         Len(next(r)) < Len(next(s)) \/ (Len(next(r)) = Len(next(s)) /\ s <= r)
<1>1. Len(h) \in Nat
  BY LenProperties
<1>2. /\ starts \subseteq Nat
      /\ \A s \in starts : s \in Nat /\ 1 <= s /\ s + ngram <= Len(h)
  BY <1>1
<1> HIDE DEF starts
<1>3. ASSUME NEW s \in starts
      PROVE  last(s) = IF Len(h) <= s + ngram + nDraft - 1 THEN Len(h) ELSE s + ngram + nDraft - 1
  <2> DEFINE a == Len(h)
             b == s + ngram + nDraft - 1
  <2>1. a \in Nat /\ b \in Int
    BY <1>1, <1>2
  <2> HIDE DEF a, b
  <2>2. Min({a, b}) = IF a <= b THEN a ELSE b
    <3>1. CASE a <= b
      <4>1. \A x \in {a, b} : (\A y \in {a, b} : x <= y) => x = a
        BY <2>1, <3>1
      <4>2. a \in {a, b} /\ \A y \in {a, b} : a <= y
        BY <2>1, <3>1
      <4> QED BY <3>1, <4>1, <4>2 DEF Min
    <3>2. CASE ~ (a <= b)
      <4>1. \A x \in {a, b} : (\A y \in {a, b} : x <= y) => x = b
        BY <2>1, <3>2
      <4>2. b \in {a, b} /\ \A y \in {a, b} : b <= y
        BY <2>1, <3>2
      <4> QED BY <3>2, <4>1, <4>2 DEF Min
    <3> QED BY <3>1, <3>2
  <2> QED BY <2>2 DEF a, b
<1>4. ASSUME NEW s \in starts
      PROVE  /\ next(s) \in Seq(Tokens)
             /\ Len(next(s)) = last(s) - (s + ngram) + 1
             /\ Len(next(s)) <= nDraft
  <2> DEFINE b == s + ngram
             e == last(s)
  <2>1. b \in Int /\ e \in Int /\ b \in 1 .. Len(h) + 1 /\ e \in 0 .. Len(h) /\ b <= e + 1 /\ e <= b + nDraft - 1
    BY <1>1, <1>2, <1>3
  <2> HIDE DEF b, e
  <2>2. SubSeq(h, b, e) \in Seq(Tokens) /\ Len(SubSeq(h, b, e)) = e - b + 1
    BY <2>1, SliceFacts
  <2>3. Len(SubSeq(h, b, e)) <= nDraft
    BY <2>1, <2>2
  <2> QED BY <2>2, <2>3 DEF b, e
<1>5. ASSUME starts # {}  PROVE \E s \in starts : best(s)
  <2>1. PICK s \in starts : \A r \in starts : s <= r
    BY <1>2, <1>5, LeastElement
  <2>2. ASSUME NEW r \in starts
        PROVE  Len(next(r)) < Len(next(s)) \/ (Len(next(r)) = Len(next(s)) /\ s <= r)
    <3>1. /\ Len(next(s)) = last(s) - (s + ngram) + 1
          /\ Len(next(r)) = last(r) - (r + ngram) + 1
      BY <1>4
    <3>2. /\ last(s) = IF Len(h) <= s + ngram + nDraft - 1 THEN Len(h) ELSE s + ngram + nDraft - 1
          /\ last(r) = IF Len(h) <= r + ngram + nDraft - 1 THEN Len(h) ELSE r + ngram + nDraft - 1
      BY <1>3
    <3>3. s \in Nat /\ r \in Nat /\ s <= r
      BY <1>2, <2>1
    <3> HIDE DEF last, next
    <3>4. last(r) - (r + ngram) + 1 <= last(s) - (s + ngram) + 1
          /\ last(r) \in Int /\ last(s) \in Int
      BY <1>1, <3>2, <3>3
    <3> QED BY <3>1, <3>3, <3>4
  <2> QED BY <2>1, <2>2
<1> HIDE DEF next, last, query
<1>6. CASE Len(h) < ngram \/ starts = {}
  <2>1. LookupDraft(h, ngram, nDraft) = <<>>
    BY <1>6 DEF LookupDraft, starts, query
  <2> QED BY <2>1
<1>7. CASE ~ (Len(h) < ngram \/ starts = {})
  <2> DEFINE c == CHOOSE s \in starts : best(s)
  <2>1. c \in starts
    BY <1>5, <1>7
  <2>2. LookupDraft(h, ngram, nDraft) = next(c)
    BY <1>7 DEF LookupDraft, starts, query, next, last
  <2> HIDE DEF c
  <2> QED BY <1>4, <2>1, <2>2
<1> QED BY <1>6, <1>7

\* The next token yielded joins the history.
LEMMA HistoryGrows ==
    ASSUME NEW p \in Seq(Tokens), NEW e \in Seq(Tokens), NEW k \in 0 .. Len(e) - 1,
           NEW h, h = p \o SubSeq(e, 1, k)
    PROVE  Append(h, e[k + 1]) = p \o SubSeq(e, 1, k + 1)
<1> DEFINE u == SubSeq(e, 1, k)
           v == SubSeq(e, 1, k + 1)
           l == Append(h, e[k + 1])
           r == p \o v
           n == Len(p) + k
<1>1. Len(e) \in Nat /\ Len(p) \in Nat /\ k \in Nat
  BY LenProperties
<1>2. /\ 1 \in 1 .. Len(e) + 1 /\ k \in 0 .. Len(e) /\ k + 1 \in 0 .. Len(e)
      /\ 1 <= k + 1 /\ 1 <= (k + 1) + 1 /\ k + 1 \in 1 .. Len(e)
  BY <1>1
<1>3. u \in Seq(Tokens) /\ Len(u) = k - 1 + 1 /\ \A j \in 1 .. k - 1 + 1 : u[j] = e[1 + j - 1]
  BY <1>2, SliceFacts
<1>4. v \in Seq(Tokens) /\ Len(v) = k + 1 - 1 + 1 /\ \A j \in 1 .. k + 1 - 1 + 1 : v[j] = e[1 + j - 1]
  BY <1>2, SliceFacts
<1>5. e[k + 1] \in Tokens
  BY <1>2, ElementOfSeq
<1> HIDE DEF u, v
<1>6. /\ h \in Seq(Tokens) /\ Len(h) = n
      /\ \A j \in 1 .. n : h[j] = IF j <= Len(p) THEN p[j] ELSE u[j - Len(p)]
  <2>1. /\ p \o u \in Seq(Tokens) /\ Len(p \o u) = Len(p) + Len(u)
        /\ \A j \in 1 .. Len(p) + Len(u) : (p \o u)[j] = IF j <= Len(p) THEN p[j] ELSE u[j - Len(p)]
    BY <1>3, ConcatProperties
  <2>2. Len(u) = k
    BY <1>1, <1>3
  <2> QED BY <2>1, <2>2 DEF u
<1>7. /\ r \in Seq(Tokens) /\ Len(r) = n + 1
      /\ \A j \in 1 .. n + 1 : r[j] = IF j <= Len(p) THEN p[j] ELSE v[j - Len(p)]
  <2>1. /\ p \o v \in Seq(Tokens) /\ Len(p \o v) = Len(p) + Len(v)
        /\ \A j \in 1 .. Len(p) + Len(v) : (p \o v)[j] = IF j <= Len(p) THEN p[j] ELSE v[j - Len(p)]
    BY <1>4, ConcatProperties
  <2>2. Len(p) + Len(v) = n + 1
    BY <1>1, <1>4
  <2> QED BY <2>1, <2>2
<1>8. /\ l \in Seq(Tokens) /\ Len(l) = n + 1
      /\ \A j \in 1 .. n : l[j] = h[j]
      /\ l[n + 1] = e[k + 1]
  BY <1>5, <1>6, AppendProperties
<1> HIDE DEF l, r
<1>9. ASSUME NEW j \in 1 .. n + 1  PROVE l[j] = r[j]
  <2>1. CASE j <= Len(p)
    <3>1. j \in 1 .. n
      BY <1>1, <2>1
    <3> QED BY <1>6, <1>7, <1>8, <2>1, <3>1
  <2>2. CASE ~ (j <= Len(p)) /\ j \in 1 .. n
    <3>1. j - Len(p) \in 1 .. k /\ j - Len(p) \in 1 .. k - 1 + 1 /\ j - Len(p) \in 1 .. k + 1 - 1 + 1
      BY <1>1, <2>2
    <3>2. u[j - Len(p)] = v[j - Len(p)]
      BY <1>3, <1>4, <3>1
    <3> QED BY <1>6, <1>7, <1>8, <2>2, <3>2
  <2>3. CASE j = n + 1
    <3>1. ~ (j <= Len(p)) /\ j - Len(p) = k + 1 /\ k + 1 \in 1 .. k + 1 - 1 + 1 /\ 1 + (k + 1) - 1 = k + 1
      BY <1>1, <2>3
    <3>2. v[k + 1] = e[k + 1]
      BY <1>4, <3>1
    <3> QED BY <1>7, <1>8, <2>3, <3>1, <3>2
  <2>4. j <= Len(p) \/ (~ (j <= Len(p)) /\ j \in 1 .. n) \/ j = n + 1
    <3>1. n \in Nat /\ j \in Int /\ 1 <= j /\ j <= n + 1
      BY <1>1
    <3> HIDE DEF n
    <3>2. j \in 1 .. n \/ j = n + 1
      BY <3>1
    <3> QED BY <3>2, Zenon
  <2> QED BY <2>1, <2>2, <2>3, <2>4, Zenon
<1>10. l = r
  BY <1>7, <1>8, <1>9, SeqEqual
<1> QED BY <1>10 DEF l, r, v

InHistory == GeneratorsInv /\ drafter = "lookup" /\ drafter' = drafter /\ UNCHANGED headVars

\* What the places of a lookup generator have in common.
LEMMA History ==
    ASSUME InHistory
    PROVE  /\ Typed /\ Flags /\ ~ draftGpu /\ i = 0 /\ nfeed = 0 /\ acc \in Nat
           /\ pc \notin {"idle", "start", "end"} =>
                 /\ OverHistory /\ Running /\ Told
                 /\ outcome = "running" /\ greedy \in [Horizon -> Tokens]
                 /\ Count \in 0 .. MaxTokens /\ Len(emitted) = Count /\ Count \in Nat
                 /\ emitted \in Seq(Tokens) /\ draft \in Seq(Tokens)
                 /\ Len(draft) \in 0 .. Ahead
                 /\ \A m \in 0 .. Depth :
                       /\ Path(m) = PathOf(greedy, m)
                       /\ Path(m) \in Seq(Pos) /\ Len(Path(m)) = m
                 /\ \A m \in 0 .. Depth - 1 : greedy[m + 1] \in Tokens
<1>1. Typed /\ Flags /\ drafter = "lookup"
  BY DEF InHistory, GeneratorsInv
<1>2. ~ draftGpu /\ i = 0 /\ nfeed = 0 /\ acc \in Nat
  BY <1>1, Constants DEF Typed, Flags
<1> SUFFICES ASSUME pc \notin {"idle", "start", "end"}
             PROVE  /\ OverHistory /\ Running /\ Told
                    /\ outcome = "running" /\ greedy \in [Horizon -> Tokens]
                    /\ Count \in 0 .. MaxTokens /\ Len(emitted) = Count /\ Count \in Nat
                    /\ emitted \in Seq(Tokens) /\ draft \in Seq(Tokens)
                    /\ Len(draft) \in 0 .. Ahead
                    /\ \A m \in 0 .. Depth :
                          /\ Path(m) = PathOf(greedy, m)
                          /\ Path(m) \in Seq(Pos) /\ Len(Path(m)) = m
                    /\ \A m \in 0 .. Depth - 1 : greedy[m + 1] \in Tokens
  BY <1>1, <1>2
<1>3. OverHistory
  BY <1>1, Where DEF InHistory
<1>4. Running /\ Told /\ outcome = "running" /\ greedy \in [Horizon -> Tokens]
  BY <1>3 DEF OverHistory, Running
<1>5. /\ Len(emitted) \in Nat /\ Len(draft) \in Nat
      /\ emitted \in Seq(Tokens) /\ draft \in Seq(Tokens)
  BY <1>1, LenProperties DEF Typed
<1>6. Count \in 0 .. MaxTokens /\ Len(emitted) = Count /\ Count \in Nat /\ Len(draft) \in 0 .. Ahead
  BY <1>1, <1>5, Constants DEF Typed, Count
<1>7. \A m \in 0 .. Depth :
          Path(m) = PathOf(greedy, m) /\ Path(m) \in Seq(Pos) /\ Len(Path(m)) = m
  BY <1>4, PathFacts DEF Path
<1>8. \A m \in 0 .. Depth - 1 : greedy[m + 1] \in Tokens
  BY <1>4, Constants
<1> QED BY <1>3, <1>4, <1>5, <1>6, <1>7, <1>8

\* What does not change from one place of a lookup to the next, no token yielded.
LEMMA Quiet ==
    ASSUME InHistory, pc \notin {"idle", "start", "end"}, UNCHANGED outVars
    PROVE  /\ drafter' = "lookup" /\ Running' /\ Told' /\ Count' = Count
           /\ (Open => Open') /\ (OpenBefore => OpenBefore')
           /\ \A m \in 0 .. Depth : Path(m)' = Path(m)
           /\ greedy' = greedy /\ emitted' = emitted
<1>1. Running /\ Told /\ drafter = "lookup" /\ UNCHANGED <<drafter, greedy, emitted, outcome>>
  BY History DEF InHistory, outVars
<1> QED BY <1>1 DEF Running, Told, Open, OpenBefore, Count, Path

\* The last token yielded, when it does not end the sequence.
LEMMA StillOpen ==
    ASSUME emitted \in Seq(Tokens), Count >= 1, OpenBefore, Last(emitted) \notin Eos
    PROVE  Open
<1>1. Count \in Nat
  BY LenProperties DEF Count
<1>2. \A j \in 1 .. Count : j \in 1 .. Count - 1 \/ j = Count
  BY <1>1
<1> QED BY <1>2 DEF Open, OpenBefore, Last, Count

\* The history while no token joins it.
LEMMA SameHistory ==
    ASSUME NEW k, Hist(k), hist' = hist, emitted' = emitted
    PROVE  Hist(k)'
BY DEF Hist

LEMMA StepLookupPrefill ==
    ASSUME InHistory, LookupPrefill
    PROVE  GeneratorsInv'
<1> USE DEF cacheVars, flags, headVars
<1>1. /\ pc = "start" /\ pc' = "loop" /\ cur' = greedy[1]
      /\ greedy' = greedy /\ emitted' = emitted /\ outcome' = outcome
      /\ UNCHANGED <<drafter, kv, rec, snap, draftGpu, stuck, fed, draft, verified, acc, i, nfeed,
                     hist, mc, mcFed, lag>>
  BY DEF LookupPrefill, InHistory, outVars
<1>2. Running /\ Reset /\ hist \in Prompts /\ drafter = "lookup"
  BY <1>1, Where DEF InHistory, AtStart
<1>3. Typed /\ Flags
  BY History
<1>4. /\ emitted = <<>> /\ kv = <<>> /\ rec = <<>> /\ Count = 0 /\ Count' = 0
      /\ greedy \in [Horizon -> Tokens]
  BY <1>1, <1>2 DEF Reset, Count, Running
<1>5. Path(0)' = <<>>
  <2>1. 0 \in 0 .. Depth
    BY Constants
  <2>2. PathOf(greedy, 0) \in Seq(Pos) /\ Len(PathOf(greedy, 0)) = 0
    BY <1>4, <2>1, PathFacts
  <2>3. PathOf(greedy, 0) = <<>>
    BY <2>2, EmptySeq
  <2> QED BY <1>1, <2>3 DEF Path
<1>6. Hist(0)'
  <2>1. hist \in Seq(Tokens)
    BY <1>2, Constants
  <2>2. SubSeq(emitted, 1, 0) = <<>>
    BY SubSeqEmpty
  <2>3. hist = hist \o SubSeq(emitted, 1, 0)
    BY <2>1, <2>2, ConcatEmptySeq
  <2> QED BY <1>1, <1>2, <2>3 DEF Hist
<1>7. Typed'
  BY <1>1, <1>3 DEF Typed, Count
<1>8. Flags'
  BY <1>1, <1>2, <1>3 DEF Flags, Drafting
<1>9. AtLoop'
  <2>1. Rest(0)'
    BY <1>1, <1>4, <1>5 DEF Rest
  <2>2. Open' /\ 0 < MaxTokens /\ cur' = greedy'[0 + 1]
    BY <1>1, <1>4, Constants DEF Open
  <2> QED BY <1>4, <1>6, <2>1, <2>2 DEF AtLoop
<1>10. Told' /\ Running'
  BY <1>1, <1>2, <1>4 DEF Told, Running
<1> QED BY <1>1, <1>2, <1>7, <1>8, <1>9, <1>10 DEF GeneratorsInv, Phase, OverHistory

LEMMA StepGive ==
    ASSUME InHistory, Give
    PROVE  GeneratorsInv'
<1> USE DEF cacheVars, flags, headVars, locals
<1>1. /\ pc = "loop" /\ pc' = "gave" /\ emitted' = Append(emitted, cur)
      /\ greedy' = greedy /\ outcome' = outcome
      /\ UNCHANGED <<drafter, kv, rec, snap, draftGpu, stuck, cur, fed, draft, verified, acc, i, nfeed,
                     hist, mc, mcFed, lag>>
  BY DEF Give, Emit, InHistory
<1>2. /\ Typed /\ Flags /\ OverHistory /\ Told /\ Running /\ drafter = "lookup"
      /\ Len(emitted) = Count /\ Count \in Nat /\ emitted \in Seq(Tokens)
      /\ \A m \in 0 .. Depth - 1 : greedy[m + 1] \in Tokens
  BY <1>1, History DEF OverHistory
<1>3. Open /\ Count < MaxTokens /\ Rest(Count) /\ cur = greedy[Count + 1] /\ Hist(Count)
  <2>1. AtLoop
    BY <1>1, <1>2 DEF OverHistory
  <2> QED BY <2>1 DEF AtLoop
<1>4. cur \in Tokens
  <2>1. Count \in 0 .. Depth - 1
    BY <1>2, <1>3, Constants DEF Depth
  <2> QED BY <1>2, <1>3, <2>1
<1>5. /\ emitted' \in Seq(Tokens) /\ Len(emitted') = Count + 1
      /\ \A j \in 1 .. Len(emitted') : emitted'[j] = greedy[j]
      /\ \A j \in 1 .. Count : emitted'[j] = emitted[j]
  <2>1. \A j \in 1 .. Len(emitted) : emitted[j] = greedy[j]
    BY <1>2 DEF Told
  <2>2. cur = greedy[Len(emitted) + 1]
    BY <1>2, <1>3
  <2>3. /\ emitted' \in Seq(Tokens) /\ Len(emitted') = Len(emitted) + 1
        /\ \A j \in 1 .. Len(emitted') : emitted'[j] = greedy[j]
        /\ \A j \in 1 .. Len(emitted) : emitted'[j] = emitted[j]
    BY <1>1, <1>2, <1>4, <2>1, <2>2, Emitted
  <2> QED BY <1>2, <2>3
<1>6. Count' = Count + 1 /\ Count' - 1 = Count
  BY <1>2, <1>5 DEF Count
<1>7. Typed'
  <2>1. Count' <= MaxTokens
    BY <1>2, <1>3, <1>6, Constants
  <2> QED BY <1>1, <1>2, <1>5, <2>1 DEF Typed
<1>8. Flags'
  BY <1>1, <1>2 DEF Flags, Drafting
<1>9. AtGave'
  <2>1. OpenBefore'
    BY <1>3, <1>5, <1>6 DEF OpenBefore, Open
  <2>2. Rest(Count - 1)'
    BY <1>1, <1>3, <1>6 DEF Rest, Path
  <2>3. cur' = greedy'[Count'] /\ Count' >= 1
    BY <1>1, <1>2, <1>3, <1>6
  <2>4. Hist(Count - 1)'
    <3>1. SubSeq(emitted', 1, Count) = SubSeq(emitted, 1, Count)
      <4>1. <<cur>> \in Seq(Tokens) /\ Count \in 0 .. Len(emitted)
        BY <1>2, <1>4
      <4>2. emitted' = emitted \o <<cur>>
        BY <1>1, <1>2, <1>4, AppendIsConcat
      <4> QED BY <1>2, <4>1, <4>2, PrefixOfConcat
    <3> QED BY <1>1, <1>3, <1>6, <3>1 DEF Hist
  <2> QED BY <2>1, <2>2, <2>3, <2>4 DEF AtGave
<1>10. Told' /\ Running'
  BY <1>1, <1>2, <1>5, <1>6 DEF Told, Running, Count
<1> QED BY <1>1, <1>2, <1>7, <1>8, <1>9, <1>10 DEF GeneratorsInv, Phase, OverHistory

LEMMA StepNextDraft ==
    ASSUME InHistory, NextDraft
    PROVE  GeneratorsInv'
<1> USE DEF flags, headVars
<1>1. /\ pc = "gave" /\ Last(emitted) \notin Eos /\ Count < MaxTokens
      /\ hist' = Append(hist, cur) /\ draft' = LookupDraft(hist', Ngram, NDraft) /\ acc' = 0
      /\ snap' = rec /\ pc' = (IF draft' = <<>> THEN "readvance" ELSE "verify")
      /\ UNCHANGED outVars
      /\ UNCHANGED <<drafter, kv, rec, draftGpu, stuck, cur, fed, verified, i, nfeed, mc, mcFed, lag>>
  BY DEF NextDraft, InHistory, Count
<1>2. /\ Typed /\ Flags /\ OverHistory /\ Told /\ Running /\ drafter = "lookup" /\ i = 0 /\ nfeed = 0
      /\ Len(emitted) = Count /\ Count \in Nat /\ emitted \in Seq(Tokens)
  BY <1>1, History DEF OverHistory
<1>3. /\ OpenBefore /\ Count >= 1 /\ Rest(Count - 1) /\ cur = greedy[Count] /\ Hist(Count - 1)
      /\ cur = emitted[Count]
  <2>1. AtGave
    BY <1>1, <1>2 DEF OverHistory
  <2> QED BY <1>2, <2>1 DEF AtGave, Told
<1>4. Open
  BY <1>1, <1>2, <1>3, StillOpen
<1>5. PICK p \in Prompts : hist = p \o SubSeq(emitted, 1, Count - 1)
  BY <1>3 DEF Hist
<1>6. hist' = p \o SubSeq(emitted, 1, Count)
  <2> DEFINE k == Count - 1
  <2>1. k \in 0 .. Len(emitted) - 1 /\ k + 1 = Count
    BY <1>2, <1>3
  <2>2. p \in Seq(Tokens)
    BY Constants
  <2> HIDE DEF k
  <2>3. Append(hist, emitted[k + 1]) = p \o SubSeq(emitted, 1, k + 1)
    BY <1>2, <1>5, <2>1, <2>2, HistoryGrows DEF k
  <2> QED BY <1>1, <1>3, <2>1, <2>3
<1>7. hist' \in Seq(Tokens)
  <2>1. SubSeq(emitted, 1, Count) = emitted /\ p \in Seq(Tokens)
    BY <1>2, SubSeqFull, Constants
  <2> QED BY <1>2, <1>6, <2>1, ConcatProperties
<1>8. draft' \in Seq(Tokens) /\ Len(draft') \in Nat /\ Len(draft') <= Ahead
  <2>1. draft' \in Seq(Tokens) /\ Len(draft') <= NDraft
    BY <1>1, <1>7, Constants, LookupDraftFacts
  <2>2. Len(draft') \in Nat
    BY <2>1, LenProperties
  <2> QED BY <2>1, <2>2, Constants
<1>9. Typed'
  <2>1. acc' \in 0 .. Ahead /\ i' \in 0 .. acc' /\ nfeed' \in 0 .. acc'
    BY <1>1, <1>2, Constants
  <2>2. snap' \in Seq(Pos)
    BY <1>1, <1>2 DEF Typed
  <2> QED BY <1>1, <1>2, <1>8, <2>1, <2>2 DEF Typed, Count, outVars
<1>10. Flags'
  BY <1>1, <1>2 DEF Flags, Drafting
<1>11. /\ Count - 1 \in 0 .. Depth /\ Count - 1 \in 0 .. MaxTokens /\ (Count - 1) + 1 = Count
       /\ (Count - 1) - 0 = Count - 1 /\ (Count - 1) + Len(draft') + 2 <= Depth
  BY <1>1, <1>2, <1>3, <1>8, Constants DEF Depth
<1>12. Count' = Count /\ Path(Count - 1)' = Path(Count - 1) /\ greedy' = greedy /\ emitted' = emitted
  BY <1>1, <1>11, Quiet DEF Path
<1>13. Matching(Count - 1)'
  <2>1. From(Count - 1)'
    BY <1>1, <1>3, <1>11, <1>12 DEF From, Rest
  <2>2. Accepted(Count - 1)'
    BY <1>1, <1>8 DEF Accepted
  <2>3. Hist(Count)'
    BY <1>6, <1>12 DEF Hist
  <2>4. (Count - 1 + Len(draft) + 2 <= Depth)'
    BY <1>11, <1>12
  <2> QED BY <2>1, <2>2, <2>3, <2>4 DEF Matching
<1>14. CASE draft' = <<>>
  <2>1. (Count - 1 - acc)' = Count' - 1
    BY <1>1, <1>2, <1>12
  <2>2. AtStep'
    <3>1. Open' /\ Count' < MaxTokens
      BY <1>1, <1>4, <1>12, Quiet
    <3>2. kv' = Path(Count - 1)' /\ rec' = Path(Count - 1)'
      BY <1>1, <1>3, <1>12 DEF Rest
    <3> QED BY <1>1, <1>13, <1>14, <2>1, <3>1, <3>2 DEF AtStep
  <2> QED BY <1>1, <1>9, <1>10, <1>14, <2>2, Quiet DEF GeneratorsInv, Phase, OverHistory
<1>15. CASE draft' # <<>>
  <2>1. AtLookupVerify'
    <3>1. Open' /\ Count' < MaxTokens
      BY <1>1, <1>4, <1>12, Quiet
    <3>2. kv' = Path(Count - 1)' /\ rec' = Path(Count - 1)'
      BY <1>1, <1>3, <1>12 DEF Rest
    <3> QED BY <1>1, <1>13, <1>15, <3>1, <3>2 DEF AtLookupVerify
  <2> QED BY <1>1, <1>9, <1>10, <1>15, <2>1, Quiet DEF GeneratorsInv, Phase, OverHistory
<1> QED BY <1>14, <1>15

\* An accepted token is yielded, and so are no others but cur.
LEMMA MatchFacts ==
    ASSUME InHistory, pc \in {"judge", "accepted"}, NEW m, m = Count - 1 - acc
    PROVE  /\ Matching(m) /\ Truthful(m) /\ From(m) /\ Accepted(m) /\ Hist(Count)
           /\ m \in 0 .. Depth /\ m \in Nat /\ m + 1 + acc = Count /\ m + Len(draft) + 2 <= Depth
           /\ acc \in 0 .. Len(draft) /\ Len(draft) \in Nat /\ Count >= 1
           /\ kv = Path(m) \o Exactly(Candidate) /\ rec = kv
           /\ Exactly(Candidate) \in Seq(Pos) /\ Len(Exactly(Candidate)) = Len(Candidate)
           /\ Candidate \in Seq(Tokens)
           /\ Path(m) \in Seq(Pos) /\ Len(Path(m)) = m
           /\ pc = "judge" => Open /\ Count < MaxTokens
           /\ pc = "accepted" => OpenBefore /\ acc >= 1
<1>1. /\ AtMatch /\ Typed /\ draft \in Seq(Tokens) /\ Len(draft) \in Nat /\ acc \in Nat
      /\ Count \in Nat /\ \A l \in 0 .. Depth - 1 : greedy[l + 1] \in Tokens
  BY History DEF OverHistory
<1>2. /\ Matching(m) /\ Truthful(m) /\ kv = Path(m) \o Exactly(Candidate) /\ rec = kv
      /\ pc = "judge" => Open /\ Count < MaxTokens
      /\ pc = "accepted" => OpenBefore /\ acc >= 1
  BY <1>1 DEF AtMatch
<1>3. From(m) /\ m + Len(draft) + 2 <= Depth /\ Hist(Count) /\ Accepted(m)
  BY <1>2 DEF Matching
<1>4. m \in Nat /\ acc <= Len(draft) /\ cur = greedy[m + 1]
  BY <1>3 DEF From, Accepted
<1>5. m \in 0 .. Depth - 1 /\ m \in 0 .. Depth /\ m + 1 + acc = Count /\ Count >= 1
      /\ acc \in 0 .. Len(draft)
  BY <1>1, <1>3, <1>4, Constants
<1>6. cur \in Tokens
  BY <1>1, <1>4, <1>5
<1>7. Candidate \in Seq(Tokens)
  BY <1>1, <1>6, CandidateFacts
<1>8. Exactly(Candidate) \in Seq(Pos) /\ Len(Exactly(Candidate)) = Len(Candidate)
  BY <1>7, ExactlyFacts
<1>9. Path(m) \in Seq(Pos) /\ Len(Path(m)) = m
  BY <1>5, History
<1> QED BY <1>1, <1>2, <1>3, <1>4, <1>5, <1>7, <1>8, <1>9

LEMMA StepAccept ==
    ASSUME InHistory, Accept
    PROVE  GeneratorsInv'
<1> USE DEF cacheVars, flags, headVars
<1> DEFINE m == Count - 1 - acc
<1>0. m = Count - 1 - acc
  OBVIOUS
<1>1. /\ pc = "judge" /\ pc' = "accepted" /\ acc < Len(draft) /\ draft[acc + 1] = verified[acc + 1]
      /\ acc' = acc + 1 /\ hist' = Append(hist, draft[acc + 1])
      /\ emitted' = Append(emitted, draft[acc + 1])
      /\ greedy' = greedy /\ outcome' = outcome
      /\ UNCHANGED <<drafter, kv, rec, snap, draftGpu, stuck, cur, fed, draft, verified, i, nfeed,
                     mc, mcFed, lag>>
  BY DEF Accept, Emit, InHistory
<1>2. /\ Typed /\ Flags /\ OverHistory /\ Told /\ Running /\ drafter = "lookup" /\ i = 0 /\ nfeed = 0
      /\ Len(emitted) = Count /\ Count \in Nat /\ emitted \in Seq(Tokens) /\ draft \in Seq(Tokens)
      /\ Len(draft) <= Ahead /\ acc \in Nat
  BY <1>1, History DEF OverHistory
<1> HIDE DEF m
<1>3. /\ Matching(m) /\ Truthful(m) /\ From(m) /\ Accepted(m) /\ Hist(Count)
      /\ m \in 0 .. Depth /\ m \in Nat /\ m + 1 + acc = Count
      /\ Len(draft) \in Nat /\ Count >= 1 /\ m + Len(draft) + 2 <= Depth
      /\ kv = Path(m) \o Exactly(Candidate) /\ rec = kv
      /\ Open /\ Count < MaxTokens
  BY <1>0, <1>1, MatchFacts
<1> DEFINE t == draft[acc + 1]
<1>4. /\ t = greedy[Count + 1] /\ t \in Tokens /\ t = greedy[m + 1 + (acc + 1)]
      /\ acc + 1 \in 1 .. Len(draft)
  <2>1. acc + 1 \in 1 .. Len(verified) /\ acc + 1 \in 1 .. Len(draft) /\ (acc + 1) - 1 = acc
    BY <1>1, <1>2, <1>3 DEF Truthful
  <2>2. \A l \in 1 .. (acc + 1) - 1 : draft[l] = greedy[m + 1 + l]
    BY <1>3, <2>1 DEF Accepted
  <2>3. verified[acc + 1] = greedy[m + 1 + (acc + 1)]
    BY <1>3, <2>1, <2>2 DEF Truthful
  <2>4. m + 1 + (acc + 1) = Count + 1
    BY <1>2, <1>3
  <2>5. draft[acc + 1] \in Tokens
    BY <1>2, <2>1, ElementOfSeq
  <2> QED BY <1>1, <2>1, <2>3, <2>4, <2>5
<1> HIDE DEF t
<1>5. /\ emitted' \in Seq(Tokens) /\ Len(emitted') = Count + 1
      /\ \A j \in 1 .. Len(emitted') : emitted'[j] = greedy[j]
      /\ emitted'[Count + 1] = t
      /\ \A j \in 1 .. Count : emitted'[j] = emitted[j]
  <2>1. \A j \in 1 .. Len(emitted) : emitted[j] = greedy[j]
    BY <1>2 DEF Told
  <2>2. t = greedy[Len(emitted) + 1] /\ emitted' = Append(emitted, t)
    BY <1>1, <1>2, <1>4 DEF t
  <2>3. /\ emitted' \in Seq(Tokens) /\ Len(emitted') = Len(emitted) + 1
        /\ \A j \in 1 .. Len(emitted') : emitted'[j] = greedy[j]
        /\ emitted'[Len(emitted')] = t
        /\ \A j \in 1 .. Len(emitted) : emitted'[j] = emitted[j]
    BY <1>2, <1>4, <2>1, <2>2, Emitted
  <2> QED BY <1>2, <2>3
<1>6. Count' = Count + 1 /\ Count' - 1 = Count /\ m' = m
  <2>1. Count' = Count + 1 /\ Count' - 1 = Count
    BY <1>2, <1>5 DEF Count
  <2>2. Count' - 1 - acc' = m
    BY <1>0, <1>1, <1>2, <2>1
  <2> QED BY <2>1, <2>2 DEF m
<1>7. Typed'
  <2>1. Count' <= MaxTokens /\ acc' \in 0 .. Ahead /\ i' \in 0 .. acc' /\ nfeed' \in 0 .. acc'
    BY <1>1, <1>2, <1>3, <1>6, Constants
  <2> QED BY <1>1, <1>2, <1>5, <2>1 DEF Typed
<1>8. Flags'
  BY <1>1, <1>2 DEF Flags, Drafting
<1>9. Path(m)' = Path(m) /\ From(m)'
  BY <1>1, <1>3, <1>6 DEF From, Path
<1>10. Truthful(m)' /\ Accepted(m)'
  <2>1. Truthful(m)'
    BY <1>1, <1>3, <1>6 DEF Truthful
  <2>2. acc' <= Len(draft')
    BY <1>1, <1>2, <1>3
  <2>3. ASSUME NEW l \in 1 .. acc'  PROVE draft[l] = greedy[m + 1 + l]
    <3>1. l \in 1 .. acc \/ l = acc + 1
      BY <1>1, <1>2
    <3> QED BY <1>3, <1>4, <3>1 DEF Accepted, t
  <2> QED BY <1>1, <1>6, <2>1, <2>2, <2>3 DEF Accepted
<1>11. Hist(Count)'
  <2>1. PICK p \in Prompts : hist = p \o SubSeq(emitted, 1, Count)
    BY <1>3 DEF Hist
  <2>2. SubSeq(emitted', 1, Count) = SubSeq(emitted, 1, Count)
    <3>1. <<t>> \in Seq(Tokens) /\ Count \in 0 .. Len(emitted)
      BY <1>2, <1>4
    <3>2. emitted' = emitted \o <<t>>
      BY <1>1, <1>2, <1>4, AppendIsConcat DEF t
    <3> QED BY <1>2, <3>1, <3>2, PrefixOfConcat
  <2>3. p \in Seq(Tokens) /\ Count \in 0 .. Len(emitted') - 1
    BY <1>2, <1>5, Constants
  <2>4. hist = p \o SubSeq(emitted', 1, Count)
    BY <2>1, <2>2
  <2>5. Append(hist, emitted'[Count + 1]) = p \o SubSeq(emitted', 1, Count + 1)
    BY <1>5, <2>3, <2>4, HistoryGrows
  <2>6. hist' = p \o SubSeq(emitted', 1, Count')
    BY <1>1, <1>5, <1>6, <2>5 DEF t
  <2> QED BY <2>6 DEF Hist
<1>12. Matching(m)'
  BY <1>1, <1>3, <1>6, <1>9, <1>10, <1>11 DEF Matching
<1>13. AtMatch'
  <2>1. OpenBefore'
    BY <1>3, <1>5, <1>6 DEF OpenBefore, Open
  <2>2. Exactly(Candidate)' = Exactly(Candidate)
    BY <1>1 DEF Exactly, Candidate
  <2>3. acc' >= 1 /\ Count' - 1 - acc' = m
    BY <1>0, <1>1, <1>2, <1>6
  <2> QED BY <1>1, <1>3, <1>6, <1>9, <1>10, <1>12, <2>1, <2>2, <2>3 DEF AtMatch
<1>14. Told' /\ Running'
  BY <1>1, <1>2, <1>5, <1>6 DEF Told, Running, Count
<1> QED BY <1>1, <1>2, <1>7, <1>8, <1>13, <1>14 DEF GeneratorsInv, Phase, OverHistory

LEMMA StepAcceptMore ==
    ASSUME InHistory, AcceptMore
    PROVE  GeneratorsInv'
<1> USE DEF cacheVars, flags, headVars, locals
<1> DEFINE m == Count - 1 - acc
<1>0. m = Count - 1 - acc
  OBVIOUS
<1> HIDE DEF m
<1>1. /\ pc = "accepted" /\ pc' = "judge" /\ Last(emitted) \notin Eos /\ Count < MaxTokens
      /\ UNCHANGED outVars
      /\ UNCHANGED <<drafter, kv, rec, snap, draftGpu, stuck, cur, fed, draft, verified, acc, i, nfeed,
                     hist, mc, mcFed, lag>>
  BY DEF AcceptMore, InHistory, Count
<1>2. Typed /\ Flags /\ drafter = "lookup" /\ emitted \in Seq(Tokens) /\ Count \in Nat
  BY <1>1, History DEF InHistory
<1>3. /\ Matching(m) /\ Truthful(m) /\ From(m) /\ Accepted(m) /\ Hist(Count) /\ Count >= 1
      /\ m \in 0 .. Depth /\ kv = Path(m) \o Exactly(Candidate) /\ rec = kv /\ OpenBefore
  BY <1>0, <1>1, MatchFacts
<1>4. Open
  BY <1>1, <1>2, <1>3, StillOpen
<1>5. Typed'
  BY <1>1, <1>2 DEF Typed, Count, outVars
<1>6. Flags'
  BY <1>1, <1>2 DEF Flags, Drafting
<1>7. Count' = Count /\ m' = m /\ Path(m)' = Path(m) /\ Exactly(Candidate)' = Exactly(Candidate)
      /\ greedy' = greedy /\ emitted' = emitted
  <2>1. Count' = Count /\ greedy' = greedy /\ emitted' = emitted
    BY <1>1, Quiet
  <2> QED BY <1>1, <2>1 DEF Path, Exactly, Candidate, m
<1>8. Matching(m)' /\ Truthful(m)'
  BY <1>1, <1>3, <1>7 DEF Matching, Truthful, From, Accepted, Hist
<1>9. AtMatch'
  <2>1. Open' /\ Count' < MaxTokens /\ Count' - 1 - acc' = m'
    BY <1>0, <1>1, <1>4, <1>7, Quiet
  <2> QED BY <1>1, <1>3, <1>7, <1>8, <2>1 DEF AtMatch
<1> QED BY <1>1, <1>5, <1>6, <1>9, Quiet DEF GeneratorsInv, Phase, OverHistory

LEMMA StepReject ==
    ASSUME InHistory, Reject
    PROVE  GeneratorsInv'
<1> USE DEF flags, headVars, locals
<1> DEFINE m == Count - 1 - acc
<1>0. m = Count - 1 - acc
  OBVIOUS
<1> HIDE DEF m
<1>1. /\ pc = "judge" /\ pc' = "readvance"
      /\ rec' = snap /\ kv' = SubSeq(kv, 1, Len(kv) - Len(Candidate))
      /\ UNCHANGED outVars
      /\ UNCHANGED <<drafter, snap, draftGpu, stuck, cur, fed, draft, verified, acc, i, nfeed,
                     hist, mc, mcFed, lag>>
  BY DEF Reject, Rollback, InHistory
<1>2. Typed /\ Flags /\ drafter = "lookup" /\ Count \in Nat
  BY <1>1, History DEF InHistory
<1>3. /\ Matching(m) /\ From(m) /\ Accepted(m) /\ Hist(Count)
      /\ m \in 0 .. Depth /\ kv = Path(m) \o Exactly(Candidate) /\ Open /\ Count < MaxTokens
      /\ Exactly(Candidate) \in Seq(Pos) /\ Len(Exactly(Candidate)) = Len(Candidate)
      /\ Candidate \in Seq(Tokens) /\ Path(m) \in Seq(Pos) /\ Len(Path(m)) = m
  BY <1>0, <1>1, MatchFacts
<1>4. kv' = Path(m) /\ rec' = Path(m)
  <2> DEFINE p == Path(m)
             q == Exactly(Candidate)
  <2>1. p \in Seq(Pos) /\ q \in Seq(Pos) /\ kv = p \o q /\ Len(p) = m /\ Len(q) = Len(Candidate)
    BY <1>3
  <2> HIDE DEF p, q
  <2>2. Len(kv) = Len(p) + Len(q) /\ Len(p) \in Nat /\ Len(q) \in Nat
    BY <2>1, ConcatProperties, LenProperties
  <2>3. Len(kv) - Len(Candidate) = Len(p)
    BY <2>1, <2>2
  <2>4. kv' = p
    BY <1>1, <2>1, <2>3, DropAppended
  <2> QED BY <1>1, <1>3, <2>4 DEF p, From
<1>5. Typed'
  BY <1>1, <1>2, <1>3, <1>4 DEF Typed, Count, outVars
<1>6. Flags'
  BY <1>1, <1>2 DEF Flags, Drafting
<1>7. Count' = Count /\ m' = m /\ Path(m)' = Path(m) /\ greedy' = greedy /\ emitted' = emitted
  <2>1. Count' = Count /\ greedy' = greedy /\ emitted' = emitted
    BY <1>1, Quiet
  <2> QED BY <1>1, <2>1 DEF Path, m
<1>8. Matching(m)'
  BY <1>1, <1>3, <1>7 DEF Matching, From, Accepted, Hist
<1>9. AtStep'
  <2>1. Open' /\ Count' < MaxTokens /\ Count' - 1 - acc' = m'
    BY <1>0, <1>1, <1>3, <1>7, Quiet
  <2> QED BY <1>1, <1>4, <1>7, <1>8, <2>1 DEF AtStep
<1> QED BY <1>1, <1>5, <1>6, <1>9, Quiet DEF GeneratorsInv, Phase, OverHistory

LEMMA StepAcceptAll ==
    ASSUME InHistory, AcceptAll
    PROVE  GeneratorsInv'
<1> USE DEF cacheVars, flags, headVars
<1> DEFINE m == Count - 1 - acc
<1>0. m = Count - 1 - acc
  OBVIOUS
<1> HIDE DEF m
<1>1. /\ pc = "judge" /\ pc' = "loop" /\ acc = Len(draft) /\ cur' = verified[acc + 1]
      /\ UNCHANGED outVars
      /\ UNCHANGED <<drafter, kv, rec, snap, draftGpu, stuck, fed, draft, verified, acc, i, nfeed,
                     hist, mc, mcFed, lag>>
  BY DEF AcceptAll, InHistory
<1>2. /\ Typed /\ Flags /\ drafter = "lookup" /\ Count \in Nat /\ acc \in Nat
      /\ draft \in Seq(Tokens) /\ greedy \in [Horizon -> Tokens]
  BY <1>1, History DEF InHistory
<1>3. /\ Truthful(m) /\ From(m) /\ Accepted(m) /\ Hist(Count)
      /\ m \in 0 .. Depth /\ m \in Nat /\ m + 1 + acc = Count /\ m + Len(draft) + 2 <= Depth
      /\ kv = Path(m) \o Exactly(Candidate) /\ rec = kv /\ Open /\ Count < MaxTokens
  BY <1>0, <1>1, MatchFacts
<1>4. kv = Path(Count)
  <2>1. Candidate = <<greedy[m + 1]>> \o SubSeq(draft, 1, acc)
    BY <1>1, <1>2, <1>3, SubSeqFull DEF Candidate, From
  <2>2. acc \in 0 .. Len(draft) /\ m + 1 + acc <= Depth
    BY <1>1, <1>2, <1>3, Constants
  <2>3. \A l \in 1 .. acc : draft[l] = greedy[m + 1 + l]
    BY <1>3 DEF Accepted
  <2>4. PathOf(greedy, m) \o Exactly(<<greedy[m + 1]>> \o SubSeq(draft, 1, acc)) = PathOf(greedy, m + 1 + acc)
    BY <1>2, <1>3, <2>2, <2>3, FedAlongPath
  <2> QED BY <1>3, <2>1, <2>4 DEF Path
<1>5. cur' = greedy[Count + 1]
  <2>1. acc + 1 \in 1 .. Len(verified) /\ (acc + 1) - 1 = acc
    BY <1>1, <1>2, <1>3 DEF Truthful
  <2>2. \A l \in 1 .. (acc + 1) - 1 : draft[l] = greedy[m + 1 + l]
    BY <1>3, <2>1 DEF Accepted
  <2>3. verified[acc + 1] = greedy[m + 1 + (acc + 1)]
    BY <1>3, <2>1, <2>2 DEF Truthful
  <2>4. m + 1 + (acc + 1) = Count + 1
    BY <1>2, <1>3
  <2> QED BY <1>1, <2>3, <2>4
<1>6. Typed'
  BY <1>1, <1>2 DEF Typed, Count, outVars
<1>7. Flags'
  BY <1>1, <1>2 DEF Flags, Drafting
<1>8. AtLoop'
  <2>1. Open' /\ Count' = Count /\ greedy' = greedy /\ emitted' = emitted
    BY <1>1, <1>3, Quiet
  <2>2. Path(Count)' = Path(Count)
    BY <2>1 DEF Path
  <2>3. Rest(Count)' /\ Hist(Count)' /\ cur' = greedy'[Count' + 1]
    BY <1>1, <1>3, <1>4, <1>5, <2>1, <2>2 DEF Rest, Hist
  <2> QED BY <1>3, <2>1, <2>3 DEF AtLoop
<1> QED BY <1>1, <1>6, <1>7, <1>8, Quiet DEF GeneratorsInv, Phase, OverHistory

\* What a draft from the history is verified over.
LEMMA LookupVerifyFacts ==
    ASSUME InHistory, pc \in {"verify", "verifyForward"}
    PROVE  /\ AtLookupVerify /\ Open /\ Count < MaxTokens /\ acc = 0 /\ Matching(Count - 1)
           /\ From(Count - 1) /\ Count >= 1 /\ Count \in Nat /\ Count - 1 \in Nat
           /\ Count - 1 \in 0 .. Depth /\ (Count - 1) + 1 = Count
           /\ (Count - 1) + Len(draft) + 2 <= Depth /\ cur = greedy[(Count - 1) + 1]
           /\ draft \in Seq(Tokens) /\ Len(draft) \in Nat
           /\ Candidate \in Seq(Tokens) /\ Len(Candidate) = Len(draft) + 1
           /\ Positions(Candidate) = Exactly(Candidate) /\ Exactly(Candidate) \in Seq(Pos)
           /\ rec = Path(Count - 1) /\ Path(Count - 1) \in Seq(Pos)
<1>1. /\ AtLookupVerify /\ Typed /\ draft \in Seq(Tokens) /\ Len(draft) \in Nat
      /\ Count \in Nat /\ ~ draftGpu /\ \A l \in 0 .. Depth - 1 : greedy[l + 1] \in Tokens
  BY History DEF OverHistory
<1>2. Open /\ Count < MaxTokens /\ acc = 0 /\ Matching(Count - 1) /\ rec = Path(Count - 1)
  BY <1>1 DEF AtLookupVerify
<1>3. From(Count - 1) /\ Count - 1 + Len(draft) + 2 <= Depth
  BY <1>2 DEF Matching
<1>4. Count - 1 \in Nat /\ cur = greedy[Count - 1 + 1]
  BY <1>3 DEF From
<1>5. Count - 1 \in 0 .. Depth - 1 /\ Count - 1 \in 0 .. Depth /\ (Count - 1) + 1 = Count /\ Count >= 1
  BY <1>1, <1>3, <1>4, Constants
<1>6. cur \in Tokens
  BY <1>1, <1>4, <1>5
<1>7. Candidate \in Seq(Tokens) /\ Len(Candidate) = Len(draft) + 1
  BY <1>1, <1>6, CandidateFacts
<1>8. Positions(Candidate) = Exactly(Candidate)
  BY <1>1, <1>7, PositionsFacts DEF Typed
<1>9. Exactly(Candidate) \in Seq(Pos) /\ Path(Count - 1) \in Seq(Pos)
  BY <1>5, <1>7, ExactlyFacts, History
<1> QED BY <1>1, <1>2, <1>3, <1>4, <1>5, <1>7, <1>8, <1>9

LEMMA StepLookupVerifyForward ==
    ASSUME InHistory, VerifyForward, UNCHANGED hist
    PROVE  GeneratorsInv'
<1> USE DEF flags, locals, headVars
<1>1. /\ pc = "verify" /\ kv' = kv \o Positions(Candidate) /\ pc' = "verifyForward"
      /\ UNCHANGED outVars
      /\ UNCHANGED <<drafter, rec, snap, draftGpu, stuck, cur, fed, draft, verified, acc, i, nfeed,
                     hist, mc, mcFed, lag>>
  BY DEF VerifyForward, Advance, InHistory
<1>2. /\ AtLookupVerify /\ Open /\ Count < MaxTokens /\ acc = 0 /\ Matching(Count - 1)
      /\ Count - 1 \in 0 .. Depth /\ Positions(Candidate) = Exactly(Candidate)
      /\ Exactly(Candidate) \in Seq(Pos) /\ rec = Path(Count - 1) /\ Path(Count - 1) \in Seq(Pos)
  BY <1>1, LookupVerifyFacts
<1>3. kv' = Path(Count - 1) \o Exactly(Candidate)
  BY <1>1, <1>2 DEF AtLookupVerify
<1>4. Typed /\ Flags /\ drafter = "lookup"
  BY <1>1, History DEF InHistory
<1>5. Typed'
  <2>1. kv' \in Seq(Pos)
    BY <1>2, <1>3, ConcatProperties
  <2> QED BY <1>1, <1>4, <2>1 DEF Typed, Count, outVars
<1>6. Flags'
  BY <1>1, <1>4 DEF Flags, Drafting
<1>7. AtLookupVerify'
  <2>1. /\ Path(Count - 1)' = Path(Count - 1) /\ Count' = Count /\ greedy' = greedy
        /\ emitted' = emitted /\ Open'
    BY <1>1, <1>2, Quiet DEF Path
  <2>2. Exactly(Candidate)' = Exactly(Candidate)
    BY <1>1 DEF Exactly, Candidate
  <2>3. Matching(Count - 1)'
    BY <1>1, <1>2, <2>1 DEF Matching, From, Accepted, Hist
  <2> QED BY <1>1, <1>2, <1>3, <2>1, <2>2, <2>3 DEF AtLookupVerify
<1> QED BY <1>1, <1>5, <1>6, <1>7, Quiet DEF GeneratorsInv, Phase, OverHistory

LEMMA StepLookupVerifyTokens ==
    ASSUME InHistory, VerifyTokens, UNCHANGED hist
    PROVE  GeneratorsInv'
<1> USE DEF flags, headVars
<1> DEFINE m == Count - 1
           v == verified'
<1>1. /\ pc = "verifyForward" /\ rec' = rec \o Positions(Candidate) /\ fed' = Len(Candidate)
      /\ verified' \in [1 .. fed' -> Tokens]
      /\ pc' = "judge"
      /\ UNCHANGED outVars
      /\ UNCHANGED <<drafter, kv, snap, draftGpu, stuck, cur, draft, acc, i, nfeed, hist, mc, mcFed, lag>>
  BY DEF VerifyTokens, Complete, InHistory
<1>2. /\ AtLookupVerify /\ Open /\ Count < MaxTokens /\ acc = 0 /\ Matching(m) /\ From(m)
      /\ m \in Nat /\ m \in 0 .. Depth /\ m + Len(draft) + 2 <= Depth /\ cur = greedy[m + 1]
      /\ draft \in Seq(Tokens) /\ Len(draft) \in Nat /\ Len(Candidate) = Len(draft) + 1
      /\ Count \in Nat
      /\ Positions(Candidate) = Exactly(Candidate) /\ Exactly(Candidate) \in Seq(Pos)
      /\ rec = Path(m) /\ Path(m) \in Seq(Pos)
  BY <1>1, LookupVerifyFacts
<1>3. kv = Path(m) \o Exactly(Candidate)
  BY <1>1, <1>2 DEF AtLookupVerify
<1>4. Typed /\ Flags /\ drafter = "lookup" /\ greedy \in [Horizon -> Tokens]
  BY <1>1, History DEF InHistory
<1>5. rec' = kv /\ fed' = Len(draft) + 1 /\ v \in [1 .. Len(draft) + 1 -> Tokens] /\ kv \in Seq(Pos)
  BY <1>1, <1>2, <1>3, <1>4 DEF Typed
<1>6. \A j \in 1 .. Len(draft) + 1 :
          verified'[j] \in Answers(SubSeq(kv, 1, Len(kv) - (Len(draft) + 1) + j))
  BY <1>1, <1>5 DEF VerifyTokens
<1>7. Len(draft) + 1 \in Nat
  BY <1>2
<1>8. Len(verified') = Len(draft) + 1 /\ verified' \in Seq(Tokens)
  BY <1>5, <1>7, FunctionIsSeq
<1>9. m = Count - 1 /\ v = verified' /\ m + 1 \in Nat
  BY <1>2
<1> HIDE DEF m, v
<1>10. \A j \in 1 .. Len(draft) + 1 :
           (\A l \in 1 .. j - 1 : draft[l] = greedy[m + 1 + l]) => v[j] = greedy[m + 1 + j]
  <2>1. \A j \in 1 .. Len(draft) + 1 :
            v[j] \in Answers(SubSeq(kv, 1, Len(kv) - (Len(draft) + 1) + j))
    BY <1>6, <1>9
  <2> QED BY <1>2, <1>3, <1>4, <1>5, <2>1, AnswersTruthful
<1>11. Typed'
  <2>1. fed' \in 0 .. Ahead + 1
    BY <1>2, <1>4, <1>5, Constants DEF Typed
  <2>2. rec' \in Seq(Pos)
    BY <1>5
  <2> QED BY <1>1, <1>4, <1>8, <2>1, <2>2 DEF Typed, Count, outVars
<1>12. Flags'
  BY <1>1, <1>4 DEF Flags, Drafting
<1>13. /\ Count' = Count /\ m' = m /\ Path(m)' = Path(m) /\ Exactly(Candidate)' = Exactly(Candidate)
       /\ greedy' = greedy /\ emitted' = emitted /\ Open'
  <2>1. Count' = Count /\ greedy' = greedy /\ emitted' = emitted /\ Open'
    BY <1>1, <1>2, Quiet
  <2>2. m' = m
    BY <2>1 DEF m
  <2> QED BY <1>1, <2>1, <2>2 DEF Path, Exactly, Candidate
<1>14. Matching(m)' /\ Truthful(m)'
  <2>1. Matching(m)'
    BY <1>1, <1>2, <1>13 DEF Matching, From, Accepted, Hist
  <2>2. Truthful(m)'
    BY <1>1, <1>8, <1>9, <1>10, <1>13 DEF Truthful
  <2> QED BY <2>1, <2>2
<1>15. AtMatch'
  <2>1. Count' - 1 - acc' = m'
    BY <1>1, <1>2, <1>9, <1>13
  <2>2. acc' = 0 /\ Count' < MaxTokens
    BY <1>1, <1>2, <1>13
  <2> QED BY <1>1, <1>2, <1>3, <1>5, <1>13, <1>14, <2>1, <2>2 DEF AtMatch
<1> QED BY <1>1, <1>11, <1>12, <1>15, Quiet DEF GeneratorsInv, Phase, OverHistory

\* A step over the tokens accepted from a draft of the history.
LEMMA LookupStepFacts ==
    ASSUME InHistory, pc \in {"readvance", "readvanceForward"}, NEW m, m = Count - 1 - acc
    PROVE  /\ AtStep /\ Open /\ Count < MaxTokens /\ Matching(m) /\ Hist(Count)
           /\ Count \in 0 .. Depth /\ m \in 0 .. Depth
           /\ Path(m) \o Positions(Confirmed) = Path(Count)
           /\ kv = IF pc = "readvance" THEN Path(m) ELSE Path(Count)
           /\ rec = Path(m) /\ Path(m) \in Seq(Pos) /\ Path(Count) \in Seq(Pos)
<1>1. /\ AtStep /\ Typed /\ draft \in Seq(Tokens) /\ Len(draft) \in Nat /\ acc \in Nat
      /\ Count \in 0 .. MaxTokens /\ Count \in Nat /\ ~ draftGpu /\ greedy \in [Horizon -> Tokens]
  BY History DEF OverHistory
<1>2. /\ Open /\ Count < MaxTokens /\ Matching(m) /\ rec = Path(m)
      /\ kv = IF pc = "readvance" THEN Path(m) ELSE Path(Count)
  BY <1>1 DEF AtStep
<1>3. From(m) /\ m + Len(draft) + 2 <= Depth /\ Hist(Count) /\ Accepted(m)
  BY <1>2 DEF Matching
<1>4. m \in Nat /\ acc \in 0 .. Len(draft) /\ cur = greedy[m + 1]
  BY <1>1, <1>3 DEF From, Accepted
<1>5. /\ m \in 0 .. Depth - 1 /\ m \in 0 .. Depth /\ m + 1 + acc = Count /\ Count \in 0 .. Depth
      /\ m + 1 + acc <= Depth
  BY <1>1, <1>3, <1>4, Constants
<1>6. cur \in Tokens
  BY <1>4, <1>5, History
<1>7. Confirmed \in Seq(Tokens)
  BY <1>1, <1>4, <1>6, FedTokens DEF Confirmed
<1>8. Positions(Confirmed) = Exactly(Confirmed)
  BY <1>1, <1>7, PositionsFacts DEF Typed
<1>9. Path(m) \o Positions(Confirmed) = Path(Count)
  <2>1. \A l \in 1 .. acc : draft[l] = greedy[m + 1 + l]
    BY <1>3 DEF Accepted
  <2>2. PathOf(greedy, m) \o Exactly(<<greedy[m + 1]>> \o SubSeq(draft, 1, acc)) = PathOf(greedy, m + 1 + acc)
    BY <1>1, <1>4, <1>5, <2>1, FedAlongPath
  <2> QED BY <1>4, <1>5, <1>8, <2>2 DEF Path, Confirmed
<1>10. Path(m) \in Seq(Pos) /\ Path(Count) \in Seq(Pos)
  BY <1>5, History
<1> QED BY <1>1, <1>2, <1>3, <1>5, <1>9, <1>10

LEMMA StepLookupReadvance ==
    ASSUME InHistory, ReadvanceForward, UNCHANGED hist
    PROVE  GeneratorsInv'
<1> USE DEF flags, locals, headVars
<1> DEFINE m == Count - 1 - acc
<1>0. m = Count - 1 - acc
  OBVIOUS
<1> HIDE DEF m
<1>1. /\ pc = "readvance" /\ kv' = kv \o Positions(Confirmed) /\ pc' = "readvanceForward"
      /\ UNCHANGED outVars
      /\ UNCHANGED <<drafter, rec, snap, draftGpu, stuck, cur, fed, draft, verified, acc, i, nfeed,
                     hist, mc, mcFed, lag>>
  BY DEF ReadvanceForward, Advance, InHistory
<1>2. /\ Open /\ Count < MaxTokens /\ Matching(m) /\ Path(m) \o Positions(Confirmed) = Path(Count)
      /\ kv = Path(m) /\ rec = Path(m) /\ Path(Count) \in Seq(Pos)
  BY <1>0, <1>1, LookupStepFacts
<1>3. Typed /\ Flags /\ drafter = "lookup"
  BY <1>1, History DEF InHistory
<1>4. Typed'
  BY <1>1, <1>2, <1>3 DEF Typed, Count, outVars
<1>5. Flags'
  BY <1>1, <1>3 DEF Flags, Drafting
<1>6. /\ Count' = Count /\ m' = m /\ Path(m)' = Path(m) /\ Path(Count)' = Path(Count)
      /\ greedy' = greedy /\ emitted' = emitted /\ Open'
  <2>1. Count' = Count /\ greedy' = greedy /\ emitted' = emitted /\ Open'
    BY <1>1, <1>2, Quiet
  <2> QED BY <1>1, <2>1 DEF Path, m
<1>7. Matching(m)'
  BY <1>1, <1>2, <1>6 DEF Matching, From, Accepted, Hist
<1>8. AtStep'
  <2>1. Count' - 1 - acc' = m'
    BY <1>0, <1>1, <1>6
  <2> QED BY <1>1, <1>2, <1>6, <1>7, <2>1 DEF AtStep
<1> QED BY <1>1, <1>4, <1>5, <1>8, Quiet DEF GeneratorsInv, Phase, OverHistory

LEMMA StepLookupStep ==
    ASSUME InHistory, LookupStep
    PROVE  GeneratorsInv'
<1> USE DEF flags, headVars
<1> DEFINE m == Count - 1 - acc
<1>0. m = Count - 1 - acc
  OBVIOUS
<1> HIDE DEF m
<1>1. /\ pc = "readvanceForward" /\ pc' = "loop" /\ rec' = rec \o Positions(Confirmed)
      /\ cur' \in IF rec' = kv THEN Answers(kv) ELSE Tokens
      /\ UNCHANGED outVars
      /\ UNCHANGED <<drafter, kv, snap, draftGpu, stuck, fed, draft, verified, acc, i, nfeed,
                     hist, mc, mcFed, lag>>
  BY DEF LookupStep, Complete, InHistory
<1>2. /\ Open /\ Count < MaxTokens /\ Hist(Count) /\ Path(m) \o Positions(Confirmed) = Path(Count)
      /\ kv = Path(Count) /\ rec = Path(m) /\ Path(Count) \in Seq(Pos) /\ Count \in 0 .. Depth
  BY <1>0, <1>1, LookupStepFacts
<1>3. Typed /\ Flags /\ drafter = "lookup" /\ greedy \in [Horizon -> Tokens]
  BY <1>1, History DEF InHistory
<1>4. rec' = kv /\ cur' = greedy[Count + 1]
  <2>1. Answers(Path(Count)) = {greedy[Count + 1]}
    BY <1>2, <1>3, PathIsOnPath
  <2> QED BY <1>1, <1>2, <2>1
<1>5. Typed'
  BY <1>1, <1>2, <1>3, <1>4 DEF Typed, Count, outVars
<1>6. Flags'
  BY <1>1, <1>3 DEF Flags, Drafting
<1>7. AtLoop'
  <2>1. Open' /\ Count' = Count /\ greedy' = greedy /\ emitted' = emitted
    BY <1>1, <1>2, Quiet
  <2>2. Path(Count)' = Path(Count)
    BY <2>1 DEF Path
  <2>3. Rest(Count)' /\ Hist(Count)' /\ cur' = greedy'[Count' + 1]
    BY <1>1, <1>2, <1>4, <2>1, <2>2 DEF Rest, Hist
  <2> QED BY <1>2, <2>1, <2>3 DEF AtLoop
<1> QED BY <1>1, <1>5, <1>6, <1>7, Quiet DEF GeneratorsInv, Phase, OverHistory

\* The end, and what ends it early, say nothing of this cache.
LEMMA StepLookupEnds ==
    ASSUME InHistory, LookupEnd \/ LookupBreaks
    PROVE  GeneratorsInv'
<1> USE DEF cacheVars, flags, headVars, locals
<1>1. /\ pc \in {"gave", "accepted", "start", "verifyForward", "readvanceForward"} /\ pc' = "end"
      /\ outcome' \in {"complete", "cut", "failed"} /\ greedy' = greedy /\ emitted' = emitted
      /\ UNCHANGED <<drafter, kv, rec, snap, draftGpu, stuck, cur, fed, draft, verified, acc, i, nfeed,
                     hist, mc, mcFed, lag>>
  BY DEF LookupEnd, LookupBreaks, Return, End, InHistory
<1>2. Typed /\ Flags /\ drafter = "lookup"
  BY History DEF InHistory
<1>3. greedy \in [Horizon -> Tokens]
  <2>1. CASE pc = "start"
    BY <2>1, Where DEF AtStart, Running, InHistory
  <2>2. CASE pc # "start"
    BY <1>1, <2>2, History
  <2> QED BY <2>1, <2>2
<1>4. Typed'
  BY <1>1, <1>2 DEF Typed, Count
<1>5. Flags'
  BY <1>1, <1>2 DEF Flags, Drafting
<1>6. AtEnd'
  BY <1>1, <1>2, <1>3 DEF AtEnd, Persistent
<1> QED BY <1>1, <1>4, <1>5, <1>6 DEF GeneratorsInv, Phase

-----------------------------------------------------------------------------
\* The waves, and what lies between two generations.

LEMMA StepWave ==
    ASSUME GeneratorsInv, WaveStep
    PROVE  GeneratorsInv'
<1> USE DEF cacheVars, flags, headVars, locals
<1>1. /\ drafter = "wave"
      /\ UNCHANGED <<drafter, snap, draftGpu, stuck, fed, draft, verified, acc, i, nfeed, hist,
                     mc, mcFed, lag>>
  BY DEF WaveStep
<1>2. Typed /\ Flags /\ pc \in {"start", "loop"}
  BY DEF GeneratorsInv, WaveStep
<1>3. Flags'
  <2>1. draftGpu => stuck
    BY <1>1, <1>2 DEF Flags
  <2> QED BY <1>1, <2>1 DEF Flags
<1>4. ASSUME pc = "start", cur' = greedy[1], pc' = "loop", UNCHANGED <<outVars, kv, rec>>
      PROVE  GeneratorsInv'
  <2>1. Running /\ Reset
    BY <1>4, Where DEF AtStart
  <2>2. Typed'
    BY <1>1, <1>2, <1>4 DEF Typed, Count, outVars
  <2>3. greedy[1] \in Tokens
    BY <2>1, Constants DEF Running
  <2>4. Count = 0 /\ emitted = <<>> /\ kv = <<>> /\ rec = <<>> /\ greedy \in [Horizon -> Tokens]
    BY <2>1 DEF Reset, Count, Running
  <2>5. PathOf(greedy, 0) = <<>>
    <3>1. 0 \in 0 .. Depth
      BY Constants
    <3>2. PathOf(greedy, 0) \in Seq(Pos) /\ Len(PathOf(greedy, 0)) = 0
      BY <2>4, <3>1, PathFacts
    <3> QED BY <3>2, EmptySeq
  <2>6. Count' = 0 /\ greedy' = greedy /\ emitted' = emitted /\ outcome' = outcome
    BY <1>4, <2>4 DEF Count, outVars
  <2>7. Running' /\ Told' /\ Open'
    BY <2>1, <2>4, <2>6 DEF Running, Told, Open
  <2>8. Rest(0)' /\ cur' = greedy'[0 + 1]
    BY <1>4, <2>4, <2>5, <2>6 DEF Rest, Path
  <2>9. InWave'
    <3>1. Len(kv') = Count'
      BY <1>4, <2>4, <2>6
    <3> QED BY <1>4, <2>3, <2>6, <2>7, <2>8, <3>1 DEF InWave
  <2> QED BY <1>1, <1>3, <1>4, <2>2, <2>9 DEF GeneratorsInv, Phase
<1>5. pc = "loop" => InWave /\ Running /\ greedy \in [Horizon -> Tokens]
  BY <1>1, Where DEF InWave, Running
<1>6. ASSUME pc = "loop", Return("complete"), UNCHANGED <<kv, rec, cur>>
      PROVE  GeneratorsInv'
  <2>1. pc' = "end" /\ outcome' = "complete" /\ greedy' = greedy /\ emitted' = emitted
    BY <1>6 DEF Return, End
  <2>2. Typed'
    BY <1>1, <1>2, <1>6, <2>1 DEF Typed, Count
  <2>3. AtEnd'
    BY <1>1, <1>5, <1>6, <2>1 DEF AtEnd, Persistent
  <2> QED BY <1>1, <1>3, <2>1, <2>2, <2>3 DEF GeneratorsInv, Phase
<1>7. ASSUME pc = "loop", cur \notin Eos, Count < MaxTokens, Emit(cur),
             kv' = kv \o Positions(<<cur>>), rec' = kv', cur' \in Answers(kv'), pc' = pc
      PROVE  GeneratorsInv'
  <2>1. emitted' = Append(emitted, cur) /\ greedy' = greedy /\ outcome' = outcome
    BY <1>7 DEF Emit
  <2>2. /\ emitted \in Seq(Tokens) /\ Count \in Nat /\ Len(emitted) = Count /\ cur \in Tokens
        /\ Len(kv) = Count /\ draftGpu \in BOOLEAN /\ kv \in Seq(Pos) /\ Running /\ greedy \in [Horizon -> Tokens]
    BY <1>2, <1>5, <1>7, LenProperties DEF Typed, Count, InWave
  <2>3. emitted' \in Seq(Tokens) /\ Len(emitted') = Count + 1 /\ Count' = Count + 1
    BY <2>1, <2>2, AppendProperties DEF Count
  <2>4. kv' \in Seq(Pos) /\ Len(kv') = Count + 1
    <3> DEFINE one == <<cur>>
    <3>1. one \in Seq(Tokens) /\ Len(one) = 1
      BY <2>2
    <3> HIDE DEF one
    <3> DEFINE q == Positions(one)
    <3>2. q \in Seq(Pos) /\ Len(q) = 1
      BY <2>2, <3>1, PositionsFacts
    <3> HIDE DEF q
    <3>3. kv \o q \in Seq(Pos) /\ Len(kv \o q) = Len(kv) + Len(q)
      BY <2>2, <3>2, ConcatProperties
    <3> QED BY <1>7, <2>2, <3>2, <3>3 DEF one, q
  <2>a. /\ Count \in 0 .. Depth /\ Count + 1 \in 0 .. Depth /\ Count + 1 \in 0 .. Depth - 1
        /\ Count + 1 <= Depth
    BY <1>7, <2>2, Constants DEF Depth
  <2>5. Typed'
    <3>1. Count' <= MaxTokens
      BY <1>7, <2>2, <2>3, Constants
    <3> QED BY <1>1, <1>2, <1>7, <2>3, <2>4, <3>1 DEF Typed
  <2>6. CASE stuck
    <3>1. cur' \in Tokens
      <4>1. (Count + 1) + 1 \in 1 .. Depth
        BY <2>2, <2>a, Constants
      <4>2. greedy[Len(kv') + 1] \in Tokens
        BY <2>2, <2>4, <4>1, Constants
      <4>3. Answers(kv') \subseteq Tokens
        BY <4>2 DEF Answers
      <4> QED BY <1>7, <4>3
    <3>2. InWave'
      BY <1>1, <2>1, <2>2, <2>3, <2>4, <2>6, <3>1 DEF InWave, Running
    <3> QED BY <1>1, <1>3, <1>7, <2>5, <3>2 DEF GeneratorsInv, Phase
  <2>7. CASE ~ stuck
    <3>1. Told /\ Open /\ Rest(Count) /\ cur = greedy[Count + 1] /\ ~ draftGpu
      BY <1>1, <1>2, <1>5, <1>7, <2>7 DEF InWave, Flags
    <3>2. Positions(<<cur>>) = Exactly(<<cur>>)
      <4>1. <<cur>> \in Seq(Tokens)
        BY <2>2
      <4> QED BY <2>2, <3>1, <4>1, PositionsFacts
    <3>3. kv' = Path(Count + 1)
      <4>1. PathOf(greedy, Count) \o Exactly(<<greedy[Count + 1]>>) = PathOf(greedy, Count + 1)
        BY <2>2, <2>a, PathStep
      <4> QED BY <1>7, <3>1, <3>2, <4>1 DEF Rest, Path
    <3>4. cur' = greedy[(Count + 1) + 1] /\ cur' \in Tokens
      <4> DEFINE n == Count + 1
      <4>1. n \in 0 .. Depth /\ n + 1 \in 1 .. Depth
        BY <2>2, <2>a, Constants
      <4> HIDE DEF n
      <4>2. Answers(Path(n)) = {greedy[n + 1]}
        BY <2>2, <4>1, PathIsOnPath
      <4>3. cur' = greedy[n + 1]
        BY <1>7, <2>1, <3>3, <4>2 DEF n
      <4>4. greedy[n + 1] \in Tokens
        BY <2>2, <4>1, Constants
      <4> QED BY <4>3, <4>4 DEF n
    <3>5. Told' /\ Open'
      <4>1. \A j \in 1 .. Len(emitted) : emitted[j] = greedy[j]
        BY <2>2, <3>1 DEF Told
      <4>2. /\ Len(emitted') = Len(emitted) + 1
            /\ \A j \in 1 .. Len(emitted') : emitted'[j] = greedy[j]
            /\ emitted'[Len(emitted')] = cur /\ \A j \in 1 .. Len(emitted) : emitted'[j] = emitted[j]
        BY <2>1, <2>2, <3>1, <4>1, Emitted
      <4>3. \A j \in 1 .. Count' : j \in 1 .. Count \/ j = Count'
        BY <2>2, <2>3
      <4> QED BY <1>7, <2>1, <2>2, <2>3, <3>1, <4>2, <4>3 DEF Told, Open, Count
    <3>6. InWave'
      <4>1. Rest(Count)' /\ cur' = greedy'[Count' + 1]
        BY <1>7, <2>1, <2>3, <3>3, <3>4 DEF Rest, Path
      <4> QED BY <1>1, <2>1, <2>2, <2>3, <2>4, <3>4, <3>5, <4>1 DEF InWave, Running
    <3> QED BY <1>1, <1>3, <1>7, <2>5, <3>6 DEF GeneratorsInv, Phase
  <2> QED BY <2>6, <2>7
<1> QED BY <1>1, <1>4, <1>6, <1>7 DEF WaveStep, Count

LEMMA StepWaveCut ==
    ASSUME GeneratorsInv, drafter = "wave", drafter' = drafter, pc = "loop", Return("cut"),
           UNCHANGED <<cacheVars, locals, headVars, hist>>
    PROVE  GeneratorsInv'
<1> USE DEF cacheVars, flags, headVars, locals
<1>1. /\ pc' = "end" /\ outcome' = "cut" /\ greedy' = greedy /\ emitted' = emitted
      /\ UNCHANGED <<drafter, kv, rec, snap, draftGpu, stuck, cur, fed, draft, verified, acc, i, nfeed,
                     mc, mcFed, lag>>
  BY DEF Return, End
<1>2. Typed /\ Flags
  BY DEF GeneratorsInv
<1>3. InWave /\ greedy \in [Horizon -> Tokens]
  BY Where DEF InWave, Running
<1>4. Typed'
  BY <1>1, <1>2 DEF Typed, Count
<1>5. Flags'
  BY <1>1, <1>2 DEF Flags, Drafting
<1>6. AtEnd'
  BY <1>1, <1>3 DEF AtEnd, Persistent
<1> QED BY <1>1, <1>4, <1>5, <1>6 DEF GeneratorsInv, Phase

LEMMA StepLeave ==
    ASSUME GeneratorsInv, Leave
    PROVE  GeneratorsInv'
<1> USE DEF flags
<1>1. /\ pc = "end" /\ pc' = "idle" /\ drafter' = "none" /\ greedy' = <<>> /\ emitted' = <<>>
      /\ outcome' = "none" /\ kv' = <<>> /\ rec' = <<>> /\ snap' = <<>>
      /\ UNCHANGED <<draftGpu, stuck>>
      /\ cur' = NoToken /\ fed' = 0 /\ draft' = <<>> /\ verified' = <<>>
      /\ acc' = 0 /\ i' = 0 /\ nfeed' = 0 /\ mc' = <<>> /\ mcFed' = 0
      /\ lag' = (drafter = "head" /\ outcome # "failed" /\
                    (lag \/ outcome \in {"torn", "strayed"} \/
                        (outcome = "complete" /\ emitted = <<>>)))
  BY DEF Leave, SpecLeave, HeadLeave
<1>2. Typed /\ Flags
  BY DEF GeneratorsInv
<1>3. Typed'
  <2>1. lag' \in BOOLEAN /\ draftGpu' \in BOOLEAN /\ stuck' \in BOOLEAN
    <3>1. lag' \in BOOLEAN
      BY <1>1, Zenon
    <3> QED BY <1>1, <1>2, <3>1 DEF Typed
  <2>2. Count' = 0 /\ Len(draft') = 0
    BY <1>1 DEF Count
  <2> QED BY <1>1, <2>1, <2>2, Constants DEF Typed
<1>4. Flags'
  <2>1. draftGpu => stuck
    BY <1>1, <1>2 DEF Flags, Drafting
  <2> QED BY <1>1, <2>1 DEF Flags
<1>5. AtIdle'
  BY <1>1 DEF AtIdle, Reset
<1> QED BY <1>1, <1>3, <1>4, <1>5 DEF GeneratorsInv, Phase

LEMMA StepStart ==
    ASSUME GeneratorsInv, Start
    PROVE  GeneratorsInv'
<1> USE DEF cacheVars, flags, locals
<1>1. PICK d \in {"self", "head", "lookup", "wave"} :
        /\ draftGpu => d \in {"self", "wave"}
        /\ SpecStart(d) /\ HeadStart(d)
        /\ IF d = "lookup" THEN hist' \in Prompts ELSE UNCHANGED hist
  BY DEF Start
<1>2. /\ pc = "idle" /\ pc' = "start" /\ drafter' = d /\ greedy' \in [Horizon -> Tokens]
      /\ outcome' = "running" /\ emitted' = emitted
      /\ UNCHANGED <<kv, rec, snap, draftGpu, stuck, cur, fed, draft, verified, acc, i, nfeed, mc, mcFed>>
      /\ lag' \in {FALSE, lag /\ d = "head"}
  BY <1>1 DEF SpecStart, HeadStart
<1>3. Typed /\ Flags /\ AtIdle
  BY <1>2, Where DEF GeneratorsInv
<1>4. Typed'
  <2>1. lag' \in BOOLEAN
    BY <1>2, <1>3, Zenon DEF Typed
  <2>2. i = 0 /\ nfeed = 0
    BY <1>3 DEF AtIdle, Reset
  <2> QED BY <1>2, <1>3, <2>1, <2>2 DEF Typed, Count
<1>5. Flags'
  BY <1>1, <1>2, <1>3 DEF Flags, Drafting
<1>6. AtStart'
  BY <1>1, <1>2, <1>3 DEF AtStart, Running, AtIdle, Reset
<1> QED BY <1>2, <1>4, <1>5, <1>6 DEF GeneratorsInv, Phase

-----------------------------------------------------------------------------
\* The invariant.

LEMMA InvariantInit ==
    ASSUME GeneratorsInit
    PROVE  GeneratorsInv
<1> USE DEF GeneratorsInit, SpecInit, HeadInit
<1>1. Typed
  <2>1. Count = 0 /\ Len(draft) = 0
    BY DEF Count
  <2>2. draftGpu \in BOOLEAN /\ stuck \in BOOLEAN /\ lag \in BOOLEAN
    BY Zenon
  <2>3. fed \in 0 .. Ahead + 1 /\ acc \in 0 .. Ahead /\ mcFed \in Nat /\ i \in 0 .. acc /\ nfeed \in 0 .. acc
    BY Constants
  <2>4. /\ emitted \in Seq(Tokens) /\ draft \in Seq(Tokens) /\ verified \in Seq(Tokens)
        /\ kv \in Seq(Pos) /\ rec \in Seq(Pos) /\ snap \in Seq(Pos) /\ mc \in Seq(Pos)
    OBVIOUS
  <2>5. nfeed = 0 /\ i = 0 /\ Count <= MaxTokens /\ Len(draft) <= Ahead
    BY <2>1, Constants
  <2> QED BY <2>2, <2>3, <2>4, <2>5, Zenon DEF Typed
<1>2. Flags
  BY DEF Flags
<1>3. AtIdle
  BY DEF AtIdle, Reset
<1> QED BY <1>1, <1>2, <1>3 DEF GeneratorsInv, Phase

LEMMA InvariantStutters ==
    ASSUME GeneratorsInv, UNCHANGED vars
    PROVE  GeneratorsInv'
<1>1. UNCHANGED <<drafter, greedy, emitted, outcome, kv, rec, snap, draftGpu, stuck, pc,
                  cur, fed, draft, verified, acc, i, nfeed, mc, mcFed, lag, hist>>
  BY DEF vars, specVars, outVars, cacheVars, flags, locals, headVars
<1>2. Typed' /\ Flags'
  BY <1>1 DEF GeneratorsInv, Typed, Count, Flags, Drafting
<1>3. Count' = Count /\ Exactly(Candidate)' = Exactly(Candidate) /\ \A m : Path(m)' = Path(m)
  BY <1>1 DEF Count, Exactly, Candidate, Path
<1>4. /\ Persistent' = Persistent /\ Running' = Running /\ Told' = Told /\ Open' = Open
      /\ OpenBefore' = OpenBefore /\ Drafting' = Drafting /\ Reset' = Reset
  BY <1>1, <1>3 DEF Persistent, Running, Told, Open, OpenBefore, Drafting, Reset
<1>5. \A m : /\ Rest(m) => Rest(m)'
             /\ From(m) => From(m)'
             /\ HeadAt(m) => HeadAt(m)'
             /\ Accepted(m) => Accepted(m)'
             /\ Judged(m) => Judged(m)'
             /\ Truthful(m) => Truthful(m)'
             /\ Hist(m) => Hist(m)'
  BY <1>1, <1>3 DEF Rest, From, HeadAt, Accepted, Judged, Truthful, Hist
<1>6. \A m : /\ Emitting(m) => Emitting(m)'
             /\ Matching(m) => Matching(m)'
             /\ OnTheWay(m) => OnTheWay(m)'
  BY <1>1, <1>3, <1>5 DEF Emitting, Matching, OnTheWay
<1>7. OverConversation => OverConversation'
  <2>1. /\ AtFirst => AtFirst'
        /\ AtCycle => AtCycle'
        /\ AtDraft => AtDraft'
        /\ AtRewound => AtRewound'
        /\ AtVerify => AtVerify'
        /\ AtJudge => AtJudge'
        /\ AtReadvance => AtReadvance'
    BY <1>1, <1>3, <1>5 DEF AtFirst, AtCycle, AtDraft, AtRewound, AtVerify, AtJudge, AtReadvance
  <2>2. /\ AtRealign => AtRealign'
        /\ AtEmit => AtEmit'
        /\ AtYielded => AtYielded'
        /\ AtTruncate => AtTruncate'
    BY <1>1, <1>3, <1>5, <1>6 DEF AtRealign, AtEmit, AtYielded, AtTruncate
  <2> QED BY <1>1, <1>4, <2>1, <2>2 DEF OverConversation
<1>8. OverHistory => OverHistory'
  <2>1. /\ AtLoop => AtLoop'
        /\ AtGave => AtGave'
        /\ AtLookupVerify => AtLookupVerify'
        /\ AtMatch => AtMatch'
        /\ AtStep => AtStep'
    BY <1>1, <1>3, <1>4, <1>5, <1>6 DEF AtLoop, AtGave, AtLookupVerify, AtMatch, AtStep
  <2> QED BY <1>1, <1>4, <2>1 DEF OverHistory
<1>9. /\ AtIdle => AtIdle'
      /\ AtStart => AtStart'
      /\ InWave => InWave'
      /\ AtEnd => AtEnd'
  BY <1>1, <1>3, <1>4, <1>5, <1>6 DEF AtIdle, AtStart, InWave, AtEnd
<1>10. Phase'
  BY <1>1, <1>7, <1>8, <1>9 DEF GeneratorsInv, Phase
<1> QED BY <1>2, <1>10 DEF GeneratorsInv

LEMMA SelfTurnStep ==
    ASSUME InConversation, drafter = "self", SelfSteps, NoHead
    PROVE  GeneratorsInv'
<1>1. ASSUME YieldFirst  PROVE GeneratorsInv'
  BY <1>1, FirstYielded DEF YieldFirst, NoHead
<1>2. CASE Prefill \/ YieldFirst \/ CycleStart \/ CycleEnd
  BY <1>1, <1>2, StepPrefill, StepCycleStart, StepCycleEnd
<1>3. CASE DraftForward \/ DraftToken \/ DraftRewind \/ DraftDone
  BY <1>3, StepDraftForward, StepDraftToken, StepDraftRewind, StepDraftDone
<1>4. CASE Verify
  BY <1>4, StepVerifyForward, StepVerifyTokens, StepJudge, StepRejectDone,
     StepReadvanceForward, StepReadvanceDone DEF Verify
<1>5. CASE EmitDraft \/ AfterYield \/ EmitNext \/ TruncateForward \/ TruncateDone
  BY <1>5, StepEmitDraft, StepAfterYield, StepEmitNext, StepTruncateForward, StepTruncateDone
<1> QED BY <1>2, <1>3, <1>4, <1>5 DEF SelfSteps

LEMMA HeadTurnStep ==
    ASSUME InConversation, drafter = "head", HeadSteps
    PROVE  GeneratorsInv'
<1>1. ASSUME HeadYieldFirst  PROVE GeneratorsInv'
  BY <1>1, FirstYielded DEF HeadYieldFirst
<1>2. CASE HeadPrefill \/ HeadYieldFirst \/ HeadCycleStart
  BY <1>1, <1>2, StepHeadPrefill, StepHeadCycleStart
<1>3. CASE HeadDraftForward \/ HeadDraft \/ HeadDraftRewind \/ HeadDraftDone
  BY <1>3, StepHeadDraftForward, StepHeadDraft, StepHeadDraftRewind, StepHeadDraftDone
<1>4. CASE Realign \/ RealignDone \/ HeadTruncate \/ HeadKeep \/ HeadTruncateDone
  BY <1>4, StepRealign, StepRealignDone, StepHeadTruncate, StepHeadKeep, StepHeadTruncateDone
<1>5. CASE /\ \/ Prefill \/ CycleEnd \/ Verify \/ EmitDraft \/ AfterYield \/ EmitNext
              \/ TruncateForward
           /\ UNCHANGED headVars
  <2>1. NoHead
    BY <1>5 DEF NoHead
  <2>2. CASE Verify
    BY <2>1, <2>2, StepVerifyForward, StepVerifyTokens, StepJudge, StepRejectDone,
       StepReadvanceForward, StepReadvanceDone DEF Verify
  <2>3. CASE Prefill \/ CycleEnd
    BY <2>1, <2>3, StepPrefill, StepCycleEnd
  <2>4. CASE EmitDraft \/ AfterYield \/ EmitNext \/ TruncateForward
    BY <2>1, <2>4, StepEmitDraft, StepAfterYield, StepEmitNext, StepTruncateForward
  <2> QED BY <1>5, <2>2, <2>3, <2>4
<1> QED BY <1>2, <1>3, <1>4, <1>5 DEF HeadSteps

LEMMA BreakStep ==
    ASSUME GeneratorsInv, Break
    PROVE  GeneratorsInv'
<1>1. CASE drafter = "self" /\ SelfBreaks /\ UNCHANGED <<headVars, hist>> /\ UNCHANGED drafter
  <2>1. InConversation /\ NoHead
    BY <1>1 DEF InConversation, Persistent, NoHead
  <2>2. CASE Interrupt
    BY <1>1, <2>1, <2>2, StepInterrupt
  <2>3. CASE Drop(Unprotected \cup {"first"})
    BY <1>1, <2>1, <2>3, StepDrop
  <2>4. CASE Fail(ModelForwards)
    BY <1>1, <2>1, <2>4, StepFail
  <2> QED BY <1>1, <2>2, <2>3, <2>4 DEF SelfBreaks
<1>2. CASE drafter = "head" /\ HeadBreaks /\ UNCHANGED hist /\ UNCHANGED drafter
  <2>1. InConversation
    BY <1>2 DEF InConversation, Persistent
  <2>2. CASE HeadInterrupt
    BY <1>2, <2>1, <2>2, StepInterrupt
  <2>3. CASE Drop(Unprotected \cup {"aligned"}) /\ NoHead
    <3>1. "first" \notin Unprotected \cup {"aligned"}
      BY DEF Unprotected
    <3> QED BY <1>2, <2>1, <2>3, <3>1, StepDrop
  <2>4. CASE pc \in OneAhead /\ Return("strayed") /\ UNCHANGED <<cacheVars, apart, locals>> /\ NoHead
    BY <1>2, <2>1, <2>4, HeadStrays
  <2>5. CASE Fail(ModelForwards \cup OneAhead \cup {"draft", "realign"}) /\ NoHead
    BY <1>2, <2>1, <2>5, StepFail
  <2> QED BY <1>2, <2>2, <2>3, <2>4, <2>5 DEF HeadBreaks, HeadDrop, NoHead
<1>3. CASE drafter = "lookup" /\ LookupBreaks /\ UNCHANGED headVars /\ UNCHANGED drafter
  BY <1>3, StepLookupEnds DEF InHistory
<1>4. CASE /\ drafter = "wave" /\ pc = "loop" /\ Return("cut")
           /\ UNCHANGED <<cacheVars, locals, headVars, hist>> /\ UNCHANGED drafter
  BY <1>4, StepWaveCut
<1> QED BY <1>1, <1>2, <1>3, <1>4 DEF Break

LEMMA InvariantStep ==
    ASSUME GeneratorsInv, GeneratorsNext
    PROVE  GeneratorsInv'
<1>1. CASE SelfTurn
  BY <1>1, SelfTurnStep DEF SelfTurn, InConversation, Persistent, NoHead
<1>2. CASE HeadTurn
  BY <1>2, HeadTurnStep DEF HeadTurn, InConversation, Persistent
<1>3. CASE LookupTurn
  <2>1. InHistory /\ LookupSteps
    BY <1>3 DEF LookupTurn, InHistory
  <2>2. CASE LookupPrefill
    BY <2>1, <2>2, StepLookupPrefill
  <2>3. CASE Give
    BY <2>1, <2>3, StepGive
  <2>4. CASE NextDraft
    BY <2>1, <2>4, StepNextDraft
  <2>5. CASE LookupEnd
    BY <2>1, <2>5, StepLookupEnds
  <2>6. CASE Accept
    BY <2>1, <2>6, StepAccept
  <2>7. CASE AcceptMore
    BY <2>1, <2>7, StepAcceptMore
  <2>8. CASE Reject
    BY <2>1, <2>8, StepReject
  <2>9. CASE AcceptAll
    BY <2>1, <2>9, StepAcceptAll
  <2>10. CASE LookupStep
    BY <2>1, <2>10, StepLookupStep
  <2>11. CASE VerifyForward /\ UNCHANGED hist
    BY <2>1, <2>11, StepLookupVerifyForward
  <2>12. CASE VerifyTokens /\ UNCHANGED hist
    BY <2>1, <2>12, StepLookupVerifyTokens
  <2>13. CASE ReadvanceForward /\ UNCHANGED hist
    BY <2>1, <2>13, StepLookupReadvance
  <2> QED BY <2>1, <2>2, <2>3, <2>4, <2>5, <2>6, <2>7,
             <2>8, <2>9, <2>10, <2>11, <2>12, <2>13 DEF LookupSteps
<1>4. CASE WaveStep
  BY <1>4, StepWave
<1>5. CASE Break
  BY <1>5, BreakStep
<1>6. CASE Leave
  BY <1>6, StepLeave
<1>7. CASE Start
  BY <1>7, StepStart
<1> QED BY <1>1, <1>2, <1>3, <1>4, <1>5, <1>6, <1>7 DEF GeneratorsNext, Turn

\* The generators always stand where the invariant says, for every K, MaxTokens,
\* set of tokens and lookup setting, wherever Ctrl+C strikes
\* (self_spec_generate, mtp_spec_generate and spec_generate).
THEOREM GeneratorsInvariant == GeneratorsSpec => []GeneratorsInv
<1>1. GeneratorsInit => GeneratorsInv
  BY InvariantInit
<1>2. GeneratorsInv /\ [GeneratorsNext]_vars => GeneratorsInv'
  BY InvariantStep, InvariantStutters
<1> QED BY <1>1, <1>2, PTL DEF GeneratorsSpec

\* A break tears the kinds of layers apart only where a forward, or a rewind in the
\* try block, is not counted yet.
LEMMA BreakLevel ==
    ASSUME GeneratorsInv, Level, Break
    PROVE  Level'
<1>1. pc' = "end" /\ drafter' = drafter /\ apart \in Int
  BY DEF Break, SelfBreaks, HeadBreaks, LookupBreaks, Interrupt, HeadInterrupt, HeadDrop, Drop,
         Fail, Return, Level
<1>2. pc # "end"
  BY DEF Break, SelfBreaks, HeadBreaks, LookupBreaks, Interrupt, HeadInterrupt, HeadDrop, Drop,
         Fail, Return, Counted, Uncounted, Forwards, HeadUncounted, Unprotected, OneAhead,
         ModelForwards
<1>3. apart = 0
  BY <1>2 DEF Level
<1>4. CASE apart' = 0
  BY <1>4 DEF Level
<1>5. CASE Persistent /\ (Interrupt \/ HeadInterrupt)
  <2>1. InConversation
    BY <1>1, <1>5 DEF InConversation
  <2>2. Len(kv) \in Int /\ fed \in Int
    BY <2>1, LenProperties, Constants DEF InConversation, GeneratorsInv, Typed
  <2>3. apart' = IF fed > Len(kv) THEN Len(kv) - fed ELSE 0
    BY <1>5 DEF Interrupt, HeadInterrupt, Rewind
  <2>4. CASE pc \in Counted \cup {"realign"} \cup HeadUncounted
    <3>1. Len(kv) - fed = Count - 1 /\ Count >= 1 /\ Count \in Nat
      BY <2>1, <2>4, RollsBack, InTry DEF TryBlock
    <3>2. apart' = 0
      BY <2>2, <2>3, <3>1
    <3> QED BY <3>2, <1>4
  <2>5. CASE outcome' = "torn"
    <3>1. Persistent'
      BY <1>1, <1>5 DEF Persistent
    <3>2. apart' \in Int
      BY <2>2, <2>3
    <3> QED BY <1>1, <2>5, <3>1, <3>2 DEF Level
  <2> QED BY <1>5, <2>4, <2>5 DEF Interrupt, HeadInterrupt, Return, End
<1>6. CASE Persistent /\ pc = "start" /\ Return("torn") /\ apart' = 1
  BY <1>1, <1>6 DEF Level, Persistent, Return, End
<1> QED BY <1>3, <1>4, <1>5, <1>6
        DEF Break, SelfBreaks, HeadBreaks, HeadDrop, Drop, Fail, Persistent

LEMMA LevelStep ==
    ASSUME GeneratorsInv, Level, [GeneratorsNext]_vars
    PROVE  Level'
<1>1. CASE UNCHANGED vars
  BY <1>1 DEF vars, specVars, outVars, Level, Persistent
<1>2. CASE Turn
  <2>1. pc # "end" /\ apart' = apart
    BY <1>2 DEF Turn, SelfTurn, HeadTurn, LookupTurn, WaveStep, SelfSteps, HeadSteps, LookupSteps,
           Prefill, YieldFirst, CycleStart, CycleEnd, DraftForward, DraftToken, DraftRewind, DraftDone,
           Verify, VerifyForward, VerifyTokens, Judge, RejectDone, ReadvanceForward, ReadvanceDone,
           EmitDraft, AfterYield, EmitNext, TruncateForward, TruncateDone,
           HeadPrefill, HeadYieldFirst, HeadCycleStart, HeadDraftForward, HeadDraft, HeadDraftRewind,
           HeadDraftDone, Realign, RealignDone, HeadTruncate, HeadKeep, HeadTruncateDone,
           LookupPrefill, Give, NextDraft, LookupEnd, Accept, AcceptMore, Reject, AcceptAll, LookupStep
  <2> QED BY <2>1 DEF Level
<1>3. CASE Leave
  BY <1>3 DEF Leave, SpecLeave, Level
<1>4. CASE Start
  BY <1>4 DEF Start, SpecStart, Level
<1> QED BY <1>1, <1>2, <1>3, <1>4, BreakLevel DEF GeneratorsNext

\* The attention and the recurrent layers count the same positions, but for a turn
\* that Ctrl+C cut inside a forward or between a rewind and its statement.
LEMMA LayersStayLevel == GeneratorsSpec => []Level
<1>1. GeneratorsInit => Level
  BY DEF GeneratorsInit, SpecInit, Level
<1>2. GeneratorsInv /\ Level /\ [GeneratorsNext]_vars => Level'
  BY LevelStep
<1> QED BY <1>1, <1>2, GeneratorsInvariant, PTL DEF GeneratorsSpec

-----------------------------------------------------------------------------
\* What the runs check.

\* The state of a generator keeps its types, its counters their bounds.
THEOREM GeneratorsTyped == GeneratorsSpec => []SpecTypeOK
<1>1. ASSUME GeneratorsInv, Level  PROVE SpecTypeOK
  <2>1. Typed /\ apart \in Int
    BY <1>1 DEF GeneratorsInv, Level
  <2>2. outcome \in {"none", "running", "complete", "cut", "torn", "strayed", "failed"}
    BY <1>1 DEF GeneratorsInv, Phase, AtIdle, AtStart, Running, OverConversation, OverHistory,
       InWave, AtEnd
  <2> QED BY <2>1, <2>2 DEF Typed, SpecTypeOK, Pos, Count
<1> QED BY <1>1, GeneratorsInvariant, LayersStayLevel, PTL

\* Whenever the user may take over, at a yield or after the end of a turn, the
\* recurrent layers hold a part of the greedy continuation and drafting is off.  So
\* do the attention layers, and the same part, unless Ctrl+C came inside a forward or
\* between a rewind in the try block and the statement after it (self_spec.py's handlers).
THEOREM GeneratorsRestOnPath == GeneratorsSpec => []RestsOnPath
<1>1. ASSUME GeneratorsInv, Level  PROVE RestsOnPath
  <2> SUFFICES ASSUME pc \in {"cycle", "yielded", "end"}, Persistent, outcome # "failed"
               PROVE  /\ OnPath(rec) /\ (outcome # "torn" => kv = rec /\ apart = 0)
                      /\ draftGpu => stuck
    BY DEF RestsOnPath
  <2>1. draftGpu => stuck
    BY <1>1 DEF GeneratorsInv, Flags, Drafting
  <2>2. outcome # "torn" => apart = 0
    BY <1>1 DEF Level
  <2>3. \E m \in 0 .. Depth :
           rec = Path(m) /\ (outcome # "torn" => kv = rec) /\ greedy \in [Horizon -> Tokens]
    <3>1. CASE pc = "end"
      <4>1. AtEnd
        BY <1>1, <3>1, Where
      <4>2. greedy \in [Horizon -> Tokens]
        BY <4>1 DEF AtEnd
      <4>3. CASE outcome = "torn"
        <5>1. rec = Path(Len(rec)) /\ Len(rec) <= Depth
          BY <4>1, <4>3 DEF AtEnd
        <5>2. Len(rec) \in Nat
          BY <1>1, LenProperties DEF GeneratorsInv, Typed
        <5> QED BY <4>2, <4>3, <5>1, <5>2, Constants
      <4>4. CASE outcome # "torn"
        <5>1. OnTheWay(Len(kv))
          BY <4>1, <4>4 DEF AtEnd
        <5> QED BY <4>2, <5>1 DEF OnTheWay, Rest
      <4> QED BY <4>3, <4>4
    <3>2. CASE pc = "cycle"
      <4>1. OverConversation /\ AtCycle
        BY <1>1, <3>2, Where DEF OverConversation, Drafting
      <4>2. Count \in 0 .. MaxTokens /\ greedy \in [Horizon -> Tokens]
        BY <1>1, <4>1, LenProperties, Constants
           DEF GeneratorsInv, Typed, Count, OverConversation, Running
      <4>3. Count - 1 \in 0 .. Depth /\ Rest(Count - 1)
        BY <4>1, <4>2, Constants DEF AtCycle, Depth
      <4> QED BY <4>2, <4>3 DEF Rest
    <3>3. CASE pc = "yielded"
      <4> DEFINE m == Count - 2 - i
                 n == m + 1 + acc
      <4>1. OverConversation /\ AtYielded
        BY <1>1, <3>3, Where DEF OverConversation, Drafting
      <4>2. greedy \in [Horizon -> Tokens] /\ acc \in Nat
        BY <1>1, <4>1, Constants DEF GeneratorsInv, Typed, OverConversation, Running
      <4>3. m \in Nat /\ m + acc + 2 <= Depth /\ Rest(n)
        BY <4>1 DEF AtYielded, Emitting, From
      <4>4. n \in 0 .. Depth
        <5> HIDE DEF m
        <5> QED BY <4>2, <4>3, Constants
      <4> HIDE DEF n, m
      <4> QED BY <4>2, <4>3, <4>4 DEF Rest
    <3> QED BY <3>1, <3>2, <3>3
  <2> QED BY <2>1, <2>2, <2>3, PathIsOnPath
<1> QED BY <1>1, GeneratorsInvariant, LayersStayLevel, PTL

\* The first tokens of the continuation, as positions.
LEMMA ExactlyPath ==
    ASSUME NEW g \in [Horizon -> Tokens], NEW n \in 0 .. Depth
    PROVE  Exactly(SubSeq(g, 1, n)) = PathOf(g, n)
<1> DEFINE s == SubSeq(g, 1, n)
           e == Exactly(s)
           p == PathOf(g, n)
<1>1. n \in Nat /\ g \in [1 .. Depth -> Tokens] /\ Depth \in Nat
  BY Constants
<1>2. g \in Seq(Tokens) /\ Len(g) = Depth
  BY <1>1, FunctionIsSeq
<1>3. 1 \in 1 .. Len(g) + 1 /\ n \in 0 .. Len(g) /\ 1 <= n + 1
  BY <1>1, <1>2
<1>4. s \in Seq(Tokens) /\ Len(s) = n - 1 + 1 /\ \A j \in 1 .. n - 1 + 1 : s[j] = g[1 + j - 1]
  BY <1>2, <1>3, SliceFacts
<1> HIDE DEF s
<1>5. /\ e \in Seq(Pos) /\ Len(e) = Len(s)
      /\ \A j \in 1 .. Len(s) : e[j] = [token |-> s[j], approx |-> FALSE]
  BY <1>4, ExactlyFacts
<1>6. /\ p \in Seq(Pos) /\ Len(p) = n
      /\ \A j \in 1 .. n : p[j] = [token |-> g[j], approx |-> FALSE]
  BY PathFacts
<1> HIDE DEF e, p
<1>7. Len(s) = n /\ \A j \in 1 .. n : s[j] = g[j]
  <2>1. n - 1 + 1 = n /\ \A j \in 1 .. n : 1 + j - 1 = j
    BY <1>1
  <2> QED BY <1>4, <2>1
<1>8. \A j \in 1 .. n : e[j] = p[j]
  BY <1>5, <1>6, <1>7
<1>9. e = p
  BY <1>5, <1>6, <1>7, <1>8, SeqEqual
<1> QED BY <1>9 DEF e, p, s

\* The head's cache is in step with the prompt cache at every yield and after every
\* turn, but for a turn that ended at its first token, or that Ctrl+C cut where the
\* two are advanced one after the other or a forward is not counted yet
\* (mtp_spec_generate), and for later turns of such a conversation.
THEOREM HeadStaysInStep == GeneratorsSpec => []HeadInStep
<1>1. ASSUME GeneratorsInv  PROVE HeadInStep
  <2> SUFFICES ASSUME drafter = "head", pc \in {"cycle", "yielded", "end"},
                      outcome \notin {"failed", "torn", "strayed"}, ~ lag,
                      outcome = "complete" => emitted # <<>>
               PROVE  mc = IF cur = NoToken THEN <<>> ELSE Exactly(SubSeq(greedy, 1, Len(kv) + 1))
    BY DEF HeadInStep
  <2>0. Persistent /\ NoToken \notin Tokens
    BY SpecConstants DEF Persistent
  <2>1. \/ cur = NoToken /\ mc = <<>>
        \/ cur # NoToken /\ \E n \in 0 .. Depth :
           mc = Path(n + 1) /\ n + 1 <= Depth /\ kv = Path(n) /\ greedy \in [Horizon -> Tokens]
    <3>1. CASE pc = "end"
      <4>1. AtEnd
        BY <1>1, <3>1, Where
      <4>2. OnTheWay(Len(kv)) /\ greedy \in [Horizon -> Tokens]
        BY <2>0, <4>1 DEF AtEnd
      <4>3. \/ cur = NoToken /\ mc = <<>>
            \/ cur # NoToken /\ mc = Path(Len(kv) + 1) /\ Len(kv) + 1 <= Depth
        BY <2>0, <4>1 DEF AtEnd
      <4> QED BY <4>2, <4>3 DEF OnTheWay, Rest
    <3>2. CASE pc = "cycle"
      <4>1. OverConversation /\ AtCycle
        BY <1>1, <2>0, <3>2, Where DEF OverConversation, Drafting
      <4>2. Count \in 0 .. MaxTokens /\ greedy \in [Horizon -> Tokens]
        BY <1>1, <4>1, LenProperties, Constants
           DEF GeneratorsInv, Typed, Count, OverConversation, Running
      <4>3. Count - 1 \in 0 .. Depth /\ Rest(Count - 1) /\ (Count - 1) + 1 = Count /\ Count <= Depth
            /\ mc = Path(Count) /\ cur = greedy[Count] /\ Count \in 1 .. Depth
        BY <4>1, <4>2, Constants DEF AtCycle, Depth, HeadAt
      <4>4. cur # NoToken
        BY <2>0, <4>2, <4>3, Constants
      <4> QED BY <4>2, <4>3, <4>4 DEF Rest
    <3>3. CASE pc = "yielded"
      <4> DEFINE m == Count - 2 - i
                 n == m + 1 + acc
      <4>1. OverConversation /\ AtYielded
        BY <1>1, <2>0, <3>3, Where DEF OverConversation, Drafting
      <4>2. greedy \in [Horizon -> Tokens] /\ acc \in Nat /\ i \in Nat /\ Count \in Nat
        BY <1>1, <4>1, LenProperties, Constants
           DEF GeneratorsInv, Typed, Count, OverConversation, Running
      <4>3. m \in Nat /\ m + acc + 2 <= Depth /\ Rest(n) /\ mc = Path(Count - i + acc)
            /\ cur = greedy[m + 1]
        BY <4>1 DEF AtYielded, Emitting, From, HeadAt
      <4>4. Count - i + acc = n + 1
        BY <4>2
      <4>5. n \in 0 .. Depth /\ n + 1 <= Depth /\ m + 1 \in 1 .. Depth
        <5> HIDE DEF m
        <5> QED BY <4>2, <4>3, Constants
      <4> HIDE DEF n, m
      <4>6. cur # NoToken
        BY <2>0, <4>2, <4>3, <4>5, Constants
      <4> QED BY <4>2, <4>3, <4>4, <4>5, <4>6 DEF Rest
    <3> QED BY <3>1, <3>2, <3>3
  <2>2. CASE cur # NoToken
    <3>1. PICK n \in 0 .. Depth :
             mc = Path(n + 1) /\ n + 1 <= Depth /\ kv = Path(n) /\ greedy \in [Horizon -> Tokens]
      BY <2>1, <2>2
    <3>2. Len(kv) = n /\ n + 1 \in 0 .. Depth
      BY <3>1, PathFacts, Constants DEF Path
    <3>3. mc = Exactly(SubSeq(greedy, 1, Len(kv) + 1))
      BY <3>1, <3>2, ExactlyPath DEF Path
    <3> QED BY <2>2, <3>3
  <2> QED BY <2>1, <2>2
<1> QED BY <1>1, GeneratorsInvariant, PTL

\* What has been yielded, as positions.
LEMMA ToldIsPath ==
    ASSUME greedy \in [Horizon -> Tokens], emitted \in Seq(Tokens), Count <= MaxTokens, Told
    PROVE  /\ Count \in Nat /\ Exactly(emitted) = Path(Count)
           /\ Count >= 1 => Exactly(Front(emitted)) = Path(Count - 1)
<1>1. Count \in Nat /\ Count \in 0 .. Depth /\ greedy \in [1 .. Depth -> Tokens]
  BY LenProperties, Constants DEF Count, Depth
<1>2. /\ Exactly(emitted) \in Seq(Pos) /\ Len(Exactly(emitted)) = Count
      /\ \A j \in 1 .. Count : Exactly(emitted)[j] = [token |-> emitted[j], approx |-> FALSE]
  BY ExactlyFacts DEF Count
<1>3. /\ Path(Count) \in Seq(Pos) /\ Len(Path(Count)) = Count
      /\ \A j \in 1 .. Count : Path(Count)[j] = [token |-> greedy[j], approx |-> FALSE]
  BY <1>1, PathFacts DEF Path
<1>4. Exactly(emitted) = Path(Count)
  <2> DEFINE e == Exactly(emitted)
             p == Path(Count)
  <2>1. /\ e \in Seq(Pos) /\ p \in Seq(Pos) /\ Len(e) = Len(p)
        /\ \A j \in 1 .. Len(e) : e[j] = p[j]
    BY <1>2, <1>3 DEF Told
  <2> HIDE DEF e, p
  <2>2. e = p
    BY <2>1, SeqEqual
  <2> QED BY <2>2 DEF e, p
<1>5. ASSUME Count >= 1  PROVE Exactly(Front(emitted)) = Path(Count - 1)
  <2> DEFINE k == Count - 1
             f == SubSeq(emitted, 1, k)
             e == Exactly(f)
             p == Path(k)
  <2>1. k \in Nat /\ k \in 0 .. Depth /\ k \in 0 .. Len(emitted) /\ 1 \in 1 .. Len(emitted) + 1 /\ 1 <= k + 1
    <3>1. Len(emitted) = Count
      BY DEF Count
    <3> QED BY <1>1, <1>5, <3>1, Constants
  <2>2. f \in Seq(Tokens) /\ Len(f) = k - 1 + 1 /\ \A j \in 1 .. k - 1 + 1 : f[j] = emitted[1 + j - 1]
    BY <2>1, SliceFacts
  <2>3. p \in Seq(Pos) /\ Len(p) = k /\ \A j \in 1 .. k : p[j] = [token |-> greedy[j], approx |-> FALSE]
    BY <2>1, PathFacts DEF Path
  <2>4. \A j \in 1 .. k : j \in 1 .. Count /\ 1 + j - 1 = j
    BY <1>1
  <2>5. Front(emitted) = f
    BY DEF Front, Count
  <2> HIDE DEF f, p
  <2>6. e \in Seq(Pos) /\ Len(e) = Len(f) /\ \A j \in 1 .. Len(f) : e[j] = [token |-> f[j], approx |-> FALSE]
    BY <2>2, ExactlyFacts
  <2> HIDE DEF e
  <2>7. Len(f) = k
    BY <2>1, <2>2
  <2>8. \A j \in 1 .. k : f[j] = greedy[j]
    BY <2>2, <2>4, <2>7 DEF Told
  <2>9. \A j \in 1 .. k : e[j] = p[j]
    BY <2>3, <2>6, <2>7, <2>8
  <2>10. e = p
    BY <2>3, <2>6, <2>7, <2>9, SeqEqual
  <2> QED BY <2>5, <2>10 DEF e, p
<1> QED BY <1>1, <1>4, <1>5

\* A turn that comes to its own end leaves no position beyond the emitted tokens,
\* and lacks at most the last of them.
THEOREM TurnsEndInStep == GeneratorsSpec => []TurnEndsInStep
<1>1. ASSUME GeneratorsInv  PROVE TurnEndsInStep
  <2> SUFFICES ASSUME outcome = "complete", Persistent
               PROVE  kv \in {Exactly(emitted), Exactly(Front(emitted))}
    BY DEF TurnEndsInStep
  <2>1. AtEnd
    BY <1>1 DEF GeneratorsInv, Phase, AtIdle, AtStart, Running, OverConversation, OverHistory, InWave
  <2>2. /\ Told /\ OnTheWay(Len(kv)) /\ Len(kv) \in {Count - 1, Count}
        /\ greedy \in [Horizon -> Tokens]
    BY <2>1 DEF AtEnd
  <2>3. kv = Path(Len(kv)) /\ Len(kv) \in Nat
    BY <2>2, Constants DEF OnTheWay, Rest
  <2>4. emitted \in Seq(Tokens) /\ Count <= MaxTokens
    BY <1>1 DEF GeneratorsInv, Typed
  <2>5. /\ Count \in Nat /\ Exactly(emitted) = Path(Count)
        /\ Count >= 1 => Exactly(Front(emitted)) = Path(Count - 1)
    BY <2>2, <2>4, ToldIsPath
  <2>6. CASE Len(kv) = Count
    BY <2>3, <2>5, <2>6
  <2>7. CASE Len(kv) = Count - 1
    <3>1. Count >= 1
      BY <2>3, <2>5, <2>7
    <3> QED BY <2>3, <2>5, <2>7, <3>1
  <2> QED BY <2>2, <2>6, <2>7
<1> QED BY <1>1, GeneratorsInvariant, PTL

\* At the head of the loop of spec_generate the history and the cache hold exactly
\* what was yielded.
THEOREM LookupStaysInStep == GeneratorsSpec => []LookupInStep
<1>1. ASSUME GeneratorsInv  PROVE LookupInStep
  <2> SUFFICES ASSUME drafter = "lookup", pc = "loop"
               PROVE  (\E p \in Prompts : hist = p \o emitted) /\ kv = Exactly(emitted) /\ rec = kv
    BY DEF LookupInStep
  <2>1. Told /\ AtLoop /\ greedy \in [Horizon -> Tokens]
    BY <1>1, Where DEF OverHistory, Running
  <2>2. emitted \in Seq(Tokens) /\ Count <= MaxTokens
    BY <1>1 DEF GeneratorsInv, Typed
  <2>3. Exactly(emitted) = Path(Count)
    BY <2>1, <2>2, ToldIsPath
  <2>4. SubSeq(emitted, 1, Count) = emitted
    BY <2>2, SubSeqFull DEF Count
  <2>5. (\E p \in Prompts : hist = p \o SubSeq(emitted, 1, Count)) /\ Rest(Count)
    BY <2>1 DEF AtLoop, Hist
  <2> QED BY <2>3, <2>4, <2>5 DEF Rest
<1> QED BY <1>1, GeneratorsInvariant, PTL

-----------------------------------------------------------------------------
\* The refinement: what a user sees is greedy decoding.

\* A token that ends the sequence is not seen.
Seen(e) == IF e # <<>> /\ Last(e) \in Eos THEN Front(e) ELSE e

LEMMA SeenFacts ==
    ASSUME NEW e \in Seq(Tokens)
    PROVE  /\ (\A j \in 1 .. Len(e) : e[j] \notin Eos) => Seen(e) = e
           /\ Len(e) >= 1 /\ e[Len(e)] \in Eos =>
                 Seen(e) = SubSeq(e, 1, Len(e) - 1) /\ Len(Seen(e)) = Len(e) - 1
           /\ Seen(<<>>) = <<>>
<1>1. Len(e) \in Nat
  BY LenProperties
<1>2. ASSUME \A j \in 1 .. Len(e) : e[j] \notin Eos  PROVE Seen(e) = e
  <2>1. e # <<>> => Len(e) \in 1 .. Len(e)
    BY <1>1, EmptySeq
  <2> QED BY <1>2, <2>1 DEF Seen, Last
<1>3. ASSUME Len(e) >= 1, e[Len(e)] \in Eos
      PROVE  Seen(e) = SubSeq(e, 1, Len(e) - 1) /\ Len(Seen(e)) = Len(e) - 1
  <2>1. e # <<>>
    BY <1>3
  <2>2. Seen(e) = SubSeq(e, 1, Len(e) - 1)
    BY <1>3, <2>1 DEF Seen, Last, Front
  <2>3. 1 \in 1 .. Len(e) + 1 /\ Len(e) - 1 \in 0 .. Len(e) /\ 1 <= (Len(e) - 1) + 1
    BY <1>1, <1>3
  <2>4. Len(SubSeq(e, 1, Len(e) - 1)) = (Len(e) - 1) - 1 + 1
    BY <2>3, SliceFacts
  <2> QED BY <1>1, <2>2, <2>4
<1> QED BY <1>2, <1>3 DEF Seen

\* A token more: seen unless it ends the sequence.
LEMMA SeenAppend ==
    ASSUME NEW e \in Seq(Tokens), NEW t \in Tokens, \A j \in 1 .. Len(e) : e[j] \notin Eos
    PROVE  Seen(Append(e, t)) = IF t \in Eos THEN e ELSE Append(e, t)
<1> DEFINE f == Append(e, t)
<1>1. /\ f \in Seq(Tokens) /\ Len(f) = Len(e) + 1 /\ f[Len(e) + 1] = t /\ f # <<>>
      /\ Len(e) \in Nat
  BY AppendProperties, LenProperties
<1>2. SubSeq(f, 1, Len(e)) = e
  <2>1. <<t>> \in Seq(Tokens)
    OBVIOUS
  <2>2. f = e \o <<t>>
    BY AppendIsConcat
  <2> QED BY <2>1, <2>2, DropAppended
<1> HIDE DEF f
<1>3. Last(f) = t /\ Front(f) = e
  <2>1. Len(f) - 1 = Len(e)
    BY <1>1
  <2> QED BY <1>1, <1>2, <2>1 DEF Last, Front
<1> QED BY <1>1, <1>3 DEF Seen, f

\* Where a turn may come to its own end.
Finished ==
    \/ Open /\ (Count = MaxTokens \/ greedy[Count + 1] \in Eos)
    \/ OpenBefore /\ Count >= 1 /\ emitted[Count] \in Eos

\* What a step of a generation may do to what the user sees.
Shows ==
    \/ emitted' = emitted /\ outcome' = outcome
    \/ outcome' = outcome /\ Open /\ \E t \in Tokens : emitted' = Append(emitted, t)
    \/ emitted' = emitted /\ outcome' \in {"cut", "torn", "strayed", "failed"}
    \/ emitted' = emitted /\ outcome' = "complete" /\ Finished

LEMMA SelfShows ==
    ASSUME InConversation, SelfSteps \/ HeadSteps
    PROVE  greedy' = greedy /\ outcome = "running" /\ Shows
<1>1. outcome = "running" /\ greedy \in [Horizon -> Tokens] /\ pc \notin {"idle", "end"}
  <2>1. pc \notin {"idle", "end"}
    BY DEF SelfSteps, HeadSteps, Prefill, YieldFirst, CycleStart, CycleEnd, DraftForward, DraftToken,
           DraftRewind, DraftDone, Verify, VerifyForward, VerifyTokens, Judge, RejectDone,
           ReadvanceForward, ReadvanceDone, EmitDraft, AfterYield, EmitNext, TruncateForward,
           TruncateDone, HeadPrefill, HeadYieldFirst, HeadCycleStart, HeadDraftForward, HeadDraft,
           HeadDraftRewind, HeadDraftDone, Realign, RealignDone, HeadTruncate, HeadKeep,
           HeadTruncateDone
  <2>2. CASE pc = "start"
    BY <2>2, Where DEF AtStart, Running, InConversation
  <2> QED BY <2>1, <2>2, Cycle
<1>2. CASE UNCHANGED outVars
  BY <1>1, <1>2 DEF outVars, Shows
<1>3. CASE Prefill
  <2>1. emitted = <<>> /\ cur' = greedy[1]
    BY <1>3, Where DEF AtStart, Reset, Prefill, InConversation
  <2>2. Count = 0 /\ Open /\ greedy[1] \in Tokens
    <3>1. Count = 0
      BY <2>1 DEF Count
    <3> QED BY <1>1, <3>1, Constants DEF Open
  <2>3. CASE cur' \in Eos /\ Return("complete")
    <3>1. greedy[Count + 1] \in Eos
      BY <2>1, <2>2, <2>3
    <3> QED BY <1>1, <2>2, <2>3, <3>1 DEF Return, End, Shows, Finished
  <2> QED BY <1>2, <1>3, <2>3 DEF Prefill
<1>a. CASE YieldFirst \/ HeadYieldFirst
  <2>1. pc \in {"first", "aligned"} /\ Emit(cur)
    BY <1>a DEF YieldFirst, HeadYieldFirst
  <2> QED BY <1>1, <2>1, First DEF Emit, Shows
<1>4. CASE CycleEnd
  <2>1. Open /\ Count \in 0 .. MaxTokens /\ Count >= MaxTokens
    BY <1>4, Cycle DEF CycleEnd, Count
  <2>2. Count = MaxTokens
    BY <2>1, Constants
  <2> QED BY <1>1, <1>4, <2>1, <2>2 DEF CycleEnd, Return, End, Shows, Finished
<1>5. CASE EmitDraft
  <2>1. CASE UNCHANGED outVars
    BY <1>2, <2>1
  <2>2. CASE Emit(draft[i + 1])
    <3>1. pc = "emit" /\ i < acc
      BY <1>5 DEF EmitDraft
    <3>2. /\ Open /\ draft \in Seq(Tokens) /\ i \in Nat /\ acc \in Nat
      BY <3>1, Cycle, Constants DEF Typed
    <3>3. acc <= Len(draft)
      <4>1. AtEmit
        BY <3>1, Cycle DEF OverConversation, Drafting
      <4> QED BY <4>1 DEF AtEmit, Emitting, Judged
    <3>4. i + 1 \in 1 .. Len(draft)
      BY <3>1, <3>2, <3>3, LenProperties
    <3>5. draft[i + 1] \in Tokens
      BY <3>2, <3>4, ElementOfSeq
    <3> QED BY <1>1, <2>2, <3>2, <3>5 DEF Emit, Shows
  <2> QED BY <1>5, <2>1, <2>2 DEF EmitDraft
<1>6. CASE EmitNext
  <2> DEFINE m == Count - 1 - i
  <2>1. pc = "emit" /\ i = acc /\ cur' = verified[acc + 1]
    BY <1>6 DEF EmitNext
  <2>2. /\ Open /\ Typed /\ i \in Nat /\ acc \in Nat /\ Count \in Nat
        /\ \A l \in 0 .. Depth - 1 : greedy[l + 1] \in Tokens
    BY <2>1, Cycle, Constants DEF Typed
  <2>3. AtEmit /\ Count < MaxTokens
    <3>1. AtEmit
      BY <2>1, Cycle DEF OverConversation, Drafting
    <3> QED BY <3>1 DEF AtEmit
  <2>4. m \in Nat /\ verified[acc + 1] = greedy[m + 1 + (acc + 1)]
    <3>1. From(m) /\ Judged(m)
      BY <2>3 DEF AtEmit, Emitting
    <3>2. acc + 1 \in 1 .. acc + 1
      BY <2>2
    <3> QED BY <3>1, <3>2 DEF From, Judged
  <2>5. m + 1 + (acc + 1) = Count + 1 /\ Count \in 0 .. Depth - 1
    BY <2>1, <2>2, <2>3, Constants DEF Depth
  <2>6. cur' = greedy[Count + 1] /\ cur' \in Tokens
    BY <2>1, <2>2, <2>4, <2>5
  <2>7. CASE cur' \in Eos /\ Return("complete")
    BY <1>1, <2>2, <2>6, <2>7 DEF Return, End, Shows, Finished
  <2>8. CASE Emit(cur')
    BY <1>1, <2>2, <2>6, <2>8 DEF Emit, Shows
  <2> QED BY <1>6, <2>7, <2>8 DEF EmitNext
<1>7. CASE TruncateDone \/ HeadTruncateDone
  <2>1. AtTruncate /\ Open
    BY <1>7, Cycle DEF OverConversation, Drafting, TruncateDone, HeadTruncateDone
  <2>2. Count = MaxTokens \/ greedy[Count + 1] \in Eos
    BY <2>1 DEF AtTruncate
  <2> QED BY <1>1, <1>7, <2>1, <2>2 DEF TruncateDone, HeadTruncateDone, Return, End, Shows, Finished
<1>8. Verify \/ AfterYield \/ TruncateForward => UNCHANGED outVars
  BY DEF Verify, VerifyForward, VerifyTokens, Judge, RejectDone, ReadvanceForward, ReadvanceDone,
         AfterYield, TruncateForward
<1>9. SelfSteps => \/ UNCHANGED outVars \/ Prefill \/ YieldFirst \/ CycleEnd \/ EmitDraft
                   \/ EmitNext \/ TruncateDone
  BY <1>8 DEF SelfSteps, CycleStart, DraftForward, DraftToken, DraftRewind, DraftDone
<1>10. HeadSteps => \/ UNCHANGED outVars \/ Prefill \/ HeadYieldFirst \/ CycleEnd \/ EmitDraft
                    \/ EmitNext \/ HeadTruncateDone
  BY <1>8 DEF HeadSteps, HeadPrefill, HeadCycleStart, HeadDraftForward, HeadDraft, HeadDraftRewind,
              HeadDraftDone, Realign, RealignDone, HeadTruncate, HeadKeep
<1> QED BY <1>2, <1>3, <1>a, <1>4, <1>5, <1>6, <1>7, <1>9, <1>10

LEMMA LookupShows ==
    ASSUME InHistory, LookupSteps
    PROVE  greedy' = greedy /\ outcome = "running" /\ Shows
<1>1. outcome = "running" /\ greedy \in [Horizon -> Tokens]
  <2>1. pc \notin {"idle", "end"}
    BY DEF LookupSteps, LookupPrefill, Give, NextDraft, LookupEnd, Accept, AcceptMore, Reject,
           AcceptAll, LookupStep, VerifyForward, VerifyTokens, ReadvanceForward
  <2>2. CASE pc = "start"
    BY <2>2, Where DEF AtStart, Running, InHistory
  <2> QED BY <2>1, <2>2, History
<1>2. CASE UNCHANGED outVars
  BY <1>1, <1>2 DEF outVars, Shows
<1>3. CASE Give
  <2>1. AtLoop /\ Count \in Nat /\ \A l \in 0 .. Depth - 1 : greedy[l + 1] \in Tokens
    BY <1>3, History DEF Give, OverHistory
  <2>2. Open /\ cur = greedy[Count + 1] /\ Count \in 0 .. Depth - 1
    BY <2>1, Constants DEF AtLoop, Depth
  <2>3. cur \in Tokens
    BY <2>1, <2>2
  <2> QED BY <1>1, <1>3, <2>2, <2>3 DEF Give, Emit, Shows
<1>4. CASE Accept
  <2>1. pc = "judge" /\ acc < Len(draft) /\ acc' = acc + 1 /\ Emit(draft[acc'])
    BY <1>4 DEF Accept
  <2>2. /\ Open /\ draft \in Seq(Tokens) /\ acc \in Nat
    <3> DEFINE m == Count - 1 - acc
    <3>1. m = Count - 1 - acc
      OBVIOUS
    <3> HIDE DEF m
    <3>2. Open
      BY <2>1, <3>1, MatchFacts
    <3> QED BY <2>1, <3>2, History
  <2>3. acc' \in 1 .. Len(draft)
    BY <2>1, <2>2, LenProperties
  <2>4. draft[acc'] \in Tokens
    BY <2>2, <2>3, ElementOfSeq
  <2> QED BY <1>1, <2>1, <2>2, <2>4 DEF Emit, Shows
<1>5. CASE LookupEnd
  <2>1. /\ pc \in {"gave", "accepted"} /\ Return("complete")
        /\ Last(emitted) \in Eos \/ Len(emitted) >= MaxTokens
    BY <1>5 DEF LookupEnd
  <2>2. /\ Count \in 0 .. MaxTokens /\ emitted \in Seq(Tokens) /\ Len(emitted) = Count
    BY <2>1, History
  <2>3. OpenBefore /\ Count >= 1
    <3>1. CASE pc = "gave"
      <4>1. AtGave
        BY <3>1, History DEF OverHistory
      <4> QED BY <4>1 DEF AtGave
    <3>2. CASE pc = "accepted"
      <4> DEFINE m == Count - 1 - acc
      <4>1. m = Count - 1 - acc
        OBVIOUS
      <4> HIDE DEF m
      <4> QED BY <3>2, <4>1, MatchFacts
    <3> QED BY <2>1, <3>1, <3>2
  <2>4. CASE Last(emitted) \in Eos
    <3>1. emitted[Count] \in Eos
      BY <2>2, <2>4 DEF Last
    <3> QED BY <1>1, <2>1, <2>3, <3>1 DEF Return, End, Shows, Finished
  <2>5. CASE Last(emitted) \notin Eos
    <3>1. Open
      BY <2>2, <2>3, <2>5, StillOpen
    <3>2. Count = MaxTokens
      BY <2>1, <2>2, <2>5, Constants
    <3> QED BY <1>1, <2>1, <3>1, <3>2 DEF Return, End, Shows, Finished
  <2> QED BY <2>4, <2>5
<1>6. LookupSteps => UNCHANGED outVars \/ Give \/ Accept \/ LookupEnd
  BY DEF LookupSteps, LookupPrefill, NextDraft, AcceptMore, Reject, AcceptAll, LookupStep,
         VerifyForward, VerifyTokens, ReadvanceForward
<1> QED BY <1>2, <1>3, <1>4, <1>5, <1>6

LEMMA WaveShows ==
    ASSUME GeneratorsInv, WaveStep, ~ stuck
    PROVE  greedy' = greedy /\ outcome = "running" /\ Shows
<1>1. drafter = "wave" /\ pc \in {"start", "loop"}
  BY DEF WaveStep
<1>2. outcome = "running"
  BY <1>1, Where DEF AtStart, InWave, Running
<1>3. pc = "loop" =>
         /\ Open /\ cur = greedy[Count + 1] /\ cur \in Tokens
  BY <1>1, Where DEF InWave
<1>4. CASE UNCHANGED outVars
  BY <1>2, <1>4 DEF outVars, Shows
<1>5. CASE pc = "loop" /\ (cur \in Eos \/ Len(emitted) = MaxTokens) /\ Return("complete")
  BY <1>2, <1>3, <1>5 DEF Return, End, Shows, Finished, Count
<1>6. CASE pc = "loop" /\ Emit(cur)
  BY <1>2, <1>3, <1>6 DEF Emit, Shows
<1> QED BY <1>4, <1>5, <1>6 DEF WaveStep

LEMMA BreakShows ==
    ASSUME GeneratorsInv, Break
    PROVE  greedy' = greedy /\ outcome = "running" /\ Shows
<1>1. outcome' \in {"cut", "torn", "strayed", "failed"} /\ emitted' = emitted /\ greedy' = greedy
  BY DEF Break, SelfBreaks, HeadBreaks, LookupBreaks, Interrupt, HeadInterrupt, HeadDrop, Drop, Fail,
         Return, End
<1>2. /\ pc \notin {"idle", "end"} /\ drafter \in {"self", "head", "lookup", "wave"}
  BY DEF Break, SelfBreaks, HeadBreaks, LookupBreaks, Interrupt, HeadInterrupt, HeadDrop, Drop,
         Fail, Counted, Uncounted, Forwards, HeadUncounted, Unprotected, OneAhead, ModelForwards
<1>3. outcome = "running"
  BY <1>2, Where DEF AtStart, OverConversation, OverHistory, InWave, Running, Persistent
<1> QED BY <1>1, <1>3 DEF Shows

\* A step of a generation that counts is a step of greedy decoding, or none.
LEMMA StepSimulates ==
    ASSUME GeneratorsInv, GeneratorsInv', ~ Spoilt, ~ Spoilt', greedy' = greedy,
           outcome = "running", Shows
    PROVE  [Greedy!GreedyNext]_(Greedy!greedyVars)
<1> USE DEF Greedy!GreedyNext, Greedy!greedyVars
<1>1. emitted \in Seq(Tokens) /\ Count \in Nat /\ Count <= MaxTokens
  BY LenProperties DEF GeneratorsInv, Typed, Count
<1>2. Visible = Seen(emitted) /\ Visible' = Seen(emitted') /\ Verdict = "running"
      /\ Verdict' = IF outcome' \in {"torn", "strayed", "failed"} THEN "cut" ELSE outcome'
  BY DEF Visible, Verdict, Seen
<1>3. CASE emitted' = emitted /\ outcome' = outcome
  BY <1>2, <1>3
<1>4. CASE outcome' = outcome /\ Open /\ \E t \in Tokens : emitted' = Append(emitted, t)
  <2>1. PICK t \in Tokens : emitted' = Append(emitted, t)
    BY <1>4
  <2>2. Len(emitted') = Count + 1 /\ emitted'[Count + 1] = t /\ Count' = Count + 1
    BY <1>1, <2>1, AppendProperties DEF Count
  <2>3. Visible = emitted /\ Visible' = IF t \in Eos THEN emitted ELSE Append(emitted, t)
    BY <1>1, <1>2, <1>4, <2>1, SeenFacts, SeenAppend DEF Open, Count
  <2>4. CASE t \in Eos
    BY <1>2, <1>4, <2>3, <2>4
  <2>5. CASE t \notin Eos
    <3>4. Count' <= MaxTokens
      BY DEF GeneratorsInv, Typed, Count
    <3>5. outcome' = "running" /\ emitted' # <<>>
      BY <1>1, <1>4, <2>2 DEF Count
    <3>6. ~ AtIdle' /\ ~ AtStart' /\ ~ AtEnd'
      BY <3>5 DEF AtIdle, AtStart, Reset, AtEnd
    <3>7. OverConversation' \/ OverHistory' \/ (drafter' = "wave" /\ InWave')
      BY <3>6 DEF GeneratorsInv, Phase
    <3>8. InWave' /\ drafter' = "wave" => Told'
      BY DEF InWave, Spoilt
    <3>1. Told' /\ Count' <= MaxTokens
      BY <3>4, <3>7, <3>8 DEF OverConversation, OverHistory
    <3>2. t = greedy[Count + 1] /\ Count < MaxTokens
      <4>1. Count + 1 \in 1 .. Count'
        BY <1>1, <2>2
      <4>2. emitted'[Count + 1] = greedy'[Count + 1]
        BY <3>1, <4>1 DEF Told
      <4> QED BY <1>1, <2>2, <3>1, <4>2, Constants
    <3>3. Greedy!Yield
      BY <1>2, <1>4, <2>3, <2>5, <3>2 DEF Greedy!Yield, Greedy!Following, Count
    <3> QED BY <3>3
  <2> QED BY <2>4, <2>5
<1>5. CASE emitted' = emitted /\ outcome' \in {"cut", "torn", "strayed", "failed"}
  <2>1. Greedy!Cut
    BY <1>2, <1>5 DEF Greedy!Cut
  <2> QED BY <2>1
<1>6. CASE emitted' = emitted /\ outcome' = "complete" /\ Finished
  <2>1. Told
    BY DEF GeneratorsInv, Phase, AtIdle, AtStart, Reset, AtEnd, OverConversation,
       OverHistory, InWave, Spoilt, Running, Told, Count
  <2>2. Len(Visible) = MaxTokens \/ greedy[Len(Visible) + 1] \in Eos
    <3>1. CASE Open /\ (Count = MaxTokens \/ greedy[Count + 1] \in Eos)
      <4>1. Visible = emitted
        BY <1>1, <1>2, <3>1, SeenFacts DEF Open, Count
      <4> QED BY <3>1, <4>1 DEF Count
    <3>2. CASE OpenBefore /\ Count >= 1 /\ emitted[Count] \in Eos
      <4>1. Len(Visible) = Count - 1
        BY <1>1, <1>2, <3>2, SeenFacts DEF Count
      <4>2. (Count - 1) + 1 = Count /\ Count \in 1 .. Count
        BY <1>1, <3>2
      <4>3. emitted[Count] = greedy[Count]
        BY <2>1, <4>2 DEF Told
      <4> QED BY <3>2, <4>1, <4>2, <4>3
    <3> QED BY <1>6, <3>1, <3>2 DEF Finished
  <2>3. Greedy!Complete
    BY <1>2, <1>6, <2>2 DEF Greedy!Complete, Greedy!Following
  <2> QED BY <2>3
<1> QED BY <1>3, <1>4, <1>5, <1>6 DEF Shows

\* What the generators let a user see is the greedy continuation, one token after
\* the other, up to the first that ends the sequence or to max_tokens, with or
\* without drafts, cut or failed or followed by further turns
\* (self_spec.py: "Identico token per token alla generazione greedy normale").
THEOREM GeneratorsAreGreedy == GeneratorsSpec => Greedy!GreedySafety
<1>1. GeneratorsInit => Greedy!GreedyInit
  <2> SUFFICES ASSUME GeneratorsInit  PROVE Greedy!GreedyInit
    OBVIOUS
  <2>1. drafter = "none" /\ emitted = <<>> /\ outcome = "none"
    BY DEF GeneratorsInit, SpecInit
  <2> QED BY <2>1 DEF Greedy!GreedyInit, Visible, Verdict, Spoilt
<1>2. GeneratorsInv /\ GeneratorsInv' /\ [GeneratorsNext]_vars => [Greedy!GreedyNext]_(Greedy!greedyVars)
  <2> SUFFICES ASSUME GeneratorsInv, GeneratorsInv', [GeneratorsNext]_vars
               PROVE  [Greedy!GreedyNext]_(Greedy!greedyVars)
    OBVIOUS
  <2>1. CASE UNCHANGED vars
    BY <2>1 DEF vars, specVars, outVars, cacheVars, flags, Greedy!greedyVars, Visible, Verdict, Spoilt
  <2>2. CASE Turn \/ Break
    <3>1. drafter' = drafter
      BY <2>2 DEF Turn, Break, SelfTurn, HeadTurn, LookupTurn, WaveStep
    <3>2. drafter = "wave" => stuck' = stuck /\ greedy' = greedy
      BY <2>2 DEF Turn, Break, SelfTurn, HeadTurn, LookupTurn, WaveStep, cacheVars, flags, outVars,
         Return, End, Emit
    <3>3. CASE Spoilt
      <4>1. Spoilt'
        BY <3>1, <3>2, <3>3 DEF Spoilt
      <4> QED BY <3>2, <3>3, <4>1 DEF Spoilt, Visible, Verdict, Greedy!greedyVars
    <3>4. CASE ~ Spoilt
      <4>1. ~ Spoilt'
        BY <3>1, <3>2, <3>4 DEF Spoilt
      <4>2. greedy' = greedy /\ outcome = "running" /\ Shows
        <5>1. CASE SelfTurn \/ HeadTurn
          BY <5>1, SelfShows DEF SelfTurn, HeadTurn, InConversation, Persistent
        <5>2. CASE LookupTurn
          BY <5>2, LookupShows DEF LookupTurn, InHistory
        <5>3. CASE WaveStep
          BY <3>4, <5>3, WaveShows DEF Spoilt, WaveStep
        <5>4. CASE Break
          BY <5>4, BreakShows
        <5> QED BY <2>2, <5>1, <5>2, <5>3, <5>4 DEF Turn
      <4> QED BY <3>4, <4>1, <4>2, StepSimulates
    <3> QED BY <3>3, <3>4
  <2>3. CASE Leave
    <3>1. pc = "end" /\ drafter' = "none" /\ emitted' = <<>> /\ outcome' = "none"
      BY <2>3 DEF Leave, SpecLeave
    <3>2. outcome \in {"complete", "cut", "torn", "strayed", "failed"}
      BY <3>1, Where DEF AtEnd
    <3>3. Verdict # "running" /\ Verdict' = "none" /\ Visible' = <<>>
      BY <3>1, <3>2 DEF Verdict, Visible, Spoilt
    <3> QED BY <3>3 DEF Greedy!GreedyNext, Greedy!Prompt
  <2>4. CASE Start
    <3>1. pc = "idle" /\ emitted' = emitted /\ outcome' = "running"
      BY <2>4 DEF Start, SpecStart
    <3>2. AtIdle
      BY <3>1, Where
    <3>3. emitted' = <<>> /\ outcome = "none"
      BY <3>1, <3>2 DEF AtIdle, Reset
    <3>4. Verdict # "running" /\ Verdict' \in {"none", "running"} /\ Visible' = <<>>
      BY <3>1, <3>3 DEF Verdict, Visible
    <3> QED BY <3>4 DEF Greedy!GreedyNext, Greedy!Prompt
  <2> QED BY <2>1, <2>2, <2>3, <2>4 DEF GeneratorsNext
<1> QED BY <1>1, <1>2, GeneratorsInvariant, PTL DEF GeneratorsSpec, Greedy!GreedySafety
=============================================================================
