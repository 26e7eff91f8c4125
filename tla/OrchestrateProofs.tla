--------------------------- MODULE OrchestrateProofs ---------------------------
(***************************************************************************)
(* Proofs about the text a job handles: the filter of serve.py shows of a  *)
(* text what the whole-text filter shows, however the text is cut          *)
(* (Filtered), and ends the one that repeats itself (Guarded); the coders' *)
(* files and the lessons are what was last declared and corrected          *)
(* (FilesInv, LessonsInv); the phases lie on the lines of the plan (Spans, *)
(* CutFrom), for any plan, cap, number of coders and jobs.                 *)
(***************************************************************************)
EXTENDS Orchestrate, KeyOrders

-----------------------------------------------------------------------------
\* The inductive invariant: the text.

Through(text) ==
    \/ ~ IsPrefix(OpenMark, text) /\ ~ IsPrefix(text, OpenMark) /\ out = text
    \/ IsPrefix(OpenMark, text) /\ Found(text, CloseMark) # {} /\ out = After(text, CloseMark)

Filtered ==
    /\ consumed \in Seq(Symbols) /\ buf \in Seq(Symbols) /\ out \in Seq(Symbols)
    /\ \/ /\ mode = "sniff" /\ out = <<>> /\ buf = consumed
          /\ IsPrefix(consumed, OpenMark) /\ Len(consumed) < Len(OpenMark)
       \/ /\ mode = "strip" /\ out = <<>> /\ buf = consumed
          /\ IsPrefix(OpenMark, consumed) /\ Found(consumed, CloseMark) = {}
       \/ mode = "pass" /\ buf = <<>> /\ Through(consumed)

Guarded ==
    /\ over \in BOOLEAN
    /\ ~ over => /\ tail = LastN(consumed, TailMax)
                 /\ ~ (Len(tail) >= TailMin /\ TailLoop(tail))

TextInv == Filtered /\ Guarded

-----------------------------------------------------------------------------
\* The coders, their files and the lessons.

Tasks == (Symbols \cup {Goal}) \ {Dash}
Answers == [by : Nat, round : {1, 2}, files : SUBSET Files]
CoderRecs == [task : Tasks \cup Instrs, text : Answers \cup {NoText}, open : BOOLEAN]

\* Of the coders in D the last one that declares f wrote it.
LastOf(f, D) ==
    \/ (\A k \in D : ~ Declares(k, f)) /\ work[f] = NoText
    \/ \E k \in D : /\ Declares(k, f) /\ work[f] = coders[k].text
                    /\ \A l \in D : Declares(l, f) => l <= k

FilesInv ==
    /\ pc \in {"plan", "flushed"} => coders = <<>> /\ work = [f \in Files |-> NoText]
    /\ pc \in {"phase", "verify"} => \A f \in Files \ Outside : LastOf(f, DOMAIN coders)
    /\ pc = "wave" /\ round = 1 =>
          /\ \A k \in DOMAIN coders \ wave, l \in wave : k < l
          /\ \A f \in Files \ Outside : LastOf(f, DOMAIN coders \ wave)

LessonsInv ==
    /\ lessons \in Seq(Instrs) /\ IsInjective(lessons) /\ Len(lessons) <= FileLines
    /\ lastRedo # NoText => lastRedo \in Range(lessons)

FlowTyped ==
    /\ pc \in {"plan", "flushed", "phase", "wave", "verify", "review", "ended"} /\ round \in {1, 2}
    /\ cancel \in BOOLEAN /\ abort \in BOOLEAN /\ cap \in Caps
    /\ phases \in Seq(Seq(Tasks) \ {<<>>}) /\ coders \in Seq(CoderRecs) /\ wave \subseteq DOMAIN coders
    /\ DOMAIN work = Files

\* How many tasks the phases hold.
Total(phs) == LET sum[k \in 0 .. Len(phs)] == IF k = 0 THEN 0 ELSE sum[k - 1] + Len(phs[k])
              IN  sum[Len(phs)]

\* There are never more coders, those to come included, than the cap.
Room ==
    /\ Len(coders) + Total(phases) <= cap
    /\ round = 1 => \A k \in DOMAIN coders : coders[k].task \in Tasks

JobInv == FlowTyped /\ Room /\ FilesInv /\ LessonsInv

OrchInv == TextInv /\ JobInv
-----------------------------------------------------------------------------
\* Sequences and their parts.

LEMMA ConcatElts ==
    ASSUME NEW S, NEW s \in Seq(S), NEW t \in Seq(S)
    PROVE  /\ s \o t \in Seq(S) /\ Len(s) \in Nat /\ Len(t) \in Nat
           /\ Len(s \o t) = Len(s) + Len(t)
           /\ \A i \in 1 .. Len(s) : (s \o t)[i] = s[i]
           /\ \A i \in 1 .. Len(t) : (s \o t)[Len(s) + i] = t[i]
<1>1. Len(s) \in Nat /\ Len(t) \in Nat
  BY LenProperties
<1> DEFINE all == s \o t
<1>2. /\ all \in Seq(S) /\ Len(all) = Len(s) + Len(t)
      /\ \A i \in 1 .. Len(s) + Len(t) : all[i] = IF i <= Len(s) THEN s[i] ELSE t[i - Len(s)]
  BY ConcatProperties
<1> HIDE DEF all
<1>3. ASSUME NEW i \in 1 .. Len(s)  PROVE all[i] = s[i]
  BY <1>1, <1>2
<1>4. ASSUME NEW i \in 1 .. Len(t)  PROVE all[Len(s) + i] = t[i]
  <2>1. Len(s) + i \in 1 .. Len(s) + Len(t) /\ ~ Len(s) + i <= Len(s) /\ Len(s) + i - Len(s) = i
    BY <1>1
  <2> QED BY <1>2, <2>1
<1> QED BY <1>1, <1>2, <1>3, <1>4 DEF all

LEMMA MinIs ==
    ASSUME NEW F \in SUBSET Int, NEW m \in F, \A x \in F : m <= x
    PROVE  Min(F) = m
<1>1. \A y \in F : (\A x \in F : y <= x) => y = m
  <2> SUFFICES ASSUME NEW y \in F, \A x \in F : y <= x  PROVE y = m
    OBVIOUS
  <2>1. y <= m /\ m <= y /\ y \in Int /\ m \in Int
    OBVIOUS
  <2> QED BY <2>1
<1>2. m \in F /\ \A x \in F : m <= x
  OBVIOUS
<1> QED BY <1>1, <1>2, Zenon DEF Min

LEMMA MaxIs ==
    ASSUME NEW F \in SUBSET Int, NEW m \in F, \A x \in F : x <= m
    PROVE  Max(F) = m
<1>1. \A y \in F : (\A x \in F : x <= y) => y = m
  <2> SUFFICES ASSUME NEW y \in F, \A x \in F : x <= y  PROVE y = m
    OBVIOUS
  <2>1. y <= m /\ m <= y /\ y \in Int /\ m \in Int
    OBVIOUS
  <2> QED BY <2>1
<1>2. \A x \in F : m >= x
  <2> SUFFICES ASSUME NEW x \in F  PROVE m >= x
    OBVIOUS
  <2>1. x <= m /\ x \in Int /\ m \in Int
    OBVIOUS
  <2> QED BY <2>1
<1>3. \A y \in F : (\A x \in F : y >= x) => y = m
  <2> SUFFICES ASSUME NEW y \in F, \A x \in F : y >= x  PROVE y = m
    OBVIOUS
  <2>1. \A x \in F : x <= y
    <3> SUFFICES ASSUME NEW x \in F  PROVE x <= y
      OBVIOUS
    <3>1. y >= x /\ x \in Int /\ y \in Int
      OBVIOUS
    <3> QED BY <3>1
  <2> QED BY <1>1, <2>1
<1> QED BY <1>2, <1>3, Zenon DEF Max

\* A set of natural numbers that has a member has a least one.
LEMMA Least ==
    ASSUME NEW F \in SUBSET Nat, NEW n \in F
    PROVE  \E m \in F : \A x \in F : m <= x
<1> SUFFICES ASSUME ~ \E m \in F : \A x \in F : m <= x  PROVE FALSE
  OBVIOUS
<1> DEFINE P == {l \in Nat : \A x \in F : l <= x}
<1>1. 0 \in P
  OBVIOUS
<1>2. ASSUME NEW l \in 0 .. n + 1 - 1, l \in P  PROVE l + 1 \in P
  <2>1. l \in Nat /\ l \notin F
    BY <1>2
  <2>2. ASSUME NEW x \in F  PROVE l + 1 <= x
    <3>1. l <= x /\ l # x /\ x \in Nat
      BY <1>2, <2>1
    <3> QED BY <2>1, <3>1
  <2> QED BY <2>1, <2>2
<1>3. n + 1 \in Nat
  OBVIOUS
<1> HIDE DEF P
<1>4. n + 1 \in P
  <2>1. \A l \in 0 .. n + 1 : l \in P
    BY <1>1, <1>2, <1>3, UpTo
  <2> QED BY <1>3, <2>1
<1>5. n + 1 <= n
  BY <1>4 DEF P
<1> QED BY <1>5

\* Where a mark is in a text.
LEMMA FoundFacts ==
    ASSUME NEW text \in Seq(Symbols), NEW mark \in Seq(Symbols), mark # <<>>
    PROVE  /\ Len(text) \in Nat /\ Len(mark) \in Nat \ {0}
           /\ \A i : i \in Found(text, mark) <=>
                 /\ i \in 1 .. Len(text) - Len(mark) + 1
                 /\ \A j \in 1 .. Len(mark) : text[i + j - 1] = mark[j]
<1>1. Len(text) \in Nat /\ Len(mark) \in Nat \ {0}
  BY LenProperties, EmptySeq
<1>2. ASSUME NEW i \in 1 .. Len(text) - Len(mark) + 1
      PROVE  IsPrefix(mark, SubSeq(text, i, Len(text))) <=>
                \A j \in 1 .. Len(mark) : text[i + j - 1] = mark[j]
  <2> DEFINE t == SubSeq(text, i, Len(text))
  <2>1. i \in 1 .. Len(text) + 1 /\ Len(text) \in 0 .. Len(text) /\ i <= Len(text) + 1
    BY <1>1
  <2>2. /\ t \in Seq(Symbols) /\ Len(t) = Len(text) - i + 1
        /\ \A j \in 1 .. Len(text) - i + 1 : t[j] = text[i + j - 1]
    BY <2>1, SliceFacts
  <2> HIDE DEF t
  <2>3. Len(mark) <= Len(t) /\ \A j \in 1 .. Len(mark) : j \in 1 .. Len(text) - i + 1
    BY <1>1, <2>2
  <2>4. IsPrefix(mark, t) <=> \A j \in 1 .. Len(mark) : mark[j] = t[j]
    BY <2>2, <2>3, PrefixElts
  <2>5. \A j \in 1 .. Len(mark) : t[j] = text[i + j - 1]
    BY <2>2, <2>3
  <2> QED BY <2>4, <2>5 DEF t
<1> QED BY <1>1, <1>2 DEF Found

LEMMA AfterFacts ==
    ASSUME NEW text \in Seq(Symbols), NEW mark \in Seq(Symbols), mark # <<>>,
           NEW m \in Found(text, mark), \A x \in Found(text, mark) : m <= x
    PROVE  /\ m \in Nat \ {0} /\ m + Len(mark) <= Len(text) + 1
           /\ After(text, mark) \in Seq(Symbols)
           /\ Len(After(text, mark)) = Len(text) - m - Len(mark) + 1
           /\ \A j \in 1 .. Len(text) - m - Len(mark) + 1 :
                 After(text, mark)[j] = text[m + Len(mark) + j - 1]
<1>1. Len(text) \in Nat /\ Len(mark) \in Nat \ {0} /\ m \in 1 .. Len(text) - Len(mark) + 1
  BY FoundFacts
<1>2. Min(Found(text, mark)) = m
  <2>1. Found(text, mark) \in SUBSET Int
    BY <1>1 DEF Found
  <2> QED BY <2>1, MinIs
<1> DEFINE k == m + Len(mark)
           n == Len(text)
<1>3. k \in 1 .. Len(text) + 1 /\ n \in 0 .. Len(text) /\ k <= n + 1
  BY <1>1
<1>4. k \in Nat /\ n \in Nat
  BY <1>1
<1>5. After(text, mark) = SubSeq(text, k, n)
  BY <1>2 DEF After
<1>6. n - k + 1 = Len(text) - m - Len(mark) + 1
  BY <1>1
<1> HIDE DEF k, n
<1>7. /\ SubSeq(text, k, n) \in Seq(Symbols) /\ Len(SubSeq(text, k, n)) = n - k + 1
      /\ \A j \in 1 .. n - k + 1 : SubSeq(text, k, n)[j] = text[k + j - 1]
  BY <1>3, SliceFacts
<1>8. m \in Nat \ {0} /\ m + Len(mark) <= Len(text) + 1
  BY <1>1
<1> QED BY <1>5, <1>6, <1>7, <1>8 DEF k

\* What is found stays found, and what follows it grows with the text.
LEMMA AfterGrows ==
    ASSUME NEW text \in Seq(Symbols), NEW p \in Seq(Symbols),
           NEW mark \in Seq(Symbols), mark # <<>>, Found(text, mark) # {}
    PROVE  /\ Found(text \o p, mark) # {}
           /\ After(text \o p, mark) = After(text, mark) \o p
           /\ After(text, mark) \in Seq(Symbols)
<1> DEFINE long == text \o p
           n == Len(mark)
<1>1. /\ long \in Seq(Symbols) /\ Len(text) \in Nat /\ Len(p) \in Nat
      /\ Len(long) = Len(text) + Len(p)
      /\ \A i \in 1 .. Len(text) : long[i] = text[i]
      /\ \A i \in 1 .. Len(p) : long[Len(text) + i] = p[i]
  BY ConcatElts
<1> HIDE DEF long
<1>2. /\ n \in Nat \ {0}
      /\ \A i : i \in Found(text, mark) <=>
            i \in 1 .. Len(text) - n + 1 /\ \A j \in 1 .. n : text[i + j - 1] = mark[j]
  BY FoundFacts
<1>3. \A i : i \in Found(long, mark) <=>
            i \in 1 .. Len(long) - n + 1 /\ \A j \in 1 .. n : long[i + j - 1] = mark[j]
  BY <1>1, FoundFacts
<1> HIDE DEF n
<1>4. PICK m \in Found(text, mark) : \A x \in Found(text, mark) : m <= x
  <2>1. Found(text, mark) \in SUBSET Nat
    BY <1>1, <1>2
  <2> QED BY <2>1, Least
<1>5. m \in 1 .. Len(text) - n + 1 /\ m \in Nat
  BY <1>1, <1>2
<1>6. ASSUME NEW i \in 1 .. Len(text) - n + 1, NEW j \in 1 .. n
      PROVE  long[i + j - 1] = text[i + j - 1]
  <2>1. i + j - 1 \in 1 .. Len(text)
    BY <1>1, <1>2
  <2> QED BY <1>1, <2>1
<1>7. m \in Found(long, mark)
  <2>1. m \in 1 .. Len(long) - n + 1
    BY <1>1, <1>2, <1>5
  <2>2. \A j \in 1 .. n : long[m + j - 1] = mark[j]
    BY <1>2, <1>5, <1>6
  <2> QED BY <1>3, <2>1, <2>2
<1>8. ASSUME NEW x \in Found(long, mark)  PROVE m <= x
  <2>1. x \in 1 .. Len(long) - n + 1 /\ x \in Int
    BY <1>1, <1>2, <1>3
  <2>2. CASE x <= Len(text) - n + 1
    <3>1. x \in 1 .. Len(text) - n + 1
      BY <1>1, <1>2, <2>1, <2>2
    <3>2. \A j \in 1 .. n : text[x + j - 1] = mark[j]
      BY <1>3, <1>6, <3>1
    <3> QED BY <1>2, <1>4, <3>1, <3>2
  <2>3. CASE ~ x <= Len(text) - n + 1
    BY <1>1, <1>2, <1>5, <2>1, <2>3
  <2> QED BY <2>2, <2>3
<1>9. /\ m \in Nat \ {0} /\ m + n <= Len(text) + 1
      /\ After(text, mark) \in Seq(Symbols)
      /\ Len(After(text, mark)) = Len(text) - m - n + 1
      /\ \A j \in 1 .. Len(text) - m - n + 1 : After(text, mark)[j] = text[m + n + j - 1]
  BY <1>4, AfterFacts DEF n
<1>10. /\ After(long, mark) \in Seq(Symbols)
       /\ Len(After(long, mark)) = Len(long) - m - n + 1
       /\ \A j \in 1 .. Len(long) - m - n + 1 : After(long, mark)[j] = long[m + n + j - 1]
  BY <1>1, <1>7, <1>8, AfterFacts DEF n
<1> DEFINE a == After(text, mark)
           b == After(long, mark)
           c == a \o p
<1> HIDE DEF a, b
<1>11. /\ c \in Seq(Symbols) /\ Len(a) \in Nat /\ Len(c) = Len(a) + Len(p)
       /\ \A i \in 1 .. Len(a) : c[i] = a[i]
       /\ \A i \in 1 .. Len(p) : c[Len(a) + i] = p[i]
  <2>1. a \in Seq(Symbols)
    BY <1>9 DEF a
  <2> QED BY <2>1, ConcatElts
<1> HIDE DEF c
<1>12. Len(a) = Len(text) - m - n + 1 /\ Len(b) = Len(a) + Len(p)
  BY <1>1, <1>2, <1>5, <1>9, <1>10 DEF a, b
<1>13. ASSUME NEW j \in 1 .. Len(b)  PROVE b[j] = c[j]
  <2>1. b[j] = long[m + n + j - 1]
    BY <1>1, <1>2, <1>5, <1>10, <1>12 DEF b
  <2>2. CASE j <= Len(a)
    <3>1. j \in 1 .. Len(text) - m - n + 1 /\ m + n + j - 1 \in 1 .. Len(text) /\ j \in 1 .. Len(a)
      BY <1>1, <1>2, <1>5, <1>11, <1>12, <2>2
    <3>2. a[j] = text[m + n + j - 1]
      BY <1>9, <3>1 DEF a
    <3> QED BY <1>1, <1>11, <2>1, <3>1, <3>2
  <2>3. CASE ~ j <= Len(a)
    <3> DEFINE i == j - Len(a)
    <3>1. i \in 1 .. Len(p) /\ j = Len(a) + i /\ m + n + j - 1 = Len(text) + i
      BY <1>1, <1>2, <1>5, <1>11, <1>12, <2>3
    <3> QED BY <1>1, <1>11, <2>1, <3>1
  <2> QED BY <2>2, <2>3
<1>14. b = c
  <2>1. b \in Seq(Symbols) /\ c \in Seq(Symbols) /\ Len(b) = Len(c)
    BY <1>10, <1>11, <1>12 DEF b
  <2> QED BY <1>13, <2>1, SeqEqual
<1> QED BY <1>7, <1>9, <1>14 DEF long, a, b, c

\* A text that grows past a mark, or away from it.
LEMMA PrefixGrows ==
    ASSUME NEW text \in Seq(Symbols), NEW p \in Seq(Symbols), NEW mark \in Seq(Symbols)
    PROVE  /\ text \o p \in Seq(Symbols)
           /\ IsPrefix(mark, text) => IsPrefix(mark, text \o p)
           /\ IsPrefix(text \o p, mark) => IsPrefix(text, mark)
           /\ ~ IsPrefix(mark, text) /\ ~ IsPrefix(text, mark) => ~ IsPrefix(mark, text \o p)
<1> DEFINE long == text \o p
           n == Len(text)
           k == Len(mark)
<1>1. /\ long \in Seq(Symbols) /\ n \in Nat /\ Len(p) \in Nat /\ Len(long) = n + Len(p)
      /\ \A i \in 1 .. n : long[i] = text[i]
  BY ConcatElts
<1> HIDE DEF long
<1>2. k \in Nat
  BY LenProperties
<1>3. IsPrefix(mark, text) <=> k <= n /\ \A i \in 1 .. k : mark[i] = text[i]
  BY PrefixElts
<1>4. IsPrefix(text, mark) <=> n <= k /\ \A i \in 1 .. n : text[i] = mark[i]
  BY PrefixElts
<1>5. IsPrefix(mark, long) <=> k <= Len(long) /\ \A i \in 1 .. k : mark[i] = long[i]
  <2>1. long \in Seq(Symbols)
    BY <1>1
  <2> QED BY <2>1, PrefixElts
<1>6. IsPrefix(long, mark) <=> Len(long) <= k /\ \A i \in 1 .. Len(long) : long[i] = mark[i]
  BY <1>1, PrefixElts
<1> HIDE DEF n, k
<1>7. ASSUME IsPrefix(mark, text)  PROVE IsPrefix(mark, long)
  BY <1>1, <1>2, <1>3, <1>5, <1>7
<1>8. ASSUME IsPrefix(long, mark)  PROVE IsPrefix(text, mark)
  BY <1>1, <1>2, <1>4, <1>6, <1>8
<1>9. ASSUME IsPrefix(mark, long), ~ IsPrefix(mark, text)  PROVE IsPrefix(text, mark)
  <2>1. k <= Len(long) /\ \A i \in 1 .. k : mark[i] = long[i]
    BY <1>5, <1>9
  <2>2. CASE k <= n
    BY <1>1, <1>2, <1>3, <1>9, <2>1, <2>2
  <2>3. CASE ~ k <= n
    <3>1. n <= k /\ \A i \in 1 .. n : i \in 1 .. k
      BY <1>1, <1>2, <2>3
    <3> QED BY <1>1, <1>4, <2>1, <3>1
  <2> QED BY <2>2, <2>3
<1> QED BY <1>1, <1>7, <1>8, <1>9 DEF long

\* Two texts one of which begins the other: the lengths decide which.
LEMMA PrefixByLength ==
    ASSUME NEW s \in Seq(Symbols), NEW t \in Seq(Symbols)
    PROVE  /\ Len(s) < Len(t) => ~ IsPrefix(t, s)
           /\ Len(s) >= Len(t) /\ IsPrefix(s, t) => IsPrefix(t, s)
<1>1. Len(s) \in Nat /\ Len(t) \in Nat
  BY LenProperties
<1>2. IsPrefix(s, t) <=> Len(s) <= Len(t) /\ \A i \in 1 .. Len(s) : s[i] = t[i]
  BY PrefixElts
<1>3. IsPrefix(t, s) <=> Len(t) <= Len(s) /\ \A i \in 1 .. Len(t) : t[i] = s[i]
  BY PrefixElts
<1> QED BY <1>1, <1>2, <1>3

\* One piece.
LEMMA StepFilter ==
    ASSUME Filtered, NEW p \in Seq(Symbols), consumed' = consumed \o p, Filter(p)
    PROVE  Filtered'
<1> DEFINE seen == buf \o p
           m == IF mode = "sniff" THEN Sniff(seen) ELSE mode
           all == consumed \o p
<1>1. /\ consumed \in Seq(Symbols) /\ buf \in Seq(Symbols) /\ out \in Seq(Symbols)
      /\ OpenMark \in Seq(Symbols) /\ OpenMark # <<>> /\ CloseMark \in Seq(Symbols) /\ CloseMark # <<>>
  BY TextConstants DEF Filtered
<1>2. all \in Seq(Symbols) /\ out \o p \in Seq(Symbols) /\ seen \in Seq(Symbols) /\ <<>> \o seen = seen
  <2>1. all \in Seq(Symbols) /\ out \o p \in Seq(Symbols) /\ seen \in Seq(Symbols)
    BY <1>1, ConcatElts
  <2> QED BY <2>1, ConcatEmptySeq
<1>3. mode # "pass" => seen = all /\ out = <<>>
  BY DEF Filtered
<1>4. mode \in {"sniff", "strip", "pass"}
  BY DEF Filtered
<1>5. <<>> \in Seq(Symbols)
  BY EmptySeq
<1> HIDE DEF all, seen
<1>6. all = consumed'
  BY DEF all
<1>7. CASE mode = "pass" /\ out' = out \o p /\ UNCHANGED <<buf, mode>>
  <2>1. Through(consumed) /\ buf = <<>>
    BY <1>7 DEF Filtered
  <2>2. CASE ~ IsPrefix(OpenMark, consumed) /\ ~ IsPrefix(consumed, OpenMark) /\ out = consumed
    <3>1. ~ IsPrefix(OpenMark, all) /\ ~ IsPrefix(all, OpenMark)
      BY <1>1, <2>2, PrefixGrows DEF all
    <3>2. out' = all
      BY <1>7, <2>2 DEF all
    <3>3. Through(consumed)'
      BY <1>6, <3>1, <3>2 DEF Through
    <3> QED BY <1>2, <1>5, <1>6, <1>7, <2>1, <3>2, <3>3 DEF Filtered
  <2>3. CASE IsPrefix(OpenMark, consumed) /\ Found(consumed, CloseMark) # {} /\ out = After(consumed, CloseMark)
    <3>1. IsPrefix(OpenMark, all)
      BY <1>1, <2>3, PrefixGrows DEF all
    <3>2. Found(all, CloseMark) # {} /\ After(all, CloseMark) = After(consumed, CloseMark) \o p
      <4>1. /\ consumed \in Seq(Symbols) /\ CloseMark \in Seq(Symbols) /\ CloseMark # <<>>
            /\ Found(consumed, CloseMark) # {}
        BY <1>1, <2>3
      <4> QED BY <4>1, AfterGrows DEF all
    <3>3. Through(consumed)'
      BY <1>6, <1>7, <2>3, <3>1, <3>2 DEF Through
    <3> QED BY <1>2, <1>5, <1>6, <1>7, <2>1, <3>3 DEF Filtered
  <2> QED BY <2>1, <2>2, <2>3 DEF Through
<1>8. CASE mode = "sniff" /\ Sniff(seen) = "pass" /\ out' = out \o seen /\ buf' = <<>> /\ mode' = "pass"
  <2>1. seen = all /\ out' = all
    BY <1>2, <1>3, <1>8
  <2>2. ~ IsPrefix(OpenMark, all) /\ ~ IsPrefix(all, OpenMark)
    <3>1. Sniff(all) = "pass"
      BY <1>8, <2>1
    <3>2. Len(all) \in Nat /\ Len(OpenMark) \in Nat
      BY <1>1, <1>2, LenProperties
    <3>3. CASE Len(all) < Len(OpenMark)
      <4>1. ~ IsPrefix(all, OpenMark)
        BY <3>1, <3>3 DEF Sniff, StartsWith
      <4> QED BY <1>1, <1>2, <3>3, <4>1, PrefixByLength
    <3>4. CASE ~ Len(all) < Len(OpenMark)
      <4>1. ~ IsPrefix(OpenMark, all)
        BY <3>1, <3>4 DEF Sniff, StartsWith
      <4>2. Len(all) >= Len(OpenMark)
        BY <3>2, <3>4
      <4> QED BY <1>1, <1>2, <4>1, <4>2, PrefixByLength
    <3> QED BY <3>3, <3>4
  <2>3. Through(consumed)'
    BY <1>6, <2>1, <2>2 DEF Through
  <2> QED BY <1>2, <1>5, <1>6, <1>8, <2>1, <2>3 DEF Filtered
<1>9. CASE mode = "sniff" /\ Sniff(seen) = "sniff" /\ buf' = seen /\ UNCHANGED <<out, mode>>
  <2>1. seen = all /\ out = <<>>
    BY <1>3, <1>9
  <2>2. IsPrefix(all, OpenMark) /\ Len(all) < Len(OpenMark)
    BY <1>9, <2>1 DEF Sniff, StartsWith
  <2> QED BY <1>2, <1>5, <1>6, <1>9, <2>1, <2>2 DEF Filtered
<1>10. ASSUME \/ mode = "strip"
              \/ mode = "sniff" /\ Sniff(seen) = "strip"
       PROVE  seen = all /\ out = <<>> /\ IsPrefix(OpenMark, all)
  <2>1. seen = all /\ out = <<>>
    BY <1>3, <1>10
  <2>2. CASE mode = "strip"
    <3>1. IsPrefix(OpenMark, consumed)
      BY <2>2 DEF Filtered
    <3> QED BY <1>1, <2>1, <3>1, PrefixGrows DEF all
  <2>3. CASE mode = "sniff" /\ Sniff(seen) = "strip"
    BY <2>1, <2>3 DEF Sniff, StartsWith
  <2> QED BY <1>10, <2>1, <2>2, <2>3
<1>11. CASE /\ mode = "strip" \/ (mode = "sniff" /\ Sniff(seen) = "strip")
            /\ Found(seen, CloseMark) = {} /\ buf' = seen /\ mode' = "strip" /\ UNCHANGED out
  <2>1. seen = all /\ out = <<>> /\ IsPrefix(OpenMark, all)
    BY <1>10, <1>11
  <2> QED BY <1>2, <1>5, <1>6, <1>11, <2>1 DEF Filtered
<1>12. CASE /\ mode = "strip" \/ (mode = "sniff" /\ Sniff(seen) = "strip")
            /\ Found(seen, CloseMark) # {}
            /\ out' = out \o After(seen, CloseMark) /\ buf' = <<>> /\ mode' = "pass"
  <2>1. seen = all /\ out = <<>> /\ IsPrefix(OpenMark, all)
    BY <1>10, <1>12
  <2>2. After(all, CloseMark) \in Seq(Symbols)
    <3>1. Found(all, CloseMark) # {}
      BY <1>12, <2>1
    <3> QED BY <1>1, <1>2, <1>5, <3>1, AfterGrows
  <2>3. out' = After(all, CloseMark)
    BY <1>12, <2>1, <2>2, ConcatEmptySeq
  <2>4. Through(consumed)'
    BY <1>6, <1>12, <2>1, <2>3 DEF Through
  <2> QED BY <1>2, <1>5, <1>6, <1>12, <2>2, <2>3, <2>4 DEF Filtered
<1>13. \/ mode = "pass" /\ out' = out \o p /\ UNCHANGED <<buf, mode>>
       \/ mode = "sniff" /\ m = "pass" /\ out' = out \o seen /\ buf' = <<>> /\ mode' = m
       \/ m = "sniff" /\ buf' = seen /\ UNCHANGED <<out, mode>>
       \/ m = "strip" /\ Found(seen, CloseMark) = {} /\ buf' = seen /\ mode' = m /\ UNCHANGED out
       \/ /\ m = "strip" /\ Found(seen, CloseMark) # {}
          /\ out' = out \o After(seen, CloseMark) /\ buf' = <<>> /\ mode' = "pass"
  BY DEF Filter, seen
<1>14. mode = "sniff" => m = Sniff(seen)
  OBVIOUS
<1>15. mode # "sniff" => m = mode
  OBVIOUS
<1> HIDE DEF m
<1> USE <1>4, <1>14, <1>15
<1>16. CASE mode = "pass" /\ out' = out \o p /\ UNCHANGED <<buf, mode>>
  BY <1>7, <1>16
<1>17. CASE mode = "sniff" /\ m = "pass" /\ out' = out \o seen /\ buf' = <<>> /\ mode' = m
  BY <1>8, <1>17
<1>18. CASE m = "sniff" /\ buf' = seen /\ UNCHANGED <<out, mode>>
  BY <1>9, <1>18
<1>19. CASE m = "strip" /\ Found(seen, CloseMark) = {} /\ buf' = seen /\ mode' = m /\ UNCHANGED out
  BY <1>11, <1>19
<1>20. CASE /\ m = "strip" /\ Found(seen, CloseMark) # {}
            /\ out' = out \o After(seen, CloseMark) /\ buf' = <<>> /\ mode' = "pass"
  BY <1>12, <1>20
<1> QED BY <1>13, <1>16, <1>17, <1>18, <1>19, <1>20

\* What the filter has shown and holds back is what the whole text would show.
LEMMA FilteredIsExact == Filtered => FilterExact
<1> SUFFICES ASSUME Filtered  PROVE FilterExact
  OBVIOUS
<1> DEFINE open == IsPrefix(OpenMark, consumed) /\ Found(consumed, CloseMark) = {}
           undecided == IsStrictPrefix(consumed, OpenMark)
           whole == StripThought(consumed)
<1>1. /\ consumed \in Seq(Symbols) /\ buf \in Seq(Symbols) /\ out \in Seq(Symbols)
      /\ OpenMark \in Seq(Symbols) /\ OpenMark # <<>>
  BY TextConstants DEF Filtered
<1>2. out \o <<>> = out /\ <<>> \o buf = buf
  BY <1>1, ConcatEmptySeq
<1>3. /\ ~ (IsPrefix(OpenMark, consumed) /\ Found(consumed, CloseMark) # {}) => whole = consumed
      /\ IsPrefix(OpenMark, consumed) /\ Found(consumed, CloseMark) # {}
            => whole = After(consumed, CloseMark)
  BY DEF StripThought, StartsWith
<1>4. undecided <=> IsPrefix(consumed, OpenMark) /\ consumed # OpenMark
  BY DEF IsStrictPrefix
<1> HIDE DEF open, undecided, whole
<1> SUFFICES out = (IF open \/ undecided THEN <<>> ELSE whole) /\ out \o buf = whole
  BY DEF FilterExact, LastPiece, open, undecided, whole
<1>5. CASE /\ mode = "sniff" /\ out = <<>> /\ buf = consumed
           /\ IsPrefix(consumed, OpenMark) /\ Len(consumed) < Len(OpenMark)
  <2>1. ~ IsPrefix(OpenMark, consumed)
    BY <1>1, <1>5, PrefixByLength
  <2>2. consumed # OpenMark
    <3>1. Len(consumed) \in Nat /\ Len(OpenMark) \in Nat
      BY <1>1, LenProperties
    <3> QED BY <1>5, <3>1
  <2> QED BY <1>2, <1>3, <1>4, <1>5, <2>1, <2>2
<1>6. CASE /\ mode = "strip" /\ out = <<>> /\ buf = consumed
           /\ IsPrefix(OpenMark, consumed) /\ Found(consumed, CloseMark) = {}
  BY <1>2, <1>3, <1>6 DEF open
<1>7. CASE mode = "pass" /\ buf = <<>> /\ Through(consumed)
  <2>1. CASE ~ IsPrefix(OpenMark, consumed) /\ ~ IsPrefix(consumed, OpenMark) /\ out = consumed
    BY <1>2, <1>3, <1>4, <1>7, <2>1 DEF open
  <2>2. CASE IsPrefix(OpenMark, consumed) /\ Found(consumed, CloseMark) # {} /\ out = After(consumed, CloseMark)
    <3>1. ASSUME IsPrefix(consumed, OpenMark)  PROVE consumed = OpenMark
      <4>1. Len(consumed) \in Nat /\ Len(OpenMark) \in Nat
        BY <1>1, LenProperties
      <4>2. Len(consumed) <= Len(OpenMark) /\ \A i \in 1 .. Len(consumed) : consumed[i] = OpenMark[i]
        BY <1>1, <3>1, PrefixElts
      <4>3. Len(OpenMark) <= Len(consumed)
        BY <1>1, <2>2, PrefixElts
      <4>4. Len(consumed) = Len(OpenMark)
        BY <4>1, <4>2, <4>3
      <4> QED BY <1>1, <4>2, <4>4, SeqEqual
    <3> QED BY <1>2, <1>3, <1>4, <1>7, <2>2, <3>1 DEF open
  <2> QED BY <1>7, <2>1, <2>2 DEF Through
<1> QED BY <1>5, <1>6, <1>7 DEF Filtered

LEMMA LastNFacts ==
    ASSUME NEW S, NEW s \in Seq(S), NEW n \in Nat
    PROVE  /\ LastN(s, n) \in Seq(S) /\ Len(s) \in Nat /\ Len(LastN(s, n)) \in Nat
           /\ Len(s) > n => Len(LastN(s, n)) = n
           /\ Len(s) <= n => Len(LastN(s, n)) = Len(s)
           /\ \A j \in 1 .. Len(LastN(s, n)) :
                 LastN(s, n)[j] = s[Len(s) - Len(LastN(s, n)) + j]
<1>1. Len(s) \in Nat
  BY LenProperties
<1> DEFINE l == Len(s)
           m == IF l > n THEN l - n + 1 ELSE 1
           t == SubSeq(s, m, l)
<1>2. m \in 1 .. l + 1 /\ l \in 0 .. l /\ m <= l + 1
  BY <1>1
<1>3. t = LastN(s, n)
  BY DEF LastN
<1>4. m \in Nat /\ (l > n => l - m + 1 = n) /\ (l <= n => l - m + 1 = l)
  BY <1>1
<1> HIDE DEF m, t
<1>5. t \in Seq(S) /\ Len(t) = l - m + 1 /\ \A j \in 1 .. l - m + 1 : t[j] = s[m + j - 1]
  BY <1>2, SliceFacts DEF t
<1>6. \A j \in 1 .. Len(t) : m + j - 1 = l - Len(t) + j
  BY <1>1, <1>4, <1>5
<1>7. Len(t) \in Nat
  BY <1>5, LenProperties
<1> QED BY <1>1, <1>3, <1>4, <1>5, <1>6, <1>7

\* What was cut off before need not be kept to cut again.
LEMMA LastNTwice ==
    ASSUME NEW S, NEW s \in Seq(S), NEW p \in Seq(S), NEW n \in Nat
    PROVE  LastN(LastN(s, n) \o p, n) = LastN(s \o p, n)
<1> DEFINE t == LastN(s, n)
           a == t \o p
           b == s \o p
           c == LastN(a, n)
           d == LastN(b, n)
<1>1. /\ t \in Seq(S) /\ Len(s) \in Nat /\ Len(t) \in Nat
      /\ Len(s) > n => Len(t) = n
      /\ Len(s) <= n => Len(t) = Len(s)
      /\ \A j \in 1 .. Len(t) : t[j] = s[Len(s) - Len(t) + j]
  BY LastNFacts
<1> HIDE DEF t
<1>2. t \in Seq(S)
  BY <1>1
<1>3. /\ a \in Seq(S) /\ Len(p) \in Nat /\ Len(a) = Len(t) + Len(p)
      /\ \A i \in 1 .. Len(t) : a[i] = t[i]
      /\ \A i \in 1 .. Len(p) : a[Len(t) + i] = p[i]
  BY <1>2, ConcatElts
<1>4. /\ b \in Seq(S) /\ Len(b) = Len(s) + Len(p)
      /\ \A i \in 1 .. Len(s) : b[i] = s[i]
      /\ \A i \in 1 .. Len(p) : b[Len(s) + i] = p[i]
  BY ConcatElts
<1> HIDE DEF a, b
<1>5. /\ c \in Seq(S) /\ Len(c) \in Nat
      /\ Len(a) > n => Len(c) = n
      /\ Len(a) <= n => Len(c) = Len(a)
      /\ \A j \in 1 .. Len(c) : c[j] = a[Len(a) - Len(c) + j]
  <2>1. a \in Seq(S)
    BY <1>3
  <2> QED BY <2>1, LastNFacts
<1>6. /\ d \in Seq(S) /\ Len(d) \in Nat
      /\ Len(b) > n => Len(d) = n
      /\ Len(b) <= n => Len(d) = Len(b)
      /\ \A j \in 1 .. Len(d) : d[j] = b[Len(b) - Len(d) + j]
  <2>1. b \in Seq(S)
    BY <1>4
  <2> QED BY <2>1, LastNFacts
<1> HIDE DEF c, d
<1>7. Len(c) = Len(d)
  BY <1>1, <1>3, <1>4, <1>5, <1>6
<1>8. ASSUME NEW i \in 1 .. Len(a)  PROVE a[i] = b[Len(s) - Len(t) + i]
  <2>1. CASE i <= Len(t)
    <3>1. i \in 1 .. Len(t) /\ Len(s) - Len(t) + i \in 1 .. Len(s)
      BY <1>1, <1>3, <2>1
    <3> QED BY <1>1, <1>3, <1>4, <3>1
  <2>2. CASE ~ i <= Len(t)
    <3>1. i - Len(t) \in 1 .. Len(p)
      BY <1>1, <1>3, <2>2
    <3>2. Len(t) + (i - Len(t)) = i /\ Len(s) + (i - Len(t)) = Len(s) - Len(t) + i
      BY <1>1, <1>3
    <3> QED BY <1>3, <1>4, <3>1, <3>2
  <2> QED BY <2>1, <2>2
<1>9. ASSUME NEW j \in 1 .. Len(c)  PROVE c[j] = d[j]
  <2> DEFINE i == Len(a) - Len(c) + j
  <2>1. i \in 1 .. Len(a)
    BY <1>3, <1>1, <1>5
  <2>2. Len(s) - Len(t) + i = Len(b) - Len(d) + j
    BY <1>1, <1>3, <1>4, <1>5, <1>7
  <2> QED BY <1>5, <1>6, <1>7, <1>8, <2>1, <2>2
<1>10. c \in Seq(S) /\ d \in Seq(S) /\ Len(c) = Len(d) /\ \A j \in 1 .. Len(c) : c[j] = d[j]
  BY <1>5, <1>6, <1>7, <1>9
<1>11. c = d
  BY <1>10, SeqEqual
<1> QED BY <1>11 DEF a, b, c, d, t

LEMMA StepGuard ==
    ASSUME Guarded, ~ over, consumed \in Seq(Symbols), NEW p \in Seq(Symbols),
           consumed' = consumed \o p, Guard(p)
    PROVE  Guarded'
<1>1. tail' = LastN(consumed', TailMax)
  <2>1. tail' = LastN(LastN(consumed, TailMax) \o p, TailMax)
    BY DEF Guarded, Guard
  <2>2. TailMax \in Nat
    BY TextConstants
  <2> QED BY <2>1, <2>2, LastNTwice
<1>2. over' = (Len(tail') >= TailMin /\ TailLoop(tail'))
  BY DEF Guard
<1>3. over' \in BOOLEAN /\ (~ over' => ~ (Len(tail') >= TailMin /\ TailLoop(tail')))
  <2> DEFINE b == Len(tail') >= TailMin /\ TailLoop(tail')
  <2>1. b \in BOOLEAN /\ over' = b
    BY <1>2
  <2> QED BY <2>1
<1> QED BY <1>1, <1>3 DEF Guarded

LEMMA Multiples ==
    ASSUME NEW span \in Nat, NEW n \in Nat, NEW k \in 0 .. n - 1
    PROVE  /\ span * k \in Nat /\ span * n \in Nat
           /\ span * (k + 1) = span * k + span /\ span * (k + 1) <= span * n
<1>1. k \in Nat /\ k + 1 \in Nat /\ k + 1 <= n
  OBVIOUS
<1>2. span * (k + 1) = span * k + span
  BY <1>1
<1>3. span * (k + 1) <= span * n
  BY <1>1
<1>4. span * k \in Nat /\ span * n \in Nat
  BY <1>1
<1> QED BY <1>2, <1>3, <1>4

\* Copies that fit in the last n symbols are copies in them.
LEMMA RepeatsInTail ==
    ASSUME NEW S, NEW s \in Seq(S), NEW n \in Nat, NEW span \in Nat \ {0}, NEW reps \in Nat \ {0},
           span * reps <= n, Repeats(s, span, reps)
    PROVE  Repeats(LastN(s, n), span, reps)
<1> DEFINE t == LastN(s, n)
           l == Len(s)
           m == Len(t)
           Copy(u, k) == SubSeq(u, Len(u) - span * (k + 1) + 1, Len(u) - span * k)
<1>1. /\ t \in Seq(S) /\ l \in Nat /\ m \in Nat
      /\ l > n => m = n
      /\ l <= n => m = l
      /\ \A j \in 1 .. m : t[j] = s[l - m + j]
  BY LastNFacts
<1> HIDE DEF t
<1>2. span * reps <= l /\ span * reps <= m /\ span * reps \in Nat
  <2>1. span * reps <= l
    BY DEF Repeats
  <2>2. span * reps \in Nat
    OBVIOUS
  <2> QED BY <1>1, <2>1, <2>2
<1>3. ASSUME NEW k \in 0 .. reps - 1  PROVE Copy(t, k) = Copy(s, k)
  <2> DEFINE x == span * (k + 1)
             y == span * k
  <2>1. x \in Nat /\ y \in Nat /\ x = y + span /\ x <= span * reps
    BY Multiples
  <2> HIDE DEF x, y
  <2>2. x <= l /\ x <= m
    BY <1>1, <1>2, <2>1
  <2> DEFINE a == SubSeq(t, m - x + 1, m - y)
             b == SubSeq(s, l - x + 1, l - y)
  <2>3. a \in Seq(S) /\ Len(a) = span /\ \A j \in 1 .. span : a[j] = t[m - x + j]
    <3> DEFINE u == m - x + 1
               v == m - y
    <3>1. u \in 1 .. Len(t) + 1 /\ v \in 0 .. Len(t) /\ u <= v + 1 /\ v - u + 1 = span
          /\ \A j \in 1 .. span : u + j - 1 = m - x + j
      BY <1>1, <2>1, <2>2
    <3> HIDE DEF u, v
    <3>2. t \in Seq(S)
      BY <1>1
    <3>3. /\ SubSeq(t, u, v) \in Seq(S) /\ Len(SubSeq(t, u, v)) = v - u + 1
          /\ \A j \in 1 .. v - u + 1 : SubSeq(t, u, v)[j] = t[u + j - 1]
      BY <3>1, <3>2, SliceFacts
    <3> QED BY <3>1, <3>3 DEF u, v
  <2>4. b \in Seq(S) /\ Len(b) = span /\ \A j \in 1 .. span : b[j] = s[l - x + j]
    <3> DEFINE u == l - x + 1
               v == l - y
    <3>1. u \in 1 .. Len(s) + 1 /\ v \in 0 .. Len(s) /\ u <= v + 1 /\ v - u + 1 = span
          /\ \A j \in 1 .. span : u + j - 1 = l - x + j
      BY <1>1, <2>1, <2>2
    <3> HIDE DEF u, v
    <3>3. /\ SubSeq(s, u, v) \in Seq(S) /\ Len(SubSeq(s, u, v)) = v - u + 1
          /\ \A j \in 1 .. v - u + 1 : SubSeq(s, u, v)[j] = s[u + j - 1]
      BY <3>1, SliceFacts
    <3> QED BY <3>1, <3>3 DEF u, v
  <2> HIDE DEF a, b
  <2>5. ASSUME NEW j \in 1 .. span  PROVE a[j] = b[j]
    <3>1. m - x + j \in 1 .. m /\ l - m + (m - x + j) = l - x + j
      BY <1>1, <2>1, <2>2
    <3> QED BY <1>1, <2>3, <2>4, <3>1
  <2>6. a = b
    <3>1. a \in Seq(S) /\ b \in Seq(S) /\ Len(a) = Len(b) /\ \A j \in 1 .. Len(a) : a[j] = b[j]
      BY <2>3, <2>4, <2>5
    <3> QED BY <3>1, SeqEqual
  <2> QED BY <2>6 DEF a, b, x, y
<1>4. LastN(t, span) = Copy(t, 0) /\ LastN(s, span) = Copy(s, 0)
  <2>1. span * (0 + 1) = span /\ span * 0 = 0 /\ span <= span * reps
    <3>1. 0 \in 0 .. reps - 1
      OBVIOUS
    <3>2. span * (0 + 1) <= span * reps /\ span * (0 + 1) = span * 0 + span
      BY <3>1, Multiples
    <3> QED BY <3>2
  <2>2. span <= l /\ span <= m
    BY <1>1, <1>2, <2>1
  <2>3. Copy(t, 0) = SubSeq(t, m - span + 1, m) /\ Copy(s, 0) = SubSeq(s, l - span + 1, l)
    BY <1>1, <2>1
  <2>4. LastN(t, span) = SubSeq(t, m - span + 1, m)
    <3>1. m > span => LastN(t, span) = SubSeq(t, m - span + 1, m)
      BY DEF LastN
    <3>2. m = span => m - span + 1 = 1
      BY <1>1
    <3>3. ~ m > span => LastN(t, span) = SubSeq(t, 1, m)
      BY DEF LastN
    <3>4. m > span \/ m = span
      BY <1>1, <2>2
    <3>5. ~ m > span => m = span
      BY <1>1, <2>2
    <3> QED BY <3>1, <3>2, <3>3, <3>5
  <2>5. LastN(s, span) = SubSeq(s, l - span + 1, l)
    <3>1. l > span => LastN(s, span) = SubSeq(s, l - span + 1, l)
      BY DEF LastN
    <3>2. l = span => l - span + 1 = 1
      BY <1>1
    <3>3. ~ l > span => LastN(s, span) = SubSeq(s, 1, l)
      BY DEF LastN
    <3>5. ~ l > span => l = span
      BY <1>1, <2>2
    <3> QED BY <3>1, <3>2, <3>3, <3>5
  <2> QED BY <2>3, <2>4, <2>5
<1>5. ASSUME NEW k \in 1 .. reps - 1  PROVE Copy(t, k) = LastN(t, span)
  <2>1. Copy(s, k) = LastN(s, span)
    BY DEF Repeats
  <2>2. k \in 0 .. reps - 1 /\ 0 \in 0 .. reps - 1
    OBVIOUS
  <2>3. Copy(t, k) = Copy(s, k) /\ Copy(t, 0) = Copy(s, 0)
    BY <1>3, <2>2
  <2> HIDE DEF Copy
  <2> QED BY <1>4, <2>1, <2>3
<1>6. Repeats(t, span, reps)
  BY <1>2, <1>5 DEF Repeats
<1> QED BY <1>6 DEF t

\* The recent text is enough to see every repetition it can hold.
LEMMA GuardedStops == Guarded /\ consumed \in Seq(Symbols) => LoopsStopped
<1> SUFFICES ASSUME Guarded, consumed \in Seq(Symbols), Len(consumed) >= TailMin, ~ over,
                    NEW span \in MinSpan .. TailMax \div Reps, span * Reps >= MinTotal,
                    Repeats(consumed, span, Reps)
             PROVE  FALSE
  BY DEF LoopsStopped
<1>1. /\ MinSpan \in Nat \ {0} /\ Reps \in Nat \ {0} /\ TailMax \in Nat /\ TailMin \in Nat
      /\ TailMin <= TailMax
  BY TextConstants
<1>2. TailMax \div Reps \in Int /\ span \in Nat \ {0} /\ span <= TailMax \div Reps
  BY <1>1
<1>3. span * Reps <= TailMax
  BY <1>1, <1>2
<1>4. /\ tail \in Seq(Symbols) /\ Len(consumed) \in Nat /\ Len(tail) \in Nat
      /\ Len(consumed) > TailMax => Len(tail) = TailMax
      /\ Len(consumed) <= TailMax => Len(tail) = Len(consumed)
  <2>1. tail = LastN(consumed, TailMax)
    BY DEF Guarded
  <2> QED BY <1>1, <2>1, LastNFacts
<1>5. Repeats(tail, span, Reps)
  <2>1. Repeats(LastN(consumed, TailMax), span, Reps)
    BY <1>1, <1>2, <1>3, RepeatsInTail
  <2> QED BY <2>1 DEF Guarded
<1>6. Len(tail) >= TailMin
  <2>1. Len(consumed) >= TailMin
    OBVIOUS
  <2> QED BY <1>1, <1>4, <2>1
<1>7. span \in MinSpan .. Len(tail) \div Reps
  <2>1. span * Reps <= Len(tail)
    BY <1>5 DEF Repeats
  <2>2. span <= Len(tail) \div Reps /\ Len(tail) \div Reps \in Int
    <3>1. Len(tail) \in Nat
      BY <1>4
    <3> DEFINE l == Len(tail)
    <3> HIDE DEF l
    <3>2. span * Reps <= l /\ l \in Nat
      BY <2>1, <3>1 DEF l
    <3>3. span <= l \div Reps /\ l \div Reps \in Int
      BY <1>1, <1>2, <3>2
    <3> QED BY <3>3 DEF l
  <2>3. MinSpan <= span
    OBVIOUS
  <2> QED BY <1>1, <1>2, <2>2, <2>3
<1>8. TailLoop(tail)
  BY <1>5, <1>7 DEF TailLoop
<1> QED BY <1>6, <1>8 DEF Guarded

-----------------------------------------------------------------------------
\* A function over 0 .. n that is given at 0 and, by G, from each number to the next.
Closed(n, S, G) == \A k \in 1 .. n, s \in S : G[k][s] \in S
Runs(f, n, z, G) == f[0] = z /\ \A k \in 1 .. n : f[k] = G[k][f[k - 1]]
HasRun(n, S, z, G) == \E f \in [0 .. n -> S] : Runs(f, n, z, G)

LEMMA Recursion ==
    ASSUME NEW n \in Nat, NEW S, NEW z \in S, NEW G, Closed(n, S, G)
    PROVE  HasRun(n, S, z, G)
<1> DEFINE Upto(l, f) == f = [k \in 0 .. l |-> IF k = 0 THEN z ELSE G[k][f[k - 1]]]
           P == {l \in 0 .. n : \E f \in [0 .. l -> S] : Upto(l, f)}
<1>1. 0 \in P
  <2> DEFINE f == [k \in 0 .. 0 |-> z]
  <2>1. f \in [0 .. 0 -> S] /\ 0 \in 0 .. n
    OBVIOUS
  <2>2. \A k \in 0 .. 0 : k = 0
    OBVIOUS
  <2>3. Upto(0, f)
    BY <2>2
  <2> HIDE DEF f, Upto
  <2> QED BY <2>1, <2>3
<1>2. ASSUME NEW l \in 0 .. n - 1, l \in P  PROVE l + 1 \in P
  <2>1. PICK f \in [0 .. l -> S] : Upto(l, f)
    BY <1>2
  <2> DEFINE g == [k \in 0 .. l + 1 |-> IF k <= l THEN f[k] ELSE G[l + 1][f[l]]]
  <2>2. l \in Nat /\ l + 1 \in 1 .. n /\ l + 1 \in 0 .. n /\ l \in 0 .. l /\ f[l] \in S
    OBVIOUS
  <2>3. G[l + 1][f[l]] \in S
    BY <2>2 DEF Closed
  <2>4. g \in [0 .. l + 1 -> S]
    <3>1. ASSUME NEW k \in 0 .. l + 1  PROVE (IF k <= l THEN f[k] ELSE G[l + 1][f[l]]) \in S
      <4>1. k <= l => k \in 0 .. l
        BY <2>2
      <4> QED BY <2>3, <4>1
    <3> QED BY <3>1
  <2>5. ASSUME NEW k \in 0 .. l + 1
        PROVE  g[k] = IF k = 0 THEN z ELSE G[k][g[k - 1]]
    <3>1. CASE k <= l
      <4>1. k \in 0 .. l /\ (k # 0 => k - 1 \in 0 .. l + 1 /\ k - 1 <= l)
        BY <2>2, <3>1
      <4>2. g[k] = f[k] /\ (k # 0 => g[k - 1] = f[k - 1])
        BY <3>1, <4>1
      <4>3. f[k] = IF k = 0 THEN z ELSE G[k][f[k - 1]]
        BY <2>1, <4>1
      <4> HIDE DEF g
      <4> QED BY <4>2, <4>3
    <3>2. CASE ~ k <= l
      <4>1. k = l + 1 /\ k # 0 /\ k - 1 = l /\ l \in 0 .. l + 1
        BY <2>2, <3>2
      <4>2. g[k] = G[l + 1][f[l]] /\ g[l] = f[l]
        BY <2>2, <3>2, <4>1
      <4> HIDE DEF g
      <4> QED BY <4>1, <4>2
    <3> QED BY <3>1, <3>2
  <2>6. Upto(l + 1, g)
    <3> DEFINE h == [k \in 0 .. l + 1 |-> IF k = 0 THEN z ELSE G[k][g[k - 1]]]
    <3>1. DOMAIN g = 0 .. l + 1 /\ g = [k \in DOMAIN g |-> g[k]]
      BY <2>4
    <3> HIDE DEF g
    <3>2. g = h
      BY <2>5, <3>1
    <3> QED BY <3>2
  <2> HIDE DEF g, Upto
  <2> QED BY <2>2, <2>4, <2>6
<1>3. n \in P
  <2> HIDE DEF P
  <2>1. \A l \in 0 .. n : l \in P
    BY <1>1, <1>2, UpTo
  <2> QED BY <2>1
<1>4. PICK f \in [0 .. n -> S] : Upto(n, f)
  BY <1>3
<1>5. f[0] = z
  BY <1>4
<1>6. ASSUME NEW k \in 1 .. n  PROVE f[k] = G[k][f[k - 1]]
  <2>1. k \in 0 .. n /\ k # 0
    OBVIOUS
  <2> QED BY <1>4, <2>1
<1> QED BY <1>5, <1>6 DEF HasRun, Runs

\* Said is the end of a run over the lines of the phase.
NoDash(ph) == \A k \in DOMAIN ph : ph[k] # Dash

SaidStep(s, ln) == IF ln = Dash THEN s ELSE Append(s, ln)

LEMMA SaidRun ==
    ASSUME NEW T, NEW ph \in Seq(T)
    PROVE  \E f \in [0 .. Len(ph) -> Seq(T \ {Dash})] :
              /\ f[0] = <<>> /\ \A k \in 1 .. Len(ph) : f[k] = SaidStep(f[k - 1], ph[k])
              /\ Said(ph) = f[Len(ph)]
<1> DEFINE n == Len(ph)
           S == Seq(T \ {Dash})
           Solves(f) == f = [k \in 0 .. n |-> IF k = 0 THEN <<>> ELSE SaidStep(f[k - 1], ph[k])]
           said == CHOOSE f : Solves(f)
<1>1. Said(ph) = said[n]
  BY DEF Said, SaidStep
<1>2. n \in Nat /\ DOMAIN ph = 1 .. n /\ \A k \in 1 .. n : ph[k] \in T
  BY LenProperties, ElementOfSeq
<1>3. <<>> \in S
  BY EmptySeq
<1> DEFINE G == [k \in 1 .. n |-> [s \in S |-> SaidStep(s, ph[k])]]
<1>4. ASSUME NEW k \in 1 .. n, NEW s \in S  PROVE SaidStep(s, ph[k]) \in S
  <2>1. ph[k] # Dash => ph[k] \in T \ {Dash}
    BY <1>2
  <2> QED BY <2>1, AppendProperties DEF SaidStep
<1> HIDE DEF S
<1>5. \A k \in 1 .. n, s \in S : G[k][s] \in S
  BY <1>4
<1>6. PICK f \in [0 .. n -> S] : f[0] = <<>> /\ \A k \in 1 .. n : f[k] = G[k][f[k - 1]]
  <2>1. Closed(n, S, G)
    BY <1>5 DEF Closed
  <2> HIDE DEF G, n
  <2>2. HasRun(n, S, <<>>, G)
    BY <1>2, <1>3, <2>1, Recursion
  <2> QED BY <2>2 DEF HasRun, Runs
<1>7. ASSUME NEW k \in 1 .. n  PROVE f[k] = SaidStep(f[k - 1], ph[k])
  <2>1. k - 1 \in 0 .. n
    BY <1>2
  <2>2. f[k - 1] \in S
    BY <2>1
  <2>3. G[k][f[k - 1]] = SaidStep(f[k - 1], ph[k])
    BY <2>2
  <2> HIDE DEF G
  <2> QED BY <1>6, <2>3
<1>8. Solves(f)
  <2>1. f = [k \in 0 .. n |-> f[k]]
    OBVIOUS
  <2>2. ASSUME NEW k \in 0 .. n
        PROVE  f[k] = IF k = 0 THEN <<>> ELSE SaidStep(f[k - 1], ph[k])
    <3>1. k = 0 \/ k \in 1 .. n
      BY <1>2
    <3> HIDE DEF n
    <3> QED BY <1>6, <1>7, <3>1
  <2> QED BY <2>1, <2>2
<1>9. Solves(said)
  <2> HIDE DEF Solves
  <2> QED BY <1>8
<1> HIDE DEF said
<1>10. said \in [0 .. n -> S] /\ said[0] = <<>> /\ \A k \in 1 .. n : said[k] = SaidStep(said[k - 1], ph[k])
  <2> DEFINE P == {k \in 0 .. n : said[k] \in S}
  <2>1. 0 \in 0 .. n /\ said[0] = <<>>
    BY <1>2, <1>9
  <2>2. \A k \in 1 .. n : said[k] = SaidStep(said[k - 1], ph[k])
    <3>1. \A k \in 1 .. n : k \in 0 .. n /\ k # 0
      OBVIOUS
    <3> QED BY <1>9, <3>1
  <2>3. 0 \in P
    BY <1>3, <2>1
  <2>4. ASSUME NEW k \in 0 .. n - 1, k \in P  PROVE k + 1 \in P
    <3>1. k + 1 \in 1 .. n /\ k + 1 \in 0 .. n /\ (k + 1) - 1 = k /\ said[k] \in S
      BY <1>2, <2>4
    <3>2. said[k + 1] = SaidStep(said[k], ph[k + 1])
      BY <2>2, <3>1
    <3> QED BY <1>4, <3>1, <3>2
  <2>5. \A k \in 0 .. n : said[k] \in S
    <3> HIDE DEF P
    <3>1. \A k \in 0 .. n : k \in P
      BY <1>2, <2>3, <2>4, UpTo
    <3> QED BY <3>1 DEF P
  <2>6. said = [k \in 0 .. n |-> said[k]]
    BY <1>9
  <2> QED BY <2>1, <2>2, <2>5, <2>6
<1> QED BY <1>1, <1>10 DEF S

\* The tasks of a phase: no list marks, and no more than the lines.
LEMMA SaidFacts ==
    ASSUME NEW T, NEW ph \in Seq(T)
    PROVE  Said(ph) \in Seq(T \ {Dash}) /\ Len(Said(ph)) \in Nat /\ Len(Said(ph)) <= Len(ph)
<1> DEFINE n == Len(ph)
           S == Seq(T \ {Dash})
<1>1. n \in Nat /\ \A k \in 1 .. n : ph[k] \in T
  BY LenProperties, ElementOfSeq
<1>2. PICK f \in [0 .. n -> S] :
         /\ f[0] = <<>> /\ \A k \in 1 .. n : f[k] = SaidStep(f[k - 1], ph[k])
         /\ Said(ph) = f[n]
  BY SaidRun
<1> HIDE DEF n
<1> DEFINE P == {k \in 0 .. n : Len(f[k]) <= k}
<1>3. 0 \in P
  <2>1. Len(f[0]) = 0
    BY <1>2, EmptySeq
  <2> QED BY <1>1, <2>1
<1>4. ASSUME NEW k \in 0 .. n - 1, k \in P  PROVE k + 1 \in P
  <2>1. /\ k \in 0 .. n /\ k + 1 \in 0 .. n /\ k + 1 \in 1 .. n /\ (k + 1) - 1 = k
        /\ Len(f[k]) <= k
    BY <1>1, <1>4
  <2>2. f[k] \in S /\ f[k + 1] = SaidStep(f[k], ph[k + 1]) /\ ph[k + 1] \in T
    BY <1>1, <1>2, <2>1
  <2>3. Len(f[k]) \in Nat
    BY <2>2, LenProperties
  <2>4. CASE ph[k + 1] = Dash
    BY <2>1, <2>2, <2>3, <2>4 DEF SaidStep
  <2>5. CASE ph[k + 1] # Dash
    <3>1. f[k + 1] = Append(f[k], ph[k + 1]) /\ ph[k + 1] \in T \ {Dash}
      BY <2>2, <2>5 DEF SaidStep
    <3>2. Len(f[k + 1]) = Len(f[k]) + 1
      BY <2>2, <3>1, AppendProperties
    <3> QED BY <2>1, <2>3, <3>2
  <2> QED BY <2>4, <2>5
<1>5. n \in P
  <2> HIDE DEF P
  <2>1. \A k \in 0 .. n : k \in P
    BY <1>1, <1>3, <1>4, UpTo
  <2> QED BY <1>1, <2>1
<1>6. Said(ph) \in S /\ Len(Said(ph)) <= n
  BY <1>2, <1>5
<1> QED BY <1>6, LenProperties DEF n

\* Total is the end of a sum.
Sums(f, phs) == f[0] = 0 /\ \A k \in 1 .. Len(phs) : f[k] = f[k - 1] + Len(phs[k])

LEMMA TotalFacts ==
    ASSUME NEW T, NEW phs \in Seq(Seq(T))
    PROVE  \E f \in [0 .. Len(phs) -> Nat] : Sums(f, phs) /\ Total(phs) = f[Len(phs)]
<1> DEFINE n == Len(phs)
           Solves(f) == f = [k \in 0 .. n |-> IF k = 0 THEN 0 ELSE f[k - 1] + Len(phs[k])]
           sum == CHOOSE f : Solves(f)
<1>1. Total(phs) = sum[n]
  BY DEF Total
<1>2. n \in Nat /\ \A k \in 1 .. n : Len(phs[k]) \in Nat
  BY LenProperties, ElementOfSeq
<1>3. \E f : Solves(f)
  <2> DEFINE G == [k \in 1 .. n |-> [s \in Nat |-> s + Len(phs[k])]]
  <2>1. Closed(n, Nat, G)
    BY <1>2 DEF Closed
  <2>2. PICK f \in [0 .. n -> Nat] : f[0] = 0 /\ \A k \in 1 .. n : f[k] = G[k][f[k - 1]]
    <3> HIDE DEF G, n
    <3>1. HasRun(n, Nat, 0, G)
      <4>1. 0 \in Nat
        OBVIOUS
      <4> QED BY <1>2, <2>1, <4>1, Recursion
    <3> QED BY <3>1 DEF HasRun, Runs
  <2>3. ASSUME NEW k \in 0 .. n, k # 0
        PROVE  f[k] = f[k - 1] + Len(phs[k])
    <3>1. k \in 1 .. n /\ k - 1 \in 0 .. n
      BY <1>2, <2>3
    <3>2. f[k - 1] \in Nat
      BY <3>1
    <3>3. G[k][f[k - 1]] = f[k - 1] + Len(phs[k])
      BY <3>1, <3>2
    <3> HIDE DEF G
    <3> QED BY <2>2, <3>1, <3>3
  <2>4. f[0] = 0 /\ f = [k \in 0 .. n |-> f[k]]
    BY <2>2
  <2>5. Solves(f)
    BY <2>3, <2>4
  <2> QED BY <2>5
<1>4. Solves(sum)
  <2> HIDE DEF Solves
  <2> QED BY <1>3
<1> HIDE DEF sum
<1>5. sum[0] = 0
  BY <1>2, <1>4
<1>6. ASSUME NEW k \in 0 .. n - 1
      PROVE  sum[k + 1] = sum[k] + Len(phs[k + 1])
  <2>1. k + 1 \in 0 .. n /\ k + 1 # 0 /\ (k + 1) - 1 = k
    BY <1>2
  <2> QED BY <1>4, <2>1
<1> DEFINE P == {k \in 0 .. n : sum[k] \in Nat}
<1>7. \A k \in 0 .. n : sum[k] \in Nat
  <2>1. 0 \in P
    BY <1>2, <1>5
  <2>2. ASSUME NEW k \in 0 .. n - 1, k \in P  PROVE k + 1 \in P
    <3>1. k + 1 \in 0 .. n /\ k + 1 \in 1 .. n /\ sum[k] \in Nat
      BY <1>2, <2>2
    <3>2. Len(phs[k + 1]) \in Nat
      BY <1>2, <3>1
    <3> QED BY <1>6, <3>1, <3>2
  <2> HIDE DEF P
  <2>3. \A k \in 0 .. n : k \in P
    BY <1>2, <2>1, <2>2, UpTo
  <2> QED BY <2>3 DEF P
<1>8. Sums(sum, phs)
  <2>1. ASSUME NEW k \in 1 .. n  PROVE sum[k] = sum[k - 1] + Len(phs[k])
    <3>1. k \in 0 .. n /\ k # 0
      BY <1>2
    <3> QED BY <1>4, <3>1
  <2> QED BY <1>5, <2>1 DEF Sums
<1>9. sum \in [0 .. n -> Nat]
  <2>1. sum = [k \in 0 .. n |-> sum[k]]
    BY <1>4
  <2> QED BY <1>7, <2>1
<1> QED BY <1>1, <1>8, <1>9

\* It does not matter which function adds them up.
LEMMA SumsAgree ==
    ASSUME NEW n \in Nat, NEW f, NEW g, NEW L \in [1 .. n -> Nat],
           f[0] = 0, \A k \in 1 .. n : f[k] = f[k - 1] + L[k],
           g[0] \in Nat, \A k \in 1 .. n : g[k] = g[k - 1] + L[k]
    PROVE  g[n] = g[0] + f[n] /\ f[n] \in Nat /\ g[n] \in Nat
<1> DEFINE P == {k \in 0 .. n : f[k] \in Nat /\ g[k] = g[0] + f[k]}
<1>1. 0 \in P
  OBVIOUS
<1>2. ASSUME NEW k \in 0 .. n - 1, k \in P  PROVE k + 1 \in P
  <2>1. k + 1 \in 1 .. n /\ (k + 1) - 1 = k /\ k + 1 \in 0 .. n
    OBVIOUS
  <2>2. f[k + 1] = f[k] + L[k + 1] /\ g[k + 1] = g[k] + L[k + 1] /\ L[k + 1] \in Nat
    BY <2>1
  <2>3. f[k] \in Nat /\ g[k] = g[0] + f[k] /\ g[0] \in Nat
    BY <1>2
  <2> DEFINE a == f[k + 1]
             b == g[k + 1]
  <2>4. a \in Nat /\ b = g[0] + a
    BY <2>2, <2>3
  <2> QED BY <2>1, <2>4
<1>3. n \in P
  <2> HIDE DEF P
  <2>1. \A k \in 0 .. n : k \in P
    BY <1>1, <1>2, UpTo
  <2> QED BY <2>1
<1> QED BY <1>3

LEMMA TotalEmpty == Total(<<>>) = 0
<1> DEFINE e == <<>>
<1>1. e \in Seq(Seq({})) /\ Len(e) = 0
  BY EmptySeq
<1> HIDE DEF e
<1>2. PICK f \in [0 .. Len(e) -> Nat] : Sums(f, e) /\ Total(e) = f[Len(e)]
  BY <1>1, TotalFacts
<1> QED BY <1>1, <1>2 DEF e, Sums

LEMMA TotalAppend ==
    ASSUME NEW T, NEW phs \in Seq(Seq(T)), NEW ph \in Seq(T)
    PROVE  /\ Total(phs) \in Nat
           /\ Total(Append(phs, ph)) = Total(phs) + Len(ph)
<1> DEFINE n == Len(phs)
           more == Append(phs, ph)
           L == [k \in 1 .. n |-> Len(phs[k])]
<1>1. /\ more \in Seq(Seq(T)) /\ Len(more) = n + 1 /\ n \in Nat /\ Len(ph) \in Nat
      /\ \A k \in 1 .. n : more[k] = phs[k] /\ Len(phs[k]) \in Nat
      /\ more[n + 1] = ph
  BY LenProperties, ElementOfSeq, AppendProperties
<1>2. L \in [1 .. n -> Nat]
  BY <1>1
<1>3. PICK f \in [0 .. n -> Nat] : Sums(f, phs) /\ Total(phs) = f[n]
  BY TotalFacts
<1>4. PICK g \in [0 .. Len(more) -> Nat] : Sums(g, more) /\ Total(more) = g[Len(more)]
  BY <1>1, TotalFacts
<1> HIDE DEF more
<1>5. f[0] = 0 /\ \A k \in 1 .. n : f[k] = f[k - 1] + L[k]
  BY <1>1, <1>3 DEF Sums
<1>6. g[0] = 0 /\ \A k \in 1 .. n + 1 : g[k] = g[k - 1] + Len(more[k])
  BY <1>1, <1>4 DEF Sums
<1>7. \A k \in 1 .. n : g[k] = g[k - 1] + L[k]
  BY <1>1, <1>6
<1> HIDE DEF L, n
<1>8. g[n] = 0 + f[n] /\ f[n] \in Nat
  <2>1. g[0] \in Nat
    BY <1>6
  <2>2. g[n] = g[0] + f[n] /\ f[n] \in Nat
    BY <1>1, <1>2, <1>5, <1>7, <2>1, SumsAgree
  <2> QED BY <1>6, <2>2
<1>9. g[n + 1] = g[n] + Len(ph)
  <2>1. n + 1 \in 1 .. n + 1 /\ (n + 1) - 1 = n
    BY <1>1
  <2> QED BY <1>1, <1>6, <2>1
<1> QED BY <1>1, <1>3, <1>4, <1>8, <1>9 DEF more

LEMMA TotalNat == ASSUME NEW T, NEW phs \in Seq(Seq(T))  PROVE Total(phs) \in Nat
<1>1. PICK f \in [0 .. Len(phs) -> Nat] : Total(phs) = f[Len(phs)]
  BY TotalFacts
<1>2. Len(phs) \in Nat
  BY LenProperties
<1> QED BY <1>1, <1>2

LEMMA TotalTail ==
    ASSUME NEW T, NEW phs \in Seq(Seq(T)), phs # <<>>
    PROVE  /\ Total(Tail(phs)) \in Nat /\ Len(Head(phs)) \in Nat
           /\ Total(phs) = Len(Head(phs)) + Total(Tail(phs))
<1> DEFINE n == Len(phs) - 1
           rest == Tail(phs)
           L == [k \in 1 .. n |-> Len(rest[k])]
<1>1. /\ rest \in Seq(Seq(T)) /\ Len(rest) = n /\ n \in Nat
      /\ \A k \in 1 .. n : rest[k] = phs[k + 1]
  <2>1. Len(phs) \in Nat \ {0}
    BY LenProperties, EmptySeq
  <2> QED BY <2>1, HeadTailProperties
<1>2. Head(phs) = phs[1] /\ Len(Head(phs)) \in Nat
  BY HeadTailProperties, LenProperties
<1>3. PICK f \in [0 .. Len(rest) -> Nat] : Sums(f, rest) /\ Total(rest) = f[Len(rest)]
  BY <1>1, TotalFacts
<1>4. PICK g \in [0 .. Len(phs) -> Nat] : Sums(g, phs) /\ Total(phs) = g[Len(phs)]
  BY TotalFacts
<1>5. \A k \in 1 .. n : rest[k] \in Seq(T)
  BY <1>1, ElementOfSeq
<1> HIDE DEF rest
<1>6. L \in [1 .. n -> Nat]
  <2>1. \A k \in 1 .. n : Len(rest[k]) \in Nat
    BY <1>5, LenProperties
  <2> QED BY <2>1
<1>7. f[0] = 0 /\ \A k \in 1 .. n : f[k] = f[k - 1] + L[k]
  BY <1>1, <1>3 DEF Sums
<1>8. /\ g[0] = 0 /\ \A k \in 1 .. n + 1 : g[k] = g[k - 1] + Len(phs[k])
      /\ Len(phs) = n + 1
  BY <1>1, <1>4, LenProperties DEF Sums
<1> DEFINE h == [k \in 0 .. n |-> g[k + 1]]
<1>9. h[0] = Len(Head(phs))
  <2>1. 1 \in 1 .. n + 1 /\ 1 - 1 = 0 /\ 0 \in 0 .. n /\ 0 + 1 = 1
    BY <1>1
  <2>2. h[0] = g[1] /\ g[1] = g[0] + Len(phs[1])
    BY <1>8, <2>1
  <2> QED BY <1>2, <1>8, <2>2
<1>10. ASSUME NEW k \in 1 .. n  PROVE h[k] = h[k - 1] + L[k]
  <2>1. k + 1 \in 1 .. n + 1 /\ (k + 1) - 1 = k /\ (k - 1) + 1 = k /\ k \in 0 .. n /\ k - 1 \in 0 .. n
    BY <1>1
  <2>2. h[k] = g[k + 1] /\ h[k - 1] = g[k] /\ g[k + 1] = g[k] + Len(phs[k + 1])
    BY <1>8, <2>1
  <2>3. L[k] = Len(phs[k + 1])
    BY <1>1
  <2> QED BY <2>2, <2>3
<1>11. h[n] = g[n + 1]
  BY <1>1
<1> HIDE DEF h, L, n
<1>12. h[n] = h[0] + f[n] /\ f[n] \in Nat
  <2>1. h[0] \in Nat
    BY <1>2, <1>9
  <2> QED BY <1>1, <1>6, <1>7, <1>10, <2>1, SumsAgree
<1>13. Total(rest) = f[n] /\ Total(phs) = g[n + 1]
  BY <1>1, <1>3, <1>4, <1>8
<1> QED BY <1>2, <1>9, <1>11, <1>12, <1>13 DEF rest

\* What a phase keeps of its lines when there is room for r.
Cut(ph, r) == Said(SubSeq(ph, 1, Min({Len(ph), r})))

LEMMA CutFacts ==
    ASSUME NEW T, NEW ph \in Seq(T), NEW r \in Nat
    PROVE  /\ Cut(ph, r) \in Seq(T \ {Dash})
           /\ Len(Cut(ph, r)) \in Nat /\ Len(Cut(ph, r)) <= r
<1> DEFINE F == {Len(ph), r}
           m == IF Len(ph) <= r THEN Len(ph) ELSE r
<1>1. Len(ph) \in Nat
  BY LenProperties
<1>2. m \in F /\ F \in SUBSET Int /\ \A x \in F : m <= x
  BY <1>1
<1>3. m \in 0 .. Len(ph) /\ m <= r /\ m \in Nat
  BY <1>1
<1> HIDE DEF F, m
<1>4. Min(F) = m
  BY <1>2, MinIs
<1>5. SubSeq(ph, 1, m) \in Seq(T) /\ Len(SubSeq(ph, 1, m)) = m
  <2>1. 1 \in 1 .. Len(ph) + 1 /\ 1 <= m + 1 /\ m - 1 + 1 = m
    BY <1>1, <1>3
  <2>2. SubSeq(ph, 1, m) \in Seq(T) /\ Len(SubSeq(ph, 1, m)) = m - 1 + 1
    BY <1>3, <2>1, SliceFacts
  <2> QED BY <2>1, <2>2
<1> DEFINE top == SubSeq(ph, 1, m)
<1>6. Cut(ph, r) = Said(top)
  BY <1>4 DEF Cut, F
<1> HIDE DEF top
<1>7. top \in Seq(T) /\ Len(top) = m
  BY <1>5 DEF top
<1>8. Said(top) \in Seq(T \ {Dash}) /\ Len(Said(top)) \in Nat /\ Len(Said(top)) <= m
  BY <1>7, SaidFacts
<1> QED BY <1>3, <1>6, <1>8

\* Room for n coders: what one more phase of lines does.
CapState(T) == [phs : Seq(Seq(T \ {Dash}) \ {<<>>}), room : Nat]
CapStep(s, ph) ==
    IF Cut(ph, s.room) = <<>> THEN s
    ELSE [phs |-> Append(s.phs, Cut(ph, s.room)), room |-> s.room - Len(Cut(ph, s.room))]

\* The tasks kept and the room left are together always n.
LEMMA CapStepTyped ==
    ASSUME NEW T, NEW s \in CapState(T), NEW ph \in Seq(T)
    PROVE  /\ CapStep(s, ph) \in CapState(T)
           /\ Total(s.phs) \in Nat
           /\ Total(CapStep(s, ph).phs) \in Nat
           /\ Total(CapStep(s, ph).phs) + CapStep(s, ph).room = Total(s.phs) + s.room
<1> DEFINE U == Seq(T \ {Dash})
           c == Cut(ph, s.room)
           p == s.phs
           r == s.room
<1>1. p \in Seq(U \ {<<>>}) /\ r \in Nat
  BY DEF CapState
<1>2. c \in U /\ Len(c) \in Nat /\ Len(c) <= r
  BY <1>1, CutFacts
<1>3. CapStep(s, ph) = IF c = <<>> THEN s ELSE [phs |-> Append(p, c), room |-> r - Len(c)]
  BY DEF CapStep
<1>4. p \in Seq(U)
  BY <1>1, SeqMonotonic
<1> HIDE DEF c, p, r, U
<1>5. Total(p) \in Nat /\ Total(Append(p, c)) = Total(p) + Len(c)
  BY <1>2, <1>4, TotalAppend DEF U
<1>6. CASE c = <<>>
  BY <1>1, <1>3, <1>5, <1>6 DEF p, r
<1>7. CASE c # <<>>
  <2>1. Append(p, c) \in Seq(U \ {<<>>})
    BY <1>1, <1>2, <1>7, AppendProperties
  <2>2. CapStep(s, ph) = [phs |-> Append(p, c), room |-> r - Len(c)]
    BY <1>3, <1>7
  <2>3. CapStep(s, ph).phs = Append(p, c) /\ CapStep(s, ph).room = r - Len(c) /\ r - Len(c) \in Nat
    BY <1>1, <1>2, <2>2
  <2>4. CapStep(s, ph) \in CapState(T)
    BY <2>1, <2>2, <2>3 DEF CapState, U
  <2>5. Total(CapStep(s, ph).phs) = Total(p) + Len(c)
    BY <1>5, <2>3
  <2> QED BY <1>1, <1>2, <1>5, <2>3, <2>4, <2>5 DEF p, r
<1> QED BY <1>6, <1>7

\* CapAll is the end of a run over the groups.
LEMMA CapRun ==
    ASSUME NEW T, NEW all \in Seq(Seq(T)), NEW n \in Nat
    PROVE  \E f \in [0 .. Len(all) -> CapState(T)] :
              /\ f[0] = [phs |-> <<>>, room |-> n]
              /\ \A k \in 1 .. Len(all) : f[k] = CapStep(f[k - 1], all[k])
              /\ CapAll(all, n) = f[Len(all)].phs
<1> DEFINE l == Len(all)
           S == CapState(T)
           z == [phs |-> <<>>, room |-> n]
           Solves(f) == f = [k \in 0 .. l |-> IF k = 0 THEN z ELSE CapStep(f[k - 1], all[k])]
           kept == CHOOSE f : Solves(f)
<1>1. CapAll(all, n) = kept[l].phs
  BY DEF CapAll, CapStep, Cut
<1>2. l \in Nat /\ \A k \in 1 .. l : all[k] \in Seq(T)
  BY LenProperties, ElementOfSeq
<1>3. z \in S
  <2>1. <<>> \in Seq(Seq(T \ {Dash}) \ {<<>>})
    BY EmptySeq
  <2> QED BY <2>1 DEF CapState
<1>4. \A k \in 1 .. l, s \in S : CapStep(s, all[k]) \in S
  BY <1>2, CapStepTyped
<1> DEFINE G == [k \in 1 .. l |-> [s \in S |-> CapStep(s, all[k])]]
<1> HIDE DEF S, z
<1>5. \A k \in 1 .. l, s \in S : G[k][s] \in S
  BY <1>4
<1>6. PICK f \in [0 .. l -> S] : f[0] = z /\ \A k \in 1 .. l : f[k] = G[k][f[k - 1]]
  <2>1. Closed(l, S, G)
    BY <1>5 DEF Closed
  <2> HIDE DEF G, l
  <2>2. HasRun(l, S, z, G)
    BY <1>2, <1>3, <2>1, Recursion
  <2> QED BY <2>2 DEF HasRun, Runs
<1>7. ASSUME NEW k \in 1 .. l  PROVE f[k] = CapStep(f[k - 1], all[k])
  <2>1. k - 1 \in 0 .. l
    BY <1>2
  <2>2. f[k - 1] \in S
    BY <2>1
  <2>3. G[k][f[k - 1]] = CapStep(f[k - 1], all[k])
    BY <2>2
  <2> HIDE DEF G
  <2> QED BY <1>6, <2>3
<1>8. Solves(f)
  <2>1. f = [k \in 0 .. l |-> f[k]]
    OBVIOUS
  <2>2. ASSUME NEW k \in 0 .. l
        PROVE  f[k] = IF k = 0 THEN z ELSE CapStep(f[k - 1], all[k])
    <3>1. k = 0 \/ k \in 1 .. l
      BY <1>2
    <3> HIDE DEF l
    <3> QED BY <1>6, <1>7, <3>1
  <2> QED BY <2>1, <2>2
<1>9. Solves(kept)
  <2> HIDE DEF Solves
  <2> QED BY <1>8
<1> HIDE DEF kept
<1>10. kept[0] = z /\ \A k \in 1 .. l : kept[k] = CapStep(kept[k - 1], all[k])
  <2>1. 0 \in 0 .. l /\ \A k \in 1 .. l : k \in 0 .. l /\ k # 0
    BY <1>2
  <2> QED BY <1>9, <2>1
<1>11. kept \in [0 .. l -> S]
  <2> DEFINE P == {k \in 0 .. l : kept[k] \in S}
  <2>1. 0 \in P
    BY <1>2, <1>3, <1>10
  <2>2. ASSUME NEW k \in 0 .. l - 1, k \in P  PROVE k + 1 \in P
    <3>1. k + 1 \in 1 .. l /\ k + 1 \in 0 .. l /\ (k + 1) - 1 = k /\ kept[k] \in S
      BY <1>2, <2>2
    <3>2. kept[k + 1] = CapStep(kept[k], all[k + 1])
      BY <1>10, <3>1
    <3> QED BY <1>4, <3>1, <3>2
  <2>3. \A k \in 0 .. l : kept[k] \in S
    <3> HIDE DEF P
    <3>1. \A k \in 0 .. l : k \in P
      BY <1>2, <2>1, <2>2, UpTo
    <3> QED BY <3>1 DEF P
  <2>4. kept = [k \in 0 .. l |-> kept[k]]
    BY <1>9
  <2> QED BY <2>3, <2>4
<1> QED BY <1>1, <1>10, <1>11 DEF S, z


\* All phases together keep no more than n tasks, none of them a list mark.
LEMMA CapFacts ==
    ASSUME NEW T, NEW all \in Seq(Seq(T)), NEW n \in Nat
    PROVE  /\ CapAll(all, n) \in Seq(Seq(T \ {Dash}) \ {<<>>})
           /\ Total(CapAll(all, n)) \in Nat /\ Total(CapAll(all, n)) <= n
<1> DEFINE l == Len(all)
<1>1. l \in Nat /\ \A k \in 1 .. l : all[k] \in Seq(T)
  BY LenProperties, ElementOfSeq
<1>2. PICK f \in [0 .. l -> CapState(T)] :
         /\ f[0] = [phs |-> <<>>, room |-> n]
         /\ \A k \in 1 .. l : f[k] = CapStep(f[k - 1], all[k])
         /\ CapAll(all, n) = f[l].phs
  BY CapRun
<1> HIDE DEF l
<1> DEFINE P == {k \in 0 .. l : Total(f[k].phs) \in Nat /\ Total(f[k].phs) + f[k].room = n}
<1>3. 0 \in P
  <2>1. f[0].phs = <<>> /\ f[0].room = n
    BY <1>2
  <2>2. Total(f[0].phs) = 0
    BY <2>1, TotalEmpty
  <2> QED BY <1>1, <2>1, <2>2
<1>4. ASSUME NEW k \in 0 .. l - 1, k \in P  PROVE k + 1 \in P
  <2> DEFINE s == f[k]
             t == f[k + 1]
  <2>1. k \in 0 .. l /\ k + 1 \in 0 .. l /\ k + 1 \in 1 .. l /\ (k + 1) - 1 = k
    BY <1>1
  <2>2. s \in CapState(T) /\ t = CapStep(s, all[k + 1]) /\ all[k + 1] \in Seq(T)
    BY <1>1, <1>2, <2>1
  <2>3. Total(s.phs) + s.room = n
    BY <1>4
  <2> HIDE DEF s, t, P
  <2>4. Total(t.phs) \in Nat /\ Total(t.phs) + t.room = n
    BY <2>2, <2>3, CapStepTyped
  <2> QED BY <2>1, <2>4 DEF P, t
<1>5. l \in P
  <2> HIDE DEF P
  <2>1. \A k \in 0 .. l : k \in P
    BY <1>1, <1>3, <1>4, UpTo
  <2> QED BY <1>1, <2>1
<1>6. f[l] \in CapState(T)
  BY <1>1, <1>2
<1>7. f[l].phs \in Seq(Seq(T \ {Dash}) \ {<<>>}) /\ f[l].room \in Nat
  BY <1>6 DEF CapState
<1>8. Total(f[l].phs) \in Nat /\ Total(f[l].phs) <= n
  BY <1>5, <1>7
<1> QED BY <1>2, <1>7, <1>8

\* One line more of a plan.
GroupState(T) == [all : Seq(Seq(T) \ {<<>>}), cur : Seq(T)]
Ended(g) == IF g.cur = <<>> THEN g.all ELSE Append(g.all, g.cur)
GroupStep(g, ln) ==
    IF ln = Fase THEN [all |-> Ended(g), cur |-> <<>>] ELSE [g EXCEPT !.cur = Append(@, ln)]

LEMMA EndedTyped == ASSUME NEW T, NEW g \in GroupState(T)  PROVE Ended(g) \in Seq(Seq(T) \ {<<>>})
<1> DEFINE U == Seq(T) \ {<<>>}
<1>1. g.all \in Seq(U) /\ g.cur \in Seq(T)
  BY DEF GroupState
<1>2. g.cur # <<>> => g.cur \in U
  BY <1>1
<1> HIDE DEF U
<1>3. g.cur # <<>> => Append(g.all, g.cur) \in Seq(U)
  BY <1>1, <1>2, AppendProperties
<1>4. Ended(g) \in Seq(U)
  BY <1>1, <1>3 DEF Ended
<1> QED BY <1>4 DEF U

LEMMA GroupStepTyped ==
    ASSUME NEW T, NEW g \in GroupState(T), NEW ln \in T
    PROVE  GroupStep(g, ln) \in GroupState(T)
<1> DEFINE A == Seq(Seq(T) \ {<<>>})
           C == Seq(T)
<1>1. g \in [all : A, cur : C] /\ GroupState(T) = [all : A, cur : C]
  BY DEF GroupState
<1>2. Append(g.cur, ln) \in C /\ <<>> \in C
  BY <1>1, AppendProperties, EmptySeq
<1>3. Ended(g) \in A
  BY EndedTyped
<1> HIDE DEF A, C
<1>4. [all |-> Ended(g), cur |-> <<>>] \in [all : A, cur : C]
  BY <1>2, <1>3
<1>5. [g EXCEPT !.cur = Append(@, ln)] \in [all : A, cur : C]
  BY <1>1, <1>2
<1> QED BY <1>1, <1>4, <1>5 DEF GroupStep

\* Groups is the end of a run over the lines of the plan.
LEMMA GroupsRun ==
    ASSUME NEW T, NEW plan \in Seq(T)
    PROVE  \E f \in [0 .. Len(plan) -> GroupState(T)] :
              /\ f[0] = [all |-> <<>>, cur |-> <<>>]
              /\ \A k \in 1 .. Len(plan) : f[k] = GroupStep(f[k - 1], plan[k])
              /\ Groups(plan) = IF Ended(f[Len(plan)]) = <<>> THEN <<plan>> ELSE Ended(f[Len(plan)])
<1> DEFINE l == Len(plan)
           S == GroupState(T)
           z == [all |-> <<>>, cur |-> <<>>]
           Solves(f) == f = [k \in 0 .. l |-> IF k = 0 THEN z ELSE GroupStep(f[k - 1], plan[k])]
           cut == CHOOSE f : Solves(f)
<1>1. Groups(plan) = IF Ended(cut[l]) = <<>> THEN <<plan>> ELSE Ended(cut[l])
  BY DEF Groups, GroupStep, Ended
<1>2. l \in Nat /\ \A k \in 1 .. l : plan[k] \in T
  BY LenProperties, ElementOfSeq
<1>3. z \in S
  <2>1. <<>> \in Seq(Seq(T) \ {<<>>}) /\ <<>> \in Seq(T)
    BY EmptySeq
  <2> QED BY <2>1 DEF GroupState
<1>4. \A k \in 1 .. l, s \in S : GroupStep(s, plan[k]) \in S
  BY <1>2, GroupStepTyped
<1> DEFINE G == [k \in 1 .. l |-> [s \in S |-> GroupStep(s, plan[k])]]
<1> HIDE DEF S, z
<1>5. \A k \in 1 .. l, s \in S : G[k][s] \in S
  BY <1>4
<1>6. PICK f \in [0 .. l -> S] : f[0] = z /\ \A k \in 1 .. l : f[k] = G[k][f[k - 1]]
  <2>1. Closed(l, S, G)
    BY <1>5 DEF Closed
  <2> HIDE DEF G, l
  <2>2. HasRun(l, S, z, G)
    BY <1>2, <1>3, <2>1, Recursion
  <2> QED BY <2>2 DEF HasRun, Runs
<1>7. ASSUME NEW k \in 1 .. l  PROVE f[k] = GroupStep(f[k - 1], plan[k])
  <2>1. k - 1 \in 0 .. l
    BY <1>2
  <2>2. f[k - 1] \in S
    BY <2>1
  <2>3. G[k][f[k - 1]] = GroupStep(f[k - 1], plan[k])
    BY <2>2
  <2> HIDE DEF G
  <2> QED BY <1>6, <2>3
<1>8. Solves(f)
  <2>1. f = [k \in 0 .. l |-> f[k]]
    OBVIOUS
  <2>2. ASSUME NEW k \in 0 .. l
        PROVE  f[k] = IF k = 0 THEN z ELSE GroupStep(f[k - 1], plan[k])
    <3>1. k = 0 \/ k \in 1 .. l
      BY <1>2
    <3> HIDE DEF l
    <3> QED BY <1>6, <1>7, <3>1
  <2> QED BY <2>1, <2>2
<1>9. Solves(cut)
  <2> HIDE DEF Solves
  <2> QED BY <1>8
<1> HIDE DEF cut
<1>10. cut[0] = z /\ \A k \in 1 .. l : cut[k] = GroupStep(cut[k - 1], plan[k])
  <2>1. 0 \in 0 .. l /\ \A k \in 1 .. l : k \in 0 .. l /\ k # 0
    BY <1>2
  <2> QED BY <1>9, <2>1
<1>11. cut \in [0 .. l -> S]
  <2> DEFINE P == {k \in 0 .. l : cut[k] \in S}
  <2>1. 0 \in P
    BY <1>2, <1>3, <1>10
  <2>2. ASSUME NEW k \in 0 .. l - 1, k \in P  PROVE k + 1 \in P
    <3>1. k + 1 \in 1 .. l /\ k + 1 \in 0 .. l /\ (k + 1) - 1 = k /\ cut[k] \in S
      BY <1>2, <2>2
    <3>2. cut[k + 1] = GroupStep(cut[k], plan[k + 1])
      BY <1>10, <3>1
    <3> QED BY <1>4, <3>1, <3>2
  <2>3. \A k \in 0 .. l : cut[k] \in S
    <3> HIDE DEF P
    <3>1. \A k \in 0 .. l : k \in P
      BY <1>2, <2>1, <2>2, UpTo
    <3> QED BY <3>1 DEF P
  <2>4. cut = [k \in 0 .. l |-> cut[k]]
    BY <1>9
  <2> QED BY <2>3, <2>4
<1> QED BY <1>1, <1>10, <1>11 DEF S, z

LEMMA GroupsFacts ==
    ASSUME NEW T, NEW plan \in Seq(T)
    PROVE  Groups(plan) \in Seq(Seq(T))
<1> DEFINE l == Len(plan)
           U == Seq(T)
<1>1. l \in Nat
  BY LenProperties
<1>2. PICK f \in [0 .. l -> GroupState(T)] :
         Groups(plan) = IF Ended(f[l]) = <<>> THEN <<plan>> ELSE Ended(f[l])
  BY GroupsRun
<1>3. Ended(f[l]) \in Seq(U \ {<<>>})
  BY <1>1, EndedTyped
<1>4. Ended(f[l]) \in Seq(U)
  BY <1>3, SeqMonotonic
<1>5. <<plan>> \in Seq(U)
  OBVIOUS
<1> QED BY <1>2, <1>4, <1>5

\* The plan becomes phases of one task or more, none a list mark, no more than n in all.
LEMMA ParseFacts ==
    ASSUME NEW plan \in Seq(Symbols), NEW n \in Nat \ {0}
    PROVE  /\ ParsePhases(plan, n) \in Seq(Seq(Tasks) \ {<<>>})
           /\ ParsePhases(plan, n) # <<>>
           /\ Total(ParsePhases(plan, n)) \in Nat /\ Total(ParsePhases(plan, n)) <= n
<1> DEFINE phs == CapAll(Groups(plan), n)
           U == Seq(Tasks) \ {<<>>}
<1>1. /\ phs \in Seq(Seq(Symbols \ {Dash}) \ {<<>>})
      /\ Total(phs) \in Nat /\ Total(phs) <= n
  BY GroupsFacts, CapFacts
<1>2. ParsePhases(plan, n) = IF phs = <<>> THEN <<<<Goal>>>> ELSE phs
  BY DEF ParsePhases
<1> HIDE DEF phs
<1>3. phs \in Seq(U)
  <2>1. \A s \in Seq(Symbols \ {Dash}) : s \in Seq(Tasks)
    <3>1. Symbols \ {Dash} \subseteq Tasks
      BY DEF Tasks
    <3> QED BY <3>1, SeqMonotonic
  <2>2. Seq(Symbols \ {Dash}) \ {<<>>} \subseteq U
    BY <2>1
  <2> HIDE DEF U
  <2> QED BY <1>1, <2>2, SeqMonotonic
<1> DEFINE one == <<Goal>>
           g == <<one>>
<1>4. one \in Seq(Tasks) /\ Len(one) = 1 /\ one # <<>>
  <2>1. Goal \in Tasks
    BY OrchestrateConstants DEF Tasks
  <2> QED BY <2>1
<1> HIDE DEF one
<1>5. g \in Seq(U) /\ g # <<>> /\ g = Append(<<>>, one)
  BY <1>4
<1>6. Total(g) = 1
  <2> DEFINE e == <<>>
  <2>1. e \in Seq(Seq(Tasks)) /\ Total(e) = 0 /\ g = Append(e, one)
    BY <1>5, EmptySeq, TotalEmpty
  <2> HIDE DEF e, g
  <2>2. Total(g) = Total(e) + Len(one)
    BY <1>4, <2>1, TotalAppend
  <2> QED BY <1>4, <2>1, <2>2
<1> HIDE DEF g
<1>7. ParsePhases(plan, n) = IF phs = <<>> THEN g ELSE phs
  BY <1>2 DEF g, one
<1> HIDE DEF U
<1>8. CASE phs = <<>>
  BY <1>5, <1>6, <1>7, <1>8 DEF U
<1>9. CASE phs # <<>>
  BY <1>1, <1>3, <1>7, <1>9 DEF U
<1> QED BY <1>8, <1>9

-----------------------------------------------------------------------------
\* The phases of a plan, line by line.

\* c has, in their order, lines of the first m of ph, none of them a list mark.
Taken(c, ph, m, e) ==
    /\ e \in [1 .. Len(c) -> 1 .. m]
    /\ \A j \in 1 .. Len(c) : c[j] = ph[e[j]] /\ c[j] # Dash
    /\ \A i, j \in 1 .. Len(c) : i < j => e[i] < e[j]
    /\ NoDash(ph) => \A j \in 1 .. Len(c) : e[j] = j

\* The tasks of a phase are lines of it, in their order.
LEMMA SaidPlaced ==
    ASSUME NEW T, NEW ph \in Seq(T)
    PROVE  /\ \E e : Taken(Said(ph), ph, Len(ph), e)
           /\ NoDash(ph) => Len(Said(ph)) = Len(ph)
<1> DEFINE n == Len(ph)
           S == Seq(T \ {Dash})
<1>1. n \in Nat /\ DOMAIN ph = 1 .. n /\ \A k \in 1 .. n : ph[k] \in T
  BY LenProperties, ElementOfSeq
<1>2. PICK f \in [0 .. n -> S] :
         /\ f[0] = <<>> /\ \A k \in 1 .. n : f[k] = SaidStep(f[k - 1], ph[k])
         /\ Said(ph) = f[n]
  BY SaidRun
<1> DEFINE P == {k \in 0 .. n : (\E e : Taken(f[k], ph, k, e)) /\ (NoDash(ph) => Len(f[k]) = k)}
<1> HIDE DEF n
<1>3. 0 \in P
  <2> DEFINE c == f[0]
             e == [j \in 1 .. Len(c) |-> j]
  <2>1. Len(c) = 0
    BY <1>2, EmptySeq
  <2> HIDE DEF c
  <2>2. Taken(c, ph, 0, e)
    BY <2>1 DEF Taken
  <2> QED BY <1>1, <2>1, <2>2 DEF c
<1>4. ASSUME NEW k \in 0 .. n - 1, k \in P  PROVE k + 1 \in P
  <2> DEFINE c == f[k]
             d == f[k + 1]
             m == Len(c)
             x == ph[k + 1]
  <2>1. k \in Nat /\ k + 1 \in 1 .. n /\ k \in 0 .. n /\ k + 1 \in 0 .. n /\ (k + 1) - 1 = k
    BY <1>1
  <2>2. d = SaidStep(c, x)
    BY <1>2, <2>1
  <2>3. c \in S /\ m \in Nat /\ x \in T
    BY <1>1, <2>1, LenProperties
  <2>4. PICK e : Taken(c, ph, k, e)
    BY <1>4
  <2>5. NoDash(ph) => m = k /\ x # Dash
    BY <1>1, <1>4, <2>1 DEF NoDash
  <2> HIDE DEF c, d, m, x, P
  <2>6. (\E g : Taken(d, ph, k + 1, g)) /\ (NoDash(ph) => Len(d) = k + 1)
    <3>1. CASE x = Dash
      <4>1. d = c
        BY <2>2, <3>1 DEF SaidStep
      <4>2. e \in [1 .. m -> 1 .. k + 1]
        BY <2>1, <2>4 DEF Taken, m
      <4>3. Taken(d, ph, k + 1, e)
        BY <2>4, <4>1, <4>2 DEF Taken, m
      <4> QED BY <2>5, <3>1, <4>3
    <3>2. CASE x # Dash
      <4>1. d = Append(c, x) /\ x \in T \ {Dash}
        BY <2>2, <2>3, <3>2 DEF SaidStep
      <4>2. Len(d) = m + 1 /\ d[m + 1] = x /\ \A j \in 1 .. m : d[j] = c[j]
        BY <2>3, <4>1, AppendProperties DEF m
      <4> DEFINE g == [j \in 1 .. m + 1 |-> IF j = m + 1 THEN k + 1 ELSE e[j]]
      <4>3. /\ \A j \in 1 .. m : e[j] \in 1 .. k /\ c[j] = ph[e[j]] /\ c[j] # Dash
            /\ \A i, j \in 1 .. m : i < j => e[i] < e[j]
            /\ NoDash(ph) => \A j \in 1 .. m : e[j] = j
        BY <2>4 DEF Taken, m
      <4>4. \A j \in 1 .. m : j \in 1 .. m + 1 /\ j # m + 1
        BY <2>3
      <4>5. \A j \in 1 .. m : g[j] = e[j]
        BY <4>4
      <4>6. g[m + 1] = k + 1
        BY <2>3
      <4>7. g \in [1 .. m + 1 -> 1 .. k + 1]
        <5>1. \A j \in 1 .. m + 1 : (IF j = m + 1 THEN k + 1 ELSE e[j]) \in 1 .. k + 1
          <6> SUFFICES ASSUME NEW j \in 1 .. m + 1, j # m + 1  PROVE e[j] \in 1 .. k + 1
            BY <2>1
          <6>1. j \in 1 .. m
            BY <2>3
          <6>2. e[j] \in 1 .. k
            BY <4>3, <6>1
          <6> QED BY <2>1, <6>2
        <5> QED BY <5>1
      <4> HIDE DEF g
      <4>8. \A j \in 1 .. m + 1 : j \in 1 .. m \/ j = m + 1
        BY <2>3
      <4>9. \A j \in 1 .. m + 1 : d[j] = ph[g[j]] /\ d[j] # Dash
        BY <3>2, <4>2, <4>3, <4>5, <4>6, <4>8 DEF x
      <4>10. \A i, j \in 1 .. m + 1 : i < j => g[i] < g[j]
        <5> SUFFICES ASSUME NEW i \in 1 .. m + 1, NEW j \in 1 .. m + 1, i < j  PROVE g[i] < g[j]
          OBVIOUS
        <5>1. i \in 1 .. m
          BY <2>3
        <5>2. CASE j = m + 1
          <6>1. e[i] \in 1 .. k
            BY <4>3, <5>1
          <6> QED BY <2>1, <4>5, <4>6, <5>1, <5>2, <6>1
        <5>3. CASE j # m + 1
          BY <4>3, <4>5, <4>8, <5>1, <5>3
        <5> QED BY <5>2, <5>3
      <4>11. NoDash(ph) => Len(d) = k + 1 /\ \A j \in 1 .. m + 1 : g[j] = j
        BY <2>5, <4>2, <4>3, <4>5, <4>6, <4>8
      <4>12. Taken(d, ph, k + 1, g)
        BY <4>2, <4>7, <4>9, <4>10, <4>11 DEF Taken
      <4> QED BY <4>11, <4>12
    <3> QED BY <3>1, <3>2
  <2> QED BY <2>1, <2>6 DEF d, P
<1>5. n \in P
  <2> HIDE DEF P
  <2>1. \A k \in 0 .. n : k \in P
    BY <1>1, <1>3, <1>4, UpTo
  <2> QED BY <1>1, <2>1
<1> QED BY <1>2, <1>5 DEF n

\* The same of the lines there is room for.
LEMMA CutPlaced ==
    ASSUME NEW T, NEW ph \in Seq(T), NEW r \in Nat
    PROVE  /\ \E e : Taken(Cut(ph, r), ph, Len(ph), e)
           /\ NoDash(ph) => Len(Cut(ph, r)) = IF Len(ph) <= r THEN Len(ph) ELSE r
<1> DEFINE F == {Len(ph), r}
           m == IF Len(ph) <= r THEN Len(ph) ELSE r
           top == SubSeq(ph, 1, m)
<1>1. Len(ph) \in Nat /\ DOMAIN ph = 1 .. Len(ph)
  BY LenProperties
<1>2. m \in F /\ F \in SUBSET Int /\ \A x \in F : m <= x
  BY <1>1
<1>3. m \in 0 .. Len(ph) /\ m \in Nat
  BY <1>1
<1>4. (NoDash(ph) => m = IF Len(ph) <= r THEN Len(ph) ELSE r)
  OBVIOUS
<1> HIDE DEF F, m
<1>5. Min(F) = m
  BY <1>2, MinIs
<1>6. Cut(ph, r) = Said(top)
  BY <1>5 DEF Cut, F
<1>7. top \in Seq(T) /\ Len(top) = m /\ \A j \in 1 .. m : top[j] = ph[j]
  <2>1. 1 \in 1 .. Len(ph) + 1 /\ 1 <= m + 1 /\ m - 1 + 1 = m
    BY <1>1, <1>3
  <2>2. /\ SubSeq(ph, 1, m) \in Seq(T) /\ Len(SubSeq(ph, 1, m)) = m - 1 + 1
        /\ \A j \in 1 .. m - 1 + 1 : SubSeq(ph, 1, m)[j] = ph[1 + j - 1]
    BY <1>3, <2>1, SliceFacts
  <2>3. \A j \in 1 .. m : 1 + j - 1 = j
    OBVIOUS
  <2> QED BY <2>1, <2>2, <2>3
<1> HIDE DEF top
<1> DEFINE c == Said(top)
<1>8. PICK e : Taken(c, top, m, e)
  BY <1>7, SaidPlaced
<1>9. NoDash(ph) => NoDash(top)
  <2>1. DOMAIN top = 1 .. m /\ \A j \in 1 .. m : j \in 1 .. Len(ph)
    BY <1>1, <1>3, <1>7, LenProperties
  <2> QED BY <1>1, <1>7, <2>1 DEF NoDash
<1>10. NoDash(ph) => Len(c) = m
  BY <1>7, <1>9, SaidPlaced
<1> HIDE DEF c
<1>11. e \in [1 .. Len(c) -> 1 .. Len(ph)]
  <2>1. \A j \in 1 .. m : j \in 1 .. Len(ph)
    BY <1>1, <1>3
  <2> QED BY <1>8, <2>1 DEF Taken
<1>12. Taken(c, ph, Len(ph), e)
  <2>1. \A j \in 1 .. Len(c) : e[j] \in 1 .. m
    BY <1>8 DEF Taken
  <2> QED BY <1>7, <1>8, <1>9, <1>11, <2>1 DEF Taken
<1> QED BY <1>4, <1>6, <1>10, <1>12 DEF c, m

\* The phases are the groups, cut; without list marks they are the first groups,
\* whole but for the last, and what is left out did not fit.
CutFrom(phs, all, n, g) ==
    /\ g \in [1 .. Len(phs) -> 1 .. Len(all)]
    /\ \A p, q \in 1 .. Len(phs) : p < q => g[p] < g[q]
    /\ \A p \in 1 .. Len(phs) : \E e : Taken(phs[p], all[g[p]], Len(all[g[p]]), e)
    /\ (\A k \in 1 .. Len(all) : NoDash(all[k])) =>
          /\ Len(phs) = Len(all) \/ Total(phs) = n
          /\ \A p \in 1 .. Len(phs) :
                /\ g[p] = p
                /\ Len(phs[p]) = Len(all[p]) \/ (p = Len(phs) /\ Total(phs) = n)

\* Each phase of CapAll is the cut of a group of its own, the groups in their order.
LEMMA CapPlaced ==
    ASSUME NEW T, NEW all \in Seq(Seq(T) \ {<<>>}), NEW n \in Nat
    PROVE  \E g : CutFrom(CapAll(all, n), all, n, g)
<1> DEFINE phs == CapAll(all, n)
           l == Len(all)
           Clean == \A k \in 1 .. l : NoDash(all[k])
           At(s, k, g) ==
             /\ g \in [1 .. Len(s.phs) -> 1 .. k]
             /\ \A p, q \in 1 .. Len(s.phs) : p < q => g[p] < g[q]
             /\ \A p \in 1 .. Len(s.phs) : \E e : Taken(s.phs[p], all[g[p]], Len(all[g[p]]), e)
             /\ Clean =>
                  /\ Len(s.phs) = k \/ s.room = 0
                  /\ \A p \in 1 .. Len(s.phs) :
                        /\ g[p] = p
                        /\ Len(s.phs[p]) = Len(all[p]) \/ (p = Len(s.phs) /\ s.room = 0)
           U == Seq(T \ {Dash})
<1>1. /\ l \in Nat /\ all \in Seq(Seq(T))
      /\ \A k \in 1 .. l : all[k] \in Seq(T) /\ all[k] # <<>> /\ Len(all[k]) \in Nat \ {0}
  <2>1. l \in Nat /\ \A k \in 1 .. l : all[k] \in Seq(T) \ {<<>>}
    BY LenProperties, ElementOfSeq
  <2>2. all \in Seq(Seq(T))
    BY SeqMonotonic
  <2>3. \A k \in 1 .. l : Len(all[k]) \in Nat \ {0}
    BY <2>1, LenProperties, EmptySeq
  <2> QED BY <2>1, <2>2, <2>3
<1>2. PICK f \in [0 .. l -> CapState(T)] :
         /\ f[0] = [phs |-> <<>>, room |-> n]
         /\ \A k \in 1 .. l : f[k] = CapStep(f[k - 1], all[k])
         /\ phs = f[l].phs
  BY <1>1, CapRun
<1> HIDE DEF phs
<1>3. ASSUME NEW k \in 0 .. l
      PROVE  /\ f[k].phs \in Seq(U \ {<<>>}) /\ f[k].room \in Nat
             /\ Len(f[k].phs) \in Nat
  <2>1. f[k] \in CapState(T)
    OBVIOUS
  <2>2. f[k].phs \in Seq(U \ {<<>>}) /\ f[k].room \in Nat
    BY <2>1 DEF CapState
  <2> QED BY <2>2, LenProperties
<1> HIDE DEF l, Clean
<1> DEFINE P == {k \in 0 .. l : (\E g : At(f[k], k, g)) /\ Total(f[k].phs) \in Nat
                                 /\ Total(f[k].phs) + f[k].room = n}
<1>4. 0 \in P
  <2> DEFINE s == f[0]
             g == [p \in 1 .. Len(s.phs) |-> 0]
  <2>1. s.phs = <<>> /\ s.room = n
    BY <1>2
  <2>2. Len(s.phs) = 0 /\ Total(s.phs) = 0
    BY <2>1, EmptySeq, TotalEmpty
  <2> HIDE DEF s
  <2>3. At(s, 0, g)
    BY <2>2
  <2>4. Total(s.phs) \in Nat /\ Total(s.phs) + s.room = n
    BY <2>1, <2>2
  <2> HIDE DEF g, At
  <2> QED BY <1>1, <2>3, <2>4 DEF s
<1>5. ASSUME NEW k \in 0 .. l - 1, k \in P  PROVE k + 1 \in P
  <2> DEFINE s == f[k]
             t == f[k + 1]
             a == all[k + 1]
             m == Len(s.phs)
             c == Cut(a, s.room)
  <2>1. k \in Nat /\ k + 1 \in 1 .. l /\ k \in 0 .. l /\ k + 1 \in 0 .. l /\ (k + 1) - 1 = k
    BY <1>1
  <2>2. t = CapStep(s, a) /\ s \in CapState(T)
    BY <1>2, <2>1
  <2>3. /\ a \in Seq(T) /\ Len(a) \in Nat \ {0} /\ s.room \in Nat /\ m \in Nat
        /\ s.phs \in Seq(U \ {<<>>})
    BY <1>1, <1>3, <2>1
  <2>4. PICK g : At(s, k, g)
    BY <1>5
  <2>5. Total(s.phs) \in Nat /\ Total(s.phs) + s.room = n
    BY <1>5
  <2> HIDE DEF s, t, a, m, At, P
  <2>6. Total(t.phs) \in Nat /\ Total(t.phs) + t.room = n
    BY <2>2, <2>3, <2>5, CapStepTyped
  <2>7. c \in U /\ Len(c) \in Nat /\ Len(c) <= s.room
    BY <2>3, CutFacts
  <2>8. PICK e : Taken(c, a, Len(a), e)
    BY <2>3, CutPlaced
  <2>9. Clean => NoDash(a) /\ Len(c) = IF Len(a) <= s.room THEN Len(a) ELSE s.room
    BY <2>1, <2>3, CutPlaced DEF Clean, a
  <2>10. c = <<>> <=> Len(c) = 0
    BY <2>7, EmptySeq
  <2>11. t = IF c = <<>> THEN s ELSE [phs |-> Append(s.phs, c), room |-> s.room - Len(c)]
    BY <2>2 DEF CapStep
  <2> HIDE DEF c
  <2>12. /\ g \in [1 .. m -> 1 .. k]
         /\ \A p, q \in 1 .. m : p < q => g[p] < g[q]
         /\ \A p \in 1 .. m : \E d : Taken(s.phs[p], all[g[p]], Len(all[g[p]]), d)
         /\ Clean =>
              /\ m = k \/ s.room = 0
              /\ \A p \in 1 .. m :
                    /\ g[p] = p
                    /\ Len(s.phs[p]) = Len(all[p]) \/ (p = m /\ s.room = 0)
    BY <2>4 DEF At, m
  <2>13. \E h : At(t, k + 1, h)
    <3>1. CASE c = <<>>
      <4>1. t = s
        BY <2>11, <3>1
      <4>2. g \in [1 .. m -> 1 .. k + 1]
        BY <2>1, <2>12
      <4>3. Clean => s.room = 0
        BY <2>3, <2>9, <2>10, <3>1
      <4>4. At(s, k + 1, g)
        BY <2>12, <4>2, <4>3 DEF At, m
      <4> QED BY <4>1, <4>4
    <3>2. CASE c # <<>>
      <4>1. t.phs = Append(s.phs, c) /\ t.room = s.room - Len(c) /\ c \in U \ {<<>>}
        BY <2>7, <2>11, <3>2
      <4>2. Len(t.phs) = m + 1 /\ t.phs[m + 1] = c /\ \A p \in 1 .. m : t.phs[p] = s.phs[p]
        BY <2>3, <4>1, AppendProperties DEF m
      <4>3. Len(c) # 0 /\ s.room # 0 /\ t.room \in Nat
        BY <2>3, <2>7, <2>10, <3>2, <4>1
      <4> DEFINE h == [p \in 1 .. m + 1 |-> IF p = m + 1 THEN k + 1 ELSE g[p]]
      <4>4. \A p \in 1 .. m : p \in 1 .. m + 1 /\ p # m + 1
        BY <2>3
      <4>5. \A p \in 1 .. m : h[p] = g[p]
        BY <4>4
      <4>6. h[m + 1] = k + 1
        BY <2>3
      <4>7. h \in [1 .. m + 1 -> 1 .. k + 1]
        <5>1. \A p \in 1 .. m + 1 : (IF p = m + 1 THEN k + 1 ELSE g[p]) \in 1 .. k + 1
          <6> SUFFICES ASSUME NEW p \in 1 .. m + 1, p # m + 1  PROVE g[p] \in 1 .. k + 1
            BY <2>1
          <6>1. p \in 1 .. m
            BY <2>3
          <6>2. g[p] \in 1 .. k
            BY <2>12, <6>1
          <6> QED BY <2>1, <6>2
        <5> QED BY <5>1
      <4> HIDE DEF h
      <4>8. \A p \in 1 .. m + 1 : p \in 1 .. m \/ p = m + 1
        BY <2>3
      <4>9. \A p, q \in 1 .. m + 1 : p < q => h[p] < h[q]
        <5> SUFFICES ASSUME NEW p \in 1 .. m + 1, NEW q \in 1 .. m + 1, p < q  PROVE h[p] < h[q]
          OBVIOUS
        <5>1. p \in 1 .. m
          BY <2>3
        <5>2. CASE q = m + 1
          <6>1. g[p] \in 1 .. k
            BY <2>12, <5>1
          <6> QED BY <2>1, <4>5, <4>6, <5>1, <5>2, <6>1
        <5>3. CASE q # m + 1
          BY <2>12, <4>5, <4>8, <5>1, <5>3
        <5> QED BY <5>2, <5>3
      <4>10. \A p \in 1 .. m + 1 : \E d : Taken(t.phs[p], all[h[p]], Len(all[h[p]]), d)
        <5> SUFFICES ASSUME NEW p \in 1 .. m + 1
                     PROVE  \E d : Taken(t.phs[p], all[h[p]], Len(all[h[p]]), d)
          OBVIOUS
        <5>1. CASE p = m + 1
          BY <2>8, <4>2, <4>6, <5>1 DEF a
        <5>2. CASE p \in 1 .. m
          BY <2>12, <4>2, <4>5, <5>2
        <5> QED BY <4>8, <5>1, <5>2
      <4>11. ASSUME Clean
             PROVE  /\ m + 1 = k + 1 \/ t.room = 0
                    /\ \A p \in 1 .. m + 1 :
                          /\ h[p] = p
                          /\ Len(t.phs[p]) = Len(all[p]) \/ (p = m + 1 /\ t.room = 0)
        <5>1. m = k
          BY <2>12, <4>3, <4>11
        <5>2. \A p \in 1 .. m : g[p] = p /\ Len(s.phs[p]) = Len(all[p])
          BY <2>12, <4>3, <4>11
        <5>3. Len(c) = Len(a) \/ t.room = 0
          BY <2>3, <2>9, <4>1, <4>11
        <5>4. h[m + 1] = m + 1 /\ (Len(t.phs[m + 1]) = Len(all[m + 1]) \/ t.room = 0)
          BY <4>2, <4>6, <5>1, <5>3 DEF a
        <5> QED BY <4>2, <4>5, <4>8, <5>1, <5>2, <5>4
      <4>12. At(t, k + 1, h)
        BY <4>2, <4>7, <4>9, <4>10, <4>11 DEF At
      <4> QED BY <4>12
    <3> QED BY <3>1, <3>2
  <2> QED BY <2>1, <2>6, <2>13 DEF P, t
<1>6. l \in P
  <2> HIDE DEF P
  <2>1. \A k \in 0 .. l : k \in P
    BY <1>1, <1>4, <1>5, UpTo
  <2> QED BY <1>1, <2>1
<1>7. phs = f[l].phs /\ f[l].room \in Nat
  <2>1. l \in 0 .. l
    BY <1>1
  <2> QED BY <1>2, <1>3, <2>1
<1>8. PICK g : At(f[l], l, g)
  BY <1>6
<1>9. f[l].room = 0 => Total(phs) = n
  BY <1>6, <1>7
<1>10. /\ g \in [1 .. Len(phs) -> 1 .. l]
       /\ \A p, q \in 1 .. Len(phs) : p < q => g[p] < g[q]
       /\ \A p \in 1 .. Len(phs) : \E e : Taken(phs[p], all[g[p]], Len(all[g[p]]), e)
  BY <1>7, <1>8
<1>11. Clean =>
         /\ Len(phs) = l \/ Total(phs) = n
         /\ \A p \in 1 .. Len(phs) :
               /\ g[p] = p
               /\ Len(phs[p]) = Len(all[p]) \/ (p = Len(phs) /\ Total(phs) = n)
  BY <1>7, <1>8, <1>9
<1>12. CutFrom(phs, all, n, g)
  BY <1>10, <1>11 DEF CutFrom, l, Clean
<1> QED BY <1>12 DEF phs

\* The groups of the first l lines of a plan: b says after which line each begins.
Spans(all, plan, b, l) ==
    /\ b \in [1 .. Len(all) -> Nat]
    /\ \A k \in 1 .. Len(all) :
          /\ b[k] + Len(all[k]) <= l
          /\ b[k] + Len(all[k]) = l \/ plan[b[k] + Len(all[k]) + 1] = Fase
          /\ \A j \in 1 .. Len(all[k]) : plan[b[k] + j] = all[k][j] /\ all[k][j] # Fase
    /\ \A k, q \in 1 .. Len(all) : k < q => b[k] + Len(all[k]) < b[q]
    /\ \A i \in 1 .. l : plan[i] = Fase \/ \E k \in 1 .. Len(all) : b[k] < i /\ i <= b[k] + Len(all[k])

\* The same with the group that is being read, of the last lines.
Reading(g, plan, b, l) ==
    /\ Len(g.cur) <= l
    /\ Spans(g.all, plan, b, l - Len(g.cur))
    /\ \A k \in 1 .. Len(g.all) : b[k] + Len(g.all[k]) < l - Len(g.cur)
    /\ \A j \in 1 .. Len(g.cur) : plan[l - Len(g.cur) + j] = g.cur[j] /\ g.cur[j] # Fase

\* The group that was being read ends where the plan has been read to.
LEMMA EndedSpans ==
    ASSUME NEW T, NEW plan, NEW g \in GroupState(T), NEW l \in Nat, NEW b, Reading(g, plan, b, l)
    PROVE  \E d : Spans(Ended(g), plan, d, l)
<1> DEFINE all == g.all
           cur == g.cur
           m == Len(all)
           c == l - Len(cur)
           U == Seq(T) \ {<<>>}
<1>1. all \in Seq(U) /\ cur \in Seq(T) /\ m \in Nat /\ Len(cur) \in Nat
  <2>1. all \in Seq(U) /\ cur \in Seq(T)
    BY DEF GroupState
  <2> HIDE DEF all, cur, U
  <2> QED BY <2>1, LenProperties
<1>2. c \in Nat /\ c + Len(cur) = l
  BY <1>1 DEF Reading
<1>3. /\ b \in [1 .. m -> Nat]
      /\ \A k \in 1 .. m :
            /\ b[k] + Len(all[k]) <= c
            /\ b[k] + Len(all[k]) = c \/ plan[b[k] + Len(all[k]) + 1] = Fase
            /\ \A j \in 1 .. Len(all[k]) : plan[b[k] + j] = all[k][j] /\ all[k][j] # Fase
      /\ \A k, q \in 1 .. m : k < q => b[k] + Len(all[k]) < b[q]
      /\ \A i \in 1 .. c : plan[i] = Fase \/ \E k \in 1 .. m : b[k] < i /\ i <= b[k] + Len(all[k])
  BY DEF Reading, Spans
<1>4. /\ \A k \in 1 .. m : b[k] + Len(all[k]) < c
      /\ \A j \in 1 .. Len(cur) : plan[c + j] = cur[j] /\ cur[j] # Fase
  BY DEF Reading
<1>5. \A k \in 1 .. m : Len(all[k]) \in Nat
  <2> HIDE DEF all, m
  <2>1. \A k \in 1 .. m : all[k] \in U
    BY <1>1, ElementOfSeq DEF m
  <2> QED BY <2>1, LenProperties
<1> HIDE DEF all, cur, c, U
<1>6. CASE cur = <<>>
  <2>1. Ended(g) = all /\ c = l
    <3>1. Len(cur) = 0
      BY <1>6, EmptySeq
    <3> QED BY <1>2, <1>6, <3>1 DEF Ended, all, cur
  <2>2. Spans(all, plan, b, l)
    BY <1>3, <2>1 DEF Spans
  <2> QED BY <2>1, <2>2
<1>7. CASE cur # <<>>
  <2> DEFINE more == Append(all, cur)
             d == [k \in 1 .. m + 1 |-> IF k = m + 1 THEN c ELSE b[k]]
  <2>1. Ended(g) = more
    BY <1>7 DEF Ended, all, cur
  <2>2. cur \in U
    BY <1>1, <1>7 DEF U
  <2>3. Len(more) = m + 1 /\ more[m + 1] = cur /\ \A k \in 1 .. m : more[k] = all[k]
    BY <1>1, <2>2, AppendProperties
  <2> HIDE DEF more, m
  <2>4. /\ \A k \in 1 .. m : k \in 1 .. m + 1 /\ k # m + 1
        /\ \A k \in 1 .. m + 1 : k \in 1 .. m \/ k = m + 1
    BY <1>1
  <2>5. (\A k \in 1 .. m : d[k] = b[k]) /\ d[m + 1] = c
    BY <1>1, <2>4
  <2>6. d \in [1 .. m + 1 -> Nat]
    <3>1. \A k \in 1 .. m + 1 : (IF k = m + 1 THEN c ELSE b[k]) \in Nat
      BY <1>2, <1>3, <2>4
    <3> QED BY <3>1
  <2> HIDE DEF d
  <2>7. ASSUME NEW k \in 1 .. m + 1
        PROVE  /\ d[k] + Len(more[k]) <= l
               /\ d[k] + Len(more[k]) = l \/ plan[d[k] + Len(more[k]) + 1] = Fase
               /\ \A j \in 1 .. Len(more[k]) : plan[d[k] + j] = more[k][j] /\ more[k][j] # Fase
    <3>1. CASE k = m + 1
      BY <1>2, <1>4, <2>3, <2>5, <3>1
    <3>2. CASE k \in 1 .. m
      <4>1. d[k] = b[k] /\ more[k] = all[k] /\ b[k] \in Nat /\ Len(all[k]) \in Nat
        BY <1>3, <1>5, <2>3, <2>5, <3>2
      <4>2. b[k] + Len(all[k]) < c /\ plan[b[k] + Len(all[k]) + 1] = Fase
        BY <1>2, <1>3, <1>4, <3>2, <4>1
      <4>3. b[k] + Len(all[k]) <= l
        BY <1>1, <1>2, <4>1, <4>2
      <4> QED BY <1>3, <3>2, <4>1, <4>2, <4>3
    <3> QED BY <2>4, <3>1, <3>2
  <2>8. \A k, q \in 1 .. m + 1 : k < q => d[k] + Len(more[k]) < d[q]
    <3> SUFFICES ASSUME NEW k \in 1 .. m + 1, NEW q \in 1 .. m + 1, k < q
                 PROVE  d[k] + Len(more[k]) < d[q]
      OBVIOUS
    <3>1. k \in 1 .. m
      BY <1>1
    <3>2. d[k] = b[k] /\ more[k] = all[k]
      BY <2>3, <2>5, <3>1
    <3>3. CASE q = m + 1
      BY <1>4, <2>5, <3>1, <3>2, <3>3
    <3>4. CASE q \in 1 .. m
      BY <1>3, <2>5, <3>1, <3>2, <3>4
    <3> QED BY <2>4, <3>3, <3>4
  <2>9. ASSUME NEW i \in 1 .. l, plan[i] # Fase
        PROVE  \E k \in 1 .. m + 1 : d[k] < i /\ i <= d[k] + Len(more[k])
    <3>1. CASE i <= c
      <4>1. i \in 1 .. c
        BY <1>2, <3>1
      <4>2. PICK k \in 1 .. m : b[k] < i /\ i <= b[k] + Len(all[k])
        BY <1>3, <2>9, <4>1
      <4>3. d[k] < i /\ i <= d[k] + Len(more[k])
        BY <2>3, <2>5, <4>2
      <4> QED BY <2>4, <4>3
    <3>2. CASE ~ i <= c
      <4>1. d[m + 1] < i /\ i <= d[m + 1] + Len(more[m + 1]) /\ m + 1 \in 1 .. m + 1
        BY <1>1, <1>2, <2>3, <2>5, <3>2
      <4> QED BY <4>1
    <3> QED BY <3>1, <3>2
  <2>10. Spans(more, plan, d, l)
    BY <2>3, <2>6, <2>7, <2>8, <2>9 DEF Spans
  <2> QED BY <2>1, <2>10
<1> QED BY <1>6, <1>7

\* The groups of a plan lie on its lines, apart, and between them are FASE lines only.
LEMMA GroupsPlaced ==
    ASSUME NEW T, NEW plan \in Seq(T)
    PROVE  \E all \in Seq(Seq(T) \ {<<>>}) : \E b :
              /\ Spans(all, plan, b, Len(plan))
              /\ Groups(plan) = IF all = <<>> THEN <<plan>> ELSE all
<1> DEFINE n == Len(plan)
           U == Seq(T) \ {<<>>}
<1>1. n \in Nat /\ \A k \in 1 .. n : plan[k] \in T
  BY LenProperties, ElementOfSeq
<1>2. PICK f \in [0 .. n -> GroupState(T)] :
         /\ f[0] = [all |-> <<>>, cur |-> <<>>]
         /\ \A k \in 1 .. n : f[k] = GroupStep(f[k - 1], plan[k])
         /\ Groups(plan) = IF Ended(f[n]) = <<>> THEN <<plan>> ELSE Ended(f[n])
  BY GroupsRun
<1> HIDE DEF n
<1> DEFINE P == {k \in 0 .. n : \E b : Reading(f[k], plan, b, k)}
<1>3. 0 \in P
  <2> DEFINE g == f[0]
             b == [k \in 1 .. Len(g.all) |-> 0]
  <2>1. g.all = <<>> /\ g.cur = <<>>
    BY <1>2
  <2>2. Len(g.all) = 0 /\ Len(g.cur) = 0
    BY <2>1, EmptySeq
  <2> HIDE DEF g
  <2>3. Spans(g.all, plan, b, 0)
    <3>1. \A k \in 1 .. Len(g.all) : FALSE
      BY <2>2
    <3>2. \A i \in 1 .. 0 : FALSE
      OBVIOUS
    <3>3. b \in [1 .. Len(g.all) -> Nat]
      OBVIOUS
    <3> HIDE DEF b
    <3> QED BY <3>1, <3>2, <3>3 DEF Spans
  <2> HIDE DEF b
  <2>4. Reading(g, plan, b, 0)
    <3>1. 0 - Len(g.cur) = 0 /\ Len(g.cur) <= 0
      BY <2>2
    <3> QED BY <2>2, <2>3, <3>1 DEF Reading
  <2> QED BY <1>1, <2>4 DEF g
<1>4. ASSUME NEW k \in 0 .. n - 1, k \in P  PROVE k + 1 \in P
  <2> DEFINE g == f[k]
             h == f[k + 1]
             x == plan[k + 1]
  <2>1. k \in Nat /\ k + 1 \in 1 .. n /\ k \in 0 .. n /\ k + 1 \in 0 .. n /\ (k + 1) - 1 = k
    BY <1>1
  <2>2. h = GroupStep(g, x) /\ g \in GroupState(T) /\ x \in T
    BY <1>1, <1>2, <2>1
  <2>3. PICK b : Reading(g, plan, b, k)
    BY <1>4
  <2> HIDE DEF g, h, x, P
  <2>4. \E d : Reading(h, plan, d, k + 1)
    <3>1. CASE x = Fase
      <4> DEFINE all == Ended(g)
      <4>1. h.all = all /\ h.cur = <<>>
        BY <2>2, <3>1 DEF GroupStep
      <4>2. PICK d : Spans(all, plan, d, k)
        BY <2>1, <2>2, <2>3, EndedSpans
      <4>3. \A q \in 1 .. Len(all) : Len(all[q]) \in Nat
        <5>1. all \in Seq(U)
          BY <2>2, EndedTyped
        <5> HIDE DEF all
        <5>2. \A q \in 1 .. Len(all) : all[q] \in U
          BY <5>1, ElementOfSeq
        <5> QED BY <5>2, LenProperties
      <4> HIDE DEF all
      <4>4. /\ d \in [1 .. Len(all) -> Nat]
            /\ \A q \in 1 .. Len(all) :
                  /\ d[q] + Len(all[q]) <= k
                  /\ d[q] + Len(all[q]) = k \/ plan[d[q] + Len(all[q]) + 1] = Fase
                  /\ \A j \in 1 .. Len(all[q]) : plan[d[q] + j] = all[q][j] /\ all[q][j] # Fase
            /\ \A p, q \in 1 .. Len(all) : p < q => d[p] + Len(all[p]) < d[q]
            /\ \A i \in 1 .. k : plan[i] = Fase
                                 \/ \E q \in 1 .. Len(all) : d[q] < i /\ i <= d[q] + Len(all[q])
        BY <4>2 DEF Spans
      <4>5. ASSUME NEW q \in 1 .. Len(all)
            PROVE  /\ d[q] + Len(all[q]) <= k + 1 /\ d[q] + Len(all[q]) < k + 1
                   /\ plan[d[q] + Len(all[q]) + 1] = Fase
        <5>1. d[q] \in Nat /\ Len(all[q]) \in Nat /\ d[q] + Len(all[q]) <= k
          BY <4>3, <4>4
        <5>2. plan[d[q] + Len(all[q]) + 1] = Fase
          BY <3>1, <4>4 DEF x
        <5> QED BY <2>1, <5>1, <5>2
      <4>6. \A i \in 1 .. k + 1 : plan[i] = Fase
                                 \/ \E q \in 1 .. Len(all) : d[q] < i /\ i <= d[q] + Len(all[q])
        <5> SUFFICES ASSUME NEW i \in 1 .. k + 1, plan[i] # Fase
                     PROVE  \E q \in 1 .. Len(all) : d[q] < i /\ i <= d[q] + Len(all[q])
          OBVIOUS
        <5>1. i # k + 1
          BY <3>1 DEF x
        <5>2. i \in 1 .. k
          BY <2>1, <5>1
        <5> QED BY <4>4, <5>2
      <4>7. Spans(all, plan, d, k + 1)
        BY <4>4, <4>5, <4>6 DEF Spans
      <4>8. Len(h.cur) = 0
        BY <4>1, EmptySeq
      <4>9. (k + 1) - Len(h.cur) = k + 1 /\ Len(h.cur) <= k + 1
        BY <2>1, <4>8
      <4>10. Reading(h, plan, d, k + 1)
        BY <4>1, <4>5, <4>7, <4>8, <4>9 DEF Reading
      <4> QED BY <4>10
    <3>2. CASE x # Fase
      <4> DEFINE cur == g.cur
                 m == Len(cur)
                 longer == Append(cur, x)
      <4>1. g \in [all : Seq(U), cur : Seq(T)]
        BY <2>2 DEF GroupState
      <4>2. h = [g EXCEPT !.cur = longer]
        BY <2>2, <3>2 DEF GroupStep
      <4>3. h.all = g.all /\ h.cur = longer
        <5> HIDE DEF longer, U
        <5> QED BY <4>1, <4>2
      <4>4. cur \in Seq(T)
        BY <4>1
      <4> HIDE DEF cur, longer
      <4>5. /\ m \in Nat /\ Len(longer) = m + 1 /\ longer[m + 1] = x
            /\ \A j \in 1 .. m : longer[j] = cur[j]
        BY <2>2, <4>4, LenProperties, AppendProperties DEF longer
      <4>6. /\ m <= k /\ Spans(g.all, plan, b, k - m)
            /\ \A q \in 1 .. Len(g.all) : b[q] + Len(g.all[q]) < k - m
            /\ \A j \in 1 .. m : plan[k - m + j] = cur[j] /\ cur[j] # Fase
        BY <2>3 DEF Reading, cur
      <4> HIDE DEF m
      <4>7. (k + 1) - Len(longer) = k - m /\ Len(longer) <= k + 1
        BY <2>1, <4>5, <4>6
      <4>8. ASSUME NEW j \in 1 .. m + 1
            PROVE  plan[k - m + j] = longer[j] /\ longer[j] # Fase
        <5>1. CASE j = m + 1
          <6>1. k - m + j = k + 1
            BY <2>1, <4>5, <5>1
          <6> QED BY <3>2, <4>5, <5>1, <6>1 DEF x
        <5>2. CASE j # m + 1
          <6>1. j \in 1 .. m
            BY <4>5, <5>2
          <6> QED BY <4>5, <4>6, <6>1
        <5> QED BY <5>1, <5>2
      <4>9. Reading(h, plan, b, k + 1)
        BY <4>3, <4>5, <4>6, <4>7, <4>8 DEF Reading
      <4> QED BY <4>9
    <3> QED BY <3>1, <3>2
  <2> QED BY <2>1, <2>4 DEF P, h
<1>5. n \in P
  <2> HIDE DEF P
  <2>1. \A k \in 0 .. n : k \in P
    BY <1>1, <1>3, <1>4, UpTo
  <2> QED BY <1>1, <2>1
<1>6. f[n] \in GroupState(T) /\ \E b : Reading(f[n], plan, b, n)
  <2>1. n \in 0 .. n
    BY <1>1
  <2> QED BY <1>5, <2>1
<1>7. Ended(f[n]) \in Seq(U) /\ \E d : Spans(Ended(f[n]), plan, d, n)
  <2>1. \E d : Spans(Ended(f[n]), plan, d, n)
    BY <1>1, <1>6, EndedSpans
  <2> QED BY <1>6, <2>1, EndedTyped
<1> QED BY <1>2, <1>7 DEF n

\* The coders of all phases, counted: as many as the phases have tasks together.
LEMMA PlacesCount ==
    ASSUME NEW T, NEW phs \in Seq(Seq(T))
    PROVE  IsFiniteSet(Places(phs)) /\ Cardinality(Places(phs)) = Total(phs)
<1> DEFINE n == Len(phs)
           Up(i) == UNION {{k} \X (1 .. Len(phs[k])) : k \in 1 .. i}
<1>1. n \in Nat /\ DOMAIN phs = 1 .. n /\ \A k \in 1 .. n : phs[k] \in Seq(T)
  BY LenProperties, ElementOfSeq
<1>2. \A k \in 1 .. n : Len(phs[k]) \in Nat /\ DOMAIN phs[k] = 1 .. Len(phs[k])
  BY <1>1, LenProperties
<1>3. Places(phs) = Up(n)
  BY <1>1, <1>2 DEF Places
<1>4. PICK f \in [0 .. n -> Nat] : Sums(f, phs) /\ Total(phs) = f[n]
  BY TotalFacts
<1> HIDE DEF n
<1> DEFINE P == {i \in 0 .. n : IsFiniteSet(Up(i)) /\ Cardinality(Up(i)) = f[i]}
<1>5. 0 \in P
  <2>1. Up(0) = {}
    OBVIOUS
  <2>2. f[0] = 0
    BY <1>4 DEF Sums
  <2>3. IsFiniteSet(Up(0)) /\ Cardinality(Up(0)) = 0
    BY <2>1, FS_EmptySet
  <2> HIDE DEF Up
  <2> QED BY <1>1, <2>2, <2>3
<1>6. ASSUME NEW k \in 0 .. n - 1, k \in P  PROVE k + 1 \in P
  <2> DEFINE A == Up(k)
             m == Len(phs[k + 1])
             B == {k + 1} \X (1 .. m)
  <2>1. k \in Nat /\ k + 1 \in 1 .. n /\ k + 1 \in 0 .. n /\ k \in 0 .. n /\ (k + 1) - 1 = k
    BY <1>1
  <2>2. m \in Nat /\ f[k + 1] = f[k] + m /\ f[k] \in Nat
    BY <1>2, <1>4, <2>1 DEF n, Sums
  <2>3. Up(k + 1) = A \cup B
    <3>1. 1 .. k + 1 = 1 .. k \cup {k + 1}
      BY <2>1
    <3> QED BY <3>1
  <2>4. A \cap B = {}
    <3> SUFFICES ASSUME NEW x \in A, x \in B  PROVE FALSE
      OBVIOUS
    <3>1. PICK q \in 1 .. k : x \in {q} \X (1 .. Len(phs[q]))
      OBVIOUS
    <3>2. x[1] = q /\ x[1] = k + 1
      BY <3>1
    <3> QED BY <2>1, <3>2
  <2>5. IsFiniteSet(A) /\ Cardinality(A) = f[k]
    BY <1>6
  <2>6. IsFiniteSet(B) /\ Cardinality(B) = m
    <3> DEFINE I == 1 .. m
               O == {k + 1}
    <3> HIDE DEF m
    <3>1. IsFiniteSet(I) /\ Cardinality(I) = m
      <4>1. Cardinality(I) = IF 1 > m THEN 0 ELSE m - 1 + 1
        BY <2>2, FS_Interval
      <4>2. IsFiniteSet(I)
        BY <2>2, FS_Interval
      <4> QED BY <2>2, <4>1, <4>2
    <3>2. IsFiniteSet(O) /\ Cardinality(O) = 1
      BY FS_Singleton
    <3> HIDE DEF I, O
    <3>3. IsFiniteSet(O \X I) /\ Cardinality(O \X I) = 1 * m
      BY <3>1, <3>2, FS_Product
    <3> QED BY <2>2, <3>3 DEF O, I
  <2> HIDE DEF A, B, m, P
  <2>7. IsFiniteSet(A \cup B) /\ Cardinality(A \cup B) = f[k] + m
    <3>1. IsFiniteSet(A \cap B) /\ Cardinality(A \cap B) = 0
      BY <2>4, FS_EmptySet
    <3>2. Cardinality(A \cup B) = Cardinality(A) + Cardinality(B) - Cardinality(A \cap B)
      BY <2>5, <2>6, FS_Union
    <3>3. IsFiniteSet(A \cup B)
      BY <2>5, <2>6, FS_Union
    <3> QED BY <2>2, <2>5, <2>6, <3>1, <3>2, <3>3
  <2> HIDE DEF Up
  <2>8. IsFiniteSet(Up(k + 1)) /\ Cardinality(Up(k + 1)) = f[k + 1]
    BY <2>2, <2>3, <2>7
  <2> QED BY <2>1, <2>8 DEF P
<1>7. n \in P
  <2> HIDE DEF P
  <2>1. \A k \in 0 .. n : k \in P
    BY <1>1, <1>5, <1>6, UpTo
  <2> QED BY <1>1, <2>1
<1> HIDE DEF Up
<1> QED BY <1>3, <1>4, <1>7 DEF n

\* The phases cut from the groups of a plan lie on its lines.
LEMMA LaidOut ==
    ASSUME NEW T, NEW plan \in Seq(T), NEW all \in Seq(Seq(T) \ {<<>>}), NEW b,
           Spans(all, plan, b, Len(plan)),
           NEW n \in Nat, NEW phs, phs = CapAll(all, n)
    PROVE  \E line \in [Places(phs) -> TaskLines(plan)] :
              Laid(phs, plan, line) /\ (Dash \in Range(plan) \/ InTurn(phs, plan, line, n))
<1> DEFINE w == Len(phs)
           l == Len(plan)
           U == Seq(T \ {Dash})
<1>1. /\ phs \in Seq(U) /\ w \in Nat /\ DOMAIN phs = 1 .. w
      /\ \A p \in 1 .. w : DOMAIN phs[p] = 1 .. Len(phs[p]) /\ Len(phs[p]) \in Nat
  <2>1. all \in Seq(Seq(T))
    BY SeqMonotonic
  <2>2. phs \in Seq(U \ {<<>>})
    BY <2>1, CapFacts
  <2>3. phs \in Seq(U)
    BY <2>2, SeqMonotonic
  <2>4. w \in Nat /\ DOMAIN phs = 1 .. w /\ \A p \in 1 .. w : phs[p] \in U
    BY <2>3, LenProperties, ElementOfSeq
  <2> QED BY <2>3, <2>4, LenProperties
<1>2. l \in Nat /\ DOMAIN plan = 1 .. l
  BY LenProperties
<1>3. \A k \in 1 .. Len(all) : Len(all[k]) \in Nat /\ DOMAIN all[k] = 1 .. Len(all[k])
  <2>1. \A k \in 1 .. Len(all) : all[k] \in Seq(T)
    BY ElementOfSeq
  <2> QED BY <2>1, LenProperties
<1>4. PICK g : CutFrom(phs, all, n, g)
  BY CapPlaced
<1>g. /\ g \in [1 .. w -> 1 .. Len(all)]
      /\ \A p, q \in 1 .. w : p < q => g[p] < g[q]
      /\ \A p \in 1 .. w : \E e : Taken(phs[p], all[g[p]], Len(all[g[p]]), e)
      /\ (\A k \in 1 .. Len(all) : NoDash(all[k])) =>
            /\ w = Len(all) \/ Total(phs) = n
            /\ \A p \in 1 .. w :
                  /\ g[p] = p
                  /\ Len(phs[p]) = Len(all[p]) \/ (p = w /\ Total(phs) = n)
  BY <1>4 DEF CutFrom
<1>5. /\ b \in [1 .. Len(all) -> Nat]
      /\ \A k \in 1 .. Len(all) :
            /\ b[k] + Len(all[k]) <= l
            /\ b[k] + Len(all[k]) = l \/ plan[b[k] + Len(all[k]) + 1] = Fase
            /\ \A j \in 1 .. Len(all[k]) : plan[b[k] + j] = all[k][j] /\ all[k][j] # Fase
      /\ \A k, q \in 1 .. Len(all) : k < q => b[k] + Len(all[k]) < b[q]
      /\ \A i \in 1 .. l : plan[i] = Fase \/ \E k \in 1 .. Len(all) : b[k] < i /\ i <= b[k] + Len(all[k])
  BY DEF Spans
<1> HIDE DEF w, l
<1> DEFINE ln == [p \in 1 .. w |-> CHOOSE e : Taken(phs[p], all[g[p]], Len(all[g[p]]), e)]
           At(p, j) == b[g[p]] + ln[p][j]
<1>6. ASSUME NEW p \in 1 .. w
      PROVE  /\ ln[p] \in [1 .. Len(phs[p]) -> 1 .. Len(all[g[p]])]
             /\ \A j \in 1 .. Len(phs[p]) : phs[p][j] = all[g[p]][ln[p][j]] /\ phs[p][j] # Dash
             /\ \A i, j \in 1 .. Len(phs[p]) : i < j => ln[p][i] < ln[p][j]
             /\ NoDash(all[g[p]]) => \A j \in 1 .. Len(phs[p]) : ln[p][j] = j
  <2>1. \E e : Taken(phs[p], all[g[p]], Len(all[g[p]]), e)
    BY <1>g
  <2>2. Taken(phs[p], all[g[p]], Len(all[g[p]]), ln[p])
    BY <2>1
  <2> HIDE DEF ln
  <2> QED BY <2>2 DEF Taken
<1> HIDE DEF ln
<1>7. ASSUME NEW p \in 1 .. w, NEW j \in 1 .. Len(phs[p])
      PROVE  /\ At(p, j) \in 1 .. l
             /\ b[g[p]] \in Nat /\ b[g[p]] < At(p, j) /\ At(p, j) <= b[g[p]] + Len(all[g[p]])
             /\ plan[At(p, j)] = phs[p][j] /\ phs[p][j] \notin {Fase, Dash}
  <2> DEFINE k == g[p]
             i == ln[p][j]
  <2>1. k \in 1 .. Len(all)
    BY <1>g
  <2> HIDE DEF k
  <2>2. i \in 1 .. Len(all[k]) /\ phs[p][j] = all[k][i] /\ phs[p][j] # Dash
    BY <1>6 DEF k
  <2>3. b[k] \in Nat /\ Len(all[k]) \in Nat /\ b[k] + Len(all[k]) <= l
    BY <1>3, <1>5, <2>1
  <2>4. plan[b[k] + i] = all[k][i] /\ all[k][i] # Fase
    BY <1>5, <2>1, <2>2
  <2> HIDE DEF i
  <2>5. b[k] + i \in 1 .. l /\ b[k] < b[k] + i /\ b[k] + i <= b[k] + Len(all[k])
    <3> DEFINE B == b[k]
               L == Len(all[k])
    <3>1. i \in 1 .. L /\ B \in Nat /\ L \in Nat /\ B + L <= l /\ l \in Nat
      BY <1>2, <2>2, <2>3
    <3> HIDE DEF B, L
    <3>2. B + i \in 1 .. l /\ B < B + i /\ B + i <= B + L
      BY <3>1
    <3> QED BY <3>2 DEF B, L
  <2> QED BY <2>2, <2>3, <2>4, <2>5 DEF k, i
<1>8. \A s \in Places(phs) : s[1] \in 1 .. w /\ s[2] \in 1 .. Len(phs[s[1]]) /\ s = <<s[1], s[2]>>
  BY <1>1 DEF Places
<1>9. \A p \in 1 .. w : \A j \in 1 .. Len(phs[p]) : <<p, j>> \in Places(phs)
  BY <1>1 DEF Places
<1> DEFINE line == [s \in Places(phs) |-> At(s[1], s[2])]
<1>10. \A s \in Places(phs) : line[s] = At(s[1], s[2])
  OBVIOUS
<1>11. line \in [Places(phs) -> TaskLines(plan)]
  <2>1. \A s \in Places(phs) : At(s[1], s[2]) \in TaskLines(plan)
    <3> SUFFICES ASSUME NEW s \in Places(phs)  PROVE At(s[1], s[2]) \in TaskLines(plan)
      OBVIOUS
    <3> DEFINE a == At(s[1], s[2])
    <3>1. a \in 1 .. l /\ plan[a] \notin {Fase, Dash}
      BY <1>7, <1>8
    <3> HIDE DEF a
    <3>2. a \in TaskLines(plan)
      BY <1>2, <3>1 DEF TaskLines
    <3> QED BY <3>2 DEF a
  <2> HIDE DEF At
  <2> QED BY <2>1
<1> HIDE DEF line
<1>12. Laid(phs, plan, line)
  <2> SUFFICES ASSUME NEW s \in Places(phs), NEW t \in Places(phs)
               PROVE  /\ phs[s[1]][s[2]] = plan[line[s]]
                      /\ s[1] < t[1] => line[s] < line[t] /\ \E i \in line[s] .. line[t] : plan[i] = Fase
                      /\ s[1] = t[1] /\ s[2] < t[2] =>
                            line[s] < line[t] /\ \A i \in line[s] .. line[t] : plan[i] # Fase
    BY DEF Laid
  <2> DEFINE p == s[1]
             q == t[1]
             x == line[s]
             y == line[t]
  <2>1. p \in 1 .. w /\ q \in 1 .. w /\ s[2] \in 1 .. Len(phs[p]) /\ t[2] \in 1 .. Len(phs[q])
    BY <1>8
  <2>2. x = b[g[p]] + ln[p][s[2]] /\ y = b[g[q]] + ln[q][t[2]]
    BY <1>10
  <2>3. /\ x \in 1 .. l /\ b[g[p]] \in Nat /\ b[g[p]] < x /\ x <= b[g[p]] + Len(all[g[p]])
        /\ plan[x] = phs[p][s[2]]
    <3> HIDE DEF x, p
    <3>1. /\ At(p, s[2]) \in 1 .. l /\ b[g[p]] \in Nat /\ b[g[p]] < At(p, s[2])
          /\ At(p, s[2]) <= b[g[p]] + Len(all[g[p]]) /\ plan[At(p, s[2])] = phs[p][s[2]]
      <4> HIDE DEF At
      <4> QED BY <1>7, <2>1
    <3>2. x = At(p, s[2])
      BY <2>2
    <3> HIDE DEF At
    <3> QED BY <3>1, <3>2
  <2>4. y \in 1 .. l /\ b[g[q]] \in Nat /\ b[g[q]] < y /\ y <= b[g[q]] + Len(all[g[q]])
    <3> HIDE DEF y, q
    <3>1. /\ At(q, t[2]) \in 1 .. l /\ b[g[q]] \in Nat /\ b[g[q]] < At(q, t[2])
          /\ At(q, t[2]) <= b[g[q]] + Len(all[g[q]])
      <4> HIDE DEF At
      <4> QED BY <1>7, <2>1
    <3>2. y = At(q, t[2])
      BY <2>2
    <3> HIDE DEF At
    <3> QED BY <3>1, <3>2
  <2>5. g[p] \in 1 .. Len(all) /\ g[q] \in 1 .. Len(all)
    BY <1>g, <2>1
  <2>6. Len(all[g[p]]) \in Nat
    BY <1>3, <2>5
  <2> HIDE DEF p, q, x, y
  <2>7. ASSUME p < q  PROVE x < y /\ \E i \in x .. y : plan[i] = Fase
    <3>1. g[p] < g[q]
      BY <1>g, <2>1, <2>7
    <3> DEFINE m == b[g[p]] + Len(all[g[p]])
    <3>2. m < b[g[q]] /\ m <= l /\ (m = l \/ plan[m + 1] = Fase)
      BY <1>5, <2>5, <3>1
    <3>3. m \in Nat /\ x <= m /\ b[g[q]] < y /\ y <= l
      BY <2>3, <2>4, <2>6, <1>2
    <3> HIDE DEF m
    <3>4. m # l /\ m + 1 \in x .. y /\ x < y
      BY <1>2, <2>3, <2>4, <3>2, <3>3
    <3> QED BY <3>2, <3>4
  <2>8. ASSUME p = q, s[2] < t[2]  PROVE x < y /\ \A i \in x .. y : plan[i] # Fase
    <3> DEFINE k == g[p]
    <3>1. ln[p][s[2]] < ln[p][t[2]] /\ ln[p][s[2]] \in 1 .. Len(all[k]) /\ ln[p][t[2]] \in 1 .. Len(all[k])
      BY <1>6, <2>1, <2>8
    <3>2. b[k] \in Nat /\ x = b[k] + ln[p][s[2]] /\ y = b[k] + ln[p][t[2]]
      BY <2>2, <2>3, <2>8
    <3>3. x < y
      BY <3>1, <3>2
    <3>4. ASSUME NEW i \in x .. y  PROVE plan[i] # Fase
      <4>1. b[k] < i /\ i <= b[k] + Len(all[k])
        BY <2>3, <2>4, <2>8
      <4>2. i - b[k] \in 1 .. Len(all[k]) /\ b[k] + (i - b[k]) = i
        <5> DEFINE B == b[k]
                   L == Len(all[k])
        <5>1. B < i /\ i <= B + L /\ B \in Nat /\ L \in Nat /\ i \in Int
          BY <2>3, <2>4, <2>6, <3>2, <4>1
        <5> HIDE DEF B, L
        <5>2. i - B \in 1 .. L /\ B + (i - B) = i
          BY <5>1
        <5> QED BY <5>2 DEF B, L
      <4>3. k \in 1 .. Len(all)
        BY <2>5
      <4> HIDE DEF k
      <4>4. plan[b[k] + (i - b[k])] # Fase
        BY <1>5, <4>2, <4>3
      <4> QED BY <4>2, <4>4
    <3> QED BY <3>3, <3>4
  <2> QED BY <2>3, <2>7, <2>8 DEF p, q, x, y
<1>13. ASSUME Dash \notin Range(plan)  PROVE InTurn(phs, plan, line, n)
  <2>1. ASSUME NEW k \in 1 .. Len(all)  PROVE NoDash(all[k])
    <3> SUFFICES ASSUME NEW j \in 1 .. Len(all[k])  PROVE all[k][j] # Dash
      BY <1>3 DEF NoDash
    <3>1. plan[b[k] + j] = all[k][j] /\ b[k] + Len(all[k]) <= l /\ b[k] \in Nat /\ Len(all[k]) \in Nat
      BY <1>3, <1>5
    <3>2. b[k] + j \in 1 .. l
      BY <1>2, <3>1
    <3> QED BY <1>2, <1>13, <3>1, <3>2 DEF Range
  <2>2. /\ w = Len(all) \/ Total(phs) = n
        /\ \A p \in 1 .. w :
              /\ g[p] = p
              /\ Len(phs[p]) = Len(all[p]) \/ (p = w /\ Total(phs) = n)
    BY <1>g, <2>1
  <2>3. Cardinality(Places(phs)) = Total(phs)
    BY <1>1, PlacesCount
  <2>4. ASSUME NEW p \in 1 .. w, NEW j \in 1 .. Len(phs[p])  PROVE At(p, j) = b[p] + j
    <3>1. g[p] = p /\ p \in 1 .. Len(all)
      BY <1>g, <2>2
    <3> QED BY <1>6, <2>1, <3>1
  <2> SUFFICES ASSUME NEW i \in TaskLines(plan), \A s \in Places(phs) : line[s] # i
               PROVE  Total(phs) = n /\ \A s \in Places(phs) : line[s] < i
    BY <2>3 DEF InTurn
  <2>5. i \in 1 .. l /\ plan[i] # Fase
    BY <1>2 DEF TaskLines
  <2>6. PICK k \in 1 .. Len(all) : b[k] < i /\ i <= b[k] + Len(all[k])
    BY <1>5, <2>5
  <2>7. b[k] \in Nat /\ Len(all[k]) \in Nat
    BY <1>3, <1>5
  <2> DEFINE j == i - b[k]
  <2>8. j \in 1 .. Len(all[k]) /\ b[k] + j = i
    BY <2>5, <2>6, <2>7
  <2> HIDE DEF j
  <2>9. ~ (k \in 1 .. w /\ j \in 1 .. Len(phs[k]))
    <3> SUFFICES ASSUME k \in 1 .. w, j \in 1 .. Len(phs[k])  PROVE FALSE
      OBVIOUS
    <3>1. <<k, j>> \in Places(phs)
      BY <1>9
    <3>2. line[<<k, j>>] = At(k, j)
      BY <1>10, <3>1
    <3>3. At(k, j) = i
      BY <2>4, <2>8
    <3> QED BY <3>1, <3>2, <3>3
  <2>10. Total(phs) = n
    <3>1. CASE k \in 1 .. w
      <4>1. Len(phs[k]) # Len(all[k])
        BY <2>8, <2>9, <3>1
      <4> QED BY <2>2, <3>1, <4>1
    <3>2. CASE k \notin 1 .. w
      BY <2>2, <3>2
    <3> QED BY <3>1, <3>2
  <2>11. ASSUME NEW s \in Places(phs)  PROVE line[s] < i
    <3> DEFINE p == s[1]
               x == line[s]
    <3>1. p \in 1 .. w /\ s[2] \in 1 .. Len(phs[p])
      BY <1>8
    <3>2. x = At(p, s[2])
      BY <1>10
    <3> HIDE DEF p, x
    <3>3. g[p] = p /\ p \in 1 .. Len(all)
      BY <1>g, <2>2, <3>1
    <3>4. x = b[p] + s[2] /\ b[p] \in Nat /\ x \in Nat /\ x <= b[p] + Len(all[p])
      <4>1. At(p, s[2]) = b[p] + s[2]
        BY <2>4, <3>1
      <4> HIDE DEF At
      <4>2. x \in 1 .. l /\ b[g[p]] \in Nat /\ x <= b[g[p]] + Len(all[g[p]])
        BY <1>7, <3>1, <3>2
      <4> QED BY <3>2, <3>3, <4>1, <4>2
    <3>5. p <= k
      <4>1. CASE k \in 1 .. w
        <5>1. Len(phs[k]) # Len(all[k])
          BY <2>8, <2>9, <4>1
        <5>2. k = w
          BY <2>2, <4>1, <5>1
        <5> QED BY <1>1, <3>1, <5>2
      <4>2. CASE k \notin 1 .. w
        BY <1>1, <3>1, <4>2
      <4> QED BY <4>1, <4>2
    <3>6. CASE p < k
      <4>1. b[p] + Len(all[p]) < b[k] /\ Len(all[p]) \in Nat
        BY <1>3, <1>5, <3>3, <3>6
      <4> QED BY <2>5, <2>6, <2>7, <3>4, <4>1 DEF x
    <3>7. CASE p = k
      <4>1. j \notin 1 .. Len(phs[k])
        BY <2>9, <3>1, <3>7
      <4>2. Len(phs[k]) \in Nat /\ j \in Nat /\ j > 0
        BY <1>1, <2>7, <2>8, <3>1, <3>7
      <4>3. j > Len(phs[k])
        BY <4>1, <4>2
      <4>4. s[2] \in Nat /\ s[2] <= Len(phs[k])
        BY <3>1, <3>7, <4>2
      <4>5. b[k] + s[2] < b[k] + j
        BY <2>7, <4>2, <4>3, <4>4
      <4> QED BY <2>8, <3>4, <3>7, <4>5 DEF x
    <3> QED BY <3>3, <3>5, <3>6, <3>7 DEF x
  <2> QED BY <2>10, <2>11
<1> HIDE DEF At
<1> QED BY <1>11, <1>12, <1>13

\* A plan without list marks has none in its groups.
LEMMA SpansClean ==
    ASSUME NEW T, NEW plan \in Seq(T), NEW all \in Seq(Seq(T) \ {<<>>}), NEW b,
           Spans(all, plan, b, Len(plan)), Dash \notin Range(plan)
    PROVE  \A k \in 1 .. Len(all) : NoDash(all[k])
<1> SUFFICES ASSUME NEW k \in 1 .. Len(all)  PROVE NoDash(all[k])
  OBVIOUS
<1> DEFINE l == Len(plan)
           L == Len(all[k])
<1>1. l \in Nat /\ DOMAIN plan = 1 .. l
  BY LenProperties
<1>2. L \in Nat /\ DOMAIN all[k] = 1 .. L
  <2>1. all[k] \in Seq(T)
    BY ElementOfSeq
  <2> QED BY <2>1, LenProperties
<1>3. b[k] \in Nat /\ b[k] + L <= l /\ \A j \in 1 .. L : plan[b[k] + j] = all[k][j]
  BY DEF Spans
<1> HIDE DEF l, L
<1>4. ASSUME NEW j \in 1 .. L  PROVE all[k][j] # Dash
  <2> DEFINE i == b[k] + j
  <2>1. i \in 1 .. l /\ plan[i] = all[k][j]
    <3> DEFINE B == b[k]
    <3>1. B \in Nat /\ B + L <= l /\ plan[B + j] = all[k][j]
      BY <1>3
    <3> HIDE DEF B
    <3>2. B + j \in 1 .. l
      BY <1>1, <1>2, <3>1
    <3> QED BY <3>1, <3>2 DEF B
  <2> HIDE DEF i
  <2> QED BY <1>1, <2>1 DEF Range
<1> QED BY <1>2, <1>4 DEF NoDash

\* Groups without list marks keep at least one task.
LEMMA CleanKept ==
    ASSUME NEW T, NEW gs \in Seq(Seq(T) \ {<<>>}), gs # <<>>, NEW n \in Nat \ {0},
           \A k \in 1 .. Len(gs) : NoDash(gs[k])
    PROVE  CapAll(gs, n) # <<>>
<1> DEFINE phs == CapAll(gs, n)
<1> SUFFICES ASSUME phs = <<>>  PROVE FALSE
  OBVIOUS
<1>1. PICK g : CutFrom(phs, gs, n, g)
  BY CapPlaced
<1>2. Len(gs) \in Nat \ {0}
  BY LenProperties, EmptySeq
<1> HIDE DEF phs
<1>3. Len(phs) = 0 /\ Total(phs) = 0
  BY EmptySeq, TotalEmpty
<1>4. Len(phs) = Len(gs) \/ Total(phs) = n
  BY <1>1 DEF CutFrom
<1> QED BY <1>2, <1>3, <1>4

\* Nothing is cut from an empty plan.
LEMMA NothingCut == ASSUME NEW n \in Nat  PROVE CapAll(<< <<>> >>, n) = <<>>
<1> DEFINE none == <<>>
           gs == << none >>
           z == [phs |-> <<>>, room |-> n]
           E == {}
<1> HIDE DEF E
<1>1. none \in Seq(E) /\ Len(none) = 0
  BY EmptySeq
<1> HIDE DEF none
<1>2. gs \in Seq(Seq(E)) /\ Len(gs) = 1 /\ gs[1] = none
  BY <1>1
<1> HIDE DEF gs
<1>3. PICK f \in [0 .. Len(gs) -> CapState(E)] :
         /\ f[0] = z
         /\ \A k \in 1 .. Len(gs) : f[k] = CapStep(f[k - 1], gs[k])
         /\ CapAll(gs, n) = f[Len(gs)].phs
  <2>1. gs \in Seq(Seq(E))
    BY <1>2
  <2> HIDE DEF z
  <2>2. \E f \in [0 .. Len(gs) -> CapState(E)] :
           /\ f[0] = [phs |-> <<>>, room |-> n]
           /\ \A k \in 1 .. Len(gs) : f[k] = CapStep(f[k - 1], gs[k])
           /\ CapAll(gs, n) = f[Len(gs)].phs
    BY <2>1, CapRun
  <2> QED BY <2>2 DEF z
<1>4. 1 \in 1 .. Len(gs) /\ 1 - 1 = 0
  BY <1>2
<1>5. f[1] = CapStep(z, none) /\ CapAll(gs, n) = f[1].phs
  BY <1>2, <1>3, <1>4
<1>6. Cut(none, z.room) = <<>>
  <2> DEFINE c == Cut(none, n)
  <2>1. PICK e : Taken(c, none, Len(none), e)
    BY <1>1, CutPlaced
  <2>2. c \in Seq(E \ {Dash}) /\ Len(c) \in Nat
    BY <1>1, CutFacts
  <2> HIDE DEF c
  <2>3. e \in [1 .. Len(c) -> 1 .. 0]
    BY <1>1, <2>1 DEF Taken
  <2>4. Len(c) = 0
    <3> SUFFICES ASSUME Len(c) # 0  PROVE FALSE
      OBVIOUS
    <3>1. 1 \in 1 .. Len(c)
      BY <2>2
    <3>2. e[1] \in 1 .. 0
      BY <2>3, <3>1
    <3> QED BY <3>2
  <2>5. c = <<>>
    BY <2>2, <2>4, EmptySeq
  <2> QED BY <2>5 DEF c
<1> HIDE DEF z
<1>7. f[1] = z
  BY <1>5, <1>6 DEF CapStep
<1>8. CapAll(gs, n) = <<>>
  BY <1>5, <1>7 DEF z
<1> QED BY <1>8 DEF gs, none

\* _parse_phases (serve.py:197-225) for every plan and every number of coders.
LEMMA ParseFaithful ==
    ASSUME NEW plan \in Seq(Symbols), NEW n \in Nat \ {0}
    PROVE  Faithful(ParsePhases(plan, n), plan, n)
<1> DEFINE U == Seq(Symbols) \ {<<>>}
           kept == CapAll(Groups(plan), n)
           phs == ParsePhases(plan, n)
           l == Len(plan)
<1>1. PICK all \in Seq(U) : \E b : /\ Spans(all, plan, b, l)
                                   /\ Groups(plan) = IF all = <<>> THEN <<plan>> ELSE all
  BY GroupsPlaced
<1>2. PICK b : Spans(all, plan, b, l) /\ Groups(plan) = IF all = <<>> THEN <<plan>> ELSE all
  BY <1>1
<1>3. phs = IF kept = <<>> THEN <<<<Goal>>>> ELSE kept
  BY DEF ParsePhases
<1>4. /\ phs \in Seq(Seq(Tasks) \ {<<>>}) /\ phs # <<>>
      /\ Total(phs) \in Nat /\ Total(phs) <= n
  BY ParseFacts
<1>5. l \in Nat /\ DOMAIN plan = 1 .. l
  BY LenProperties
<1> HIDE DEF kept, phs, l, U
<1>6. Cardinality(Places(phs)) \in 1 .. n /\ <<>> \notin Range(phs)
  <2>1. phs \in Seq(Seq(Tasks))
    BY <1>4, SeqMonotonic
  <2>2. IsFiniteSet(Places(phs)) /\ Cardinality(Places(phs)) = Total(phs)
    BY <2>1, PlacesCount
  <2>3. /\ Len(phs) \in Nat \ {0} /\ DOMAIN phs = 1 .. Len(phs)
        /\ \A k \in 1 .. Len(phs) : phs[k] \in Seq(Tasks) /\ phs[k] # <<>>
    BY <1>4, LenProperties, EmptySeq, ElementOfSeq
  <2>4. 1 \in DOMAIN phs /\ phs[1] \in Seq(Tasks) /\ phs[1] # <<>>
    BY <2>3
  <2>5. 1 \in DOMAIN phs[1]
    <3>1. Len(phs[1]) \in Nat \ {0} /\ DOMAIN phs[1] = 1 .. Len(phs[1])
      BY <2>4, LenProperties, EmptySeq
    <3> QED BY <3>1
  <2>6. <<1, 1>> \in Places(phs)
    BY <2>4, <2>5 DEF Places
  <2>7. Total(phs) # 0
    BY <2>2, <2>6, FS_EmptySet
  <2>8. <<>> \notin Range(phs)
    BY <2>3 DEF Range
  <2> QED BY <1>4, <2>2, <2>7, <2>8
<1>7. CASE kept = <<>>
  <2>1. phs = <<<<Goal>>>>
    BY <1>3, <1>7
  <2>2. ASSUME plan # <<>>, Dash \notin Range(plan)  PROVE FALSE
    <3>1. CASE all = <<>>
      <4> DEFINE gs == <<plan>>
      <4>1. gs \in Seq(U) /\ Len(gs) = 1 /\ gs[1] = plan /\ gs # <<>>
        <5>1. plan \in U
          BY <2>2 DEF U
        <5> QED BY <5>1
      <4>2. Groups(plan) = gs
        BY <1>2, <3>1
      <4> HIDE DEF gs
      <4>3. NoDash(plan)
        BY <2>2 DEF NoDash, Range
      <4>4. \A k \in 1 .. Len(gs) : NoDash(gs[k])
        BY <4>1, <4>3
      <4>5. CapAll(gs, n) # <<>>
        BY <4>1, <4>4, CleanKept DEF U
      <4> QED BY <1>7, <4>2, <4>5 DEF kept
    <3>2. CASE all # <<>>
      <4>1. \A k \in 1 .. Len(all) : NoDash(all[k])
        BY <1>2, <2>2, SpansClean DEF U, l
      <4>2. CapAll(all, n) # <<>>
        BY <3>2, <4>1, CleanKept DEF U
      <4> QED BY <1>2, <1>7, <3>2, <4>2 DEF kept
    <3> QED BY <3>1, <3>2
  <2> QED BY <1>6, <2>1, <2>2 DEF Faithful, phs
<1>8. CASE kept # <<>> /\ all = <<>>
  <2> DEFINE gs == <<plan>>
  <2>1. Groups(plan) = gs
    BY <1>2, <1>8
  <2>2. plan # <<>>
    <3> SUFFICES ASSUME plan = <<>>  PROVE FALSE
      OBVIOUS
    <3>1. kept = CapAll(<< <<>> >>, n)
      BY <2>1 DEF kept
    <3>2. kept = <<>>
      BY <3>1, NothingCut
    <3> QED BY <1>8, <3>2
  <2>3. gs \in Seq(U) /\ Len(gs) = 1 /\ gs[1] = plan
    <3>1. plan \in U
      BY <2>2 DEF U
    <3> QED BY <3>1
  <2>4. phs = kept /\ kept = CapAll(gs, n)
    BY <1>3, <1>8, <2>1 DEF kept
  <2> HIDE DEF gs
  <2>5. \A i \in 1 .. l : plan[i] = Fase
    <3>1. \A i \in 1 .. l : plan[i] = Fase
                            \/ \E k \in 1 .. Len(all) : b[k] < i /\ i <= b[k] + Len(all[k])
      BY <1>2 DEF Spans
    <3>2. Len(all) = 0
      BY <1>8, EmptySeq
    <3>3. \A k \in 1 .. Len(all) : FALSE
      BY <3>2
    <3> QED BY <3>1, <3>3
  <2>6. Range(plan) = {Fase}
    <3>1. l # 0
      BY <2>2, EmptySeq DEF l
    <3>2. 1 \in 1 .. l
      BY <1>5, <3>1
    <3> QED BY <1>5, <2>5, <3>2 DEF Range
  <2>7. PICK g : CutFrom(phs, gs, n, g)
    BY <2>3, <2>4, CapPlaced DEF U
  <2>8. \A p \in 1 .. Len(phs) : \A j \in 1 .. Len(phs[p]) : phs[p][j] = Fase
    <3> SUFFICES ASSUME NEW p \in 1 .. Len(phs), NEW j \in 1 .. Len(phs[p])  PROVE phs[p][j] = Fase
      OBVIOUS
    <3>1. g[p] \in 1 .. 1 /\ \E e : Taken(phs[p], gs[g[p]], Len(gs[g[p]]), e)
      BY <2>3, <2>7 DEF CutFrom
    <3>2. gs[g[p]] = plan
      BY <2>3, <3>1
    <3>3. PICK e : Taken(phs[p], plan, l, e)
      BY <3>1, <3>2 DEF l
    <3>4. e[j] \in 1 .. l /\ phs[p][j] = plan[e[j]]
      BY <3>3 DEF Taken
    <3> QED BY <2>5, <3>4
  <2>9. \A s \in Places(phs) : phs[s[1]][s[2]] = Fase
    <3>1. phs \in Seq(Seq(Tasks))
      BY <1>4, SeqMonotonic
    <3>2. DOMAIN phs = 1 .. Len(phs) /\ \A p \in 1 .. Len(phs) : DOMAIN phs[p] = 1 .. Len(phs[p])
      BY <3>1, LenProperties, ElementOfSeq
    <3>3. \A s \in Places(phs) : s[1] \in 1 .. Len(phs) /\ s[2] \in 1 .. Len(phs[s[1]])
      BY <3>2 DEF Places
    <3> QED BY <2>8, <3>3
  <2> QED BY <1>6, <2>6, <2>9 DEF Faithful, phs
<1>9. CASE kept # <<>> /\ all # <<>>
  <2>1. phs = CapAll(all, n)
    BY <1>2, <1>3, <1>9 DEF kept
  <2>2. \E line \in [Places(phs) -> TaskLines(plan)] :
           Laid(phs, plan, line) /\ (Dash \in Range(plan) \/ InTurn(phs, plan, line, n))
    BY <1>2, <2>1, LaidOut DEF U, l
  <2> QED BY <1>6, <2>2 DEF Faithful, phs
<1> QED BY <1>7, <1>8, <1>9

-----------------------------------------------------------------------------
\* The text, step by step.

LEMMA FreshText ==
    ASSUME NEW c, NEW n \in Nat, c = <<>>
    PROVE  LastN(c, n) = <<>> /\ ~ TailLoop(c) /\ c \in Seq(Symbols)
           /\ IsPrefix(c, OpenMark) /\ Len(c) < Len(OpenMark)
<1>1. c \in Seq(Symbols) /\ Len(c) = 0
  BY EmptySeq
<1>2. LastN(c, n) = <<>>
  <2> DEFINE t == LastN(c, n)
  <2>1. t \in Seq(Symbols) /\ (Len(c) <= n => Len(t) = Len(c))
    <3>1. c \in Seq(Symbols)
      BY <1>1
    <3> QED BY <3>1, LastNFacts
  <2> HIDE DEF t
  <2>2. t \in Seq(Symbols) /\ Len(t) = 0
    BY <1>1, <2>1
  <2>3. t = <<>>
    BY <2>2, EmptySeq
  <2> QED BY <2>3 DEF t
<1>3. ~ TailLoop(c)
  <2>1. MinSpan \in Nat \ {0} /\ Reps \in Nat \ {0}
    BY TextConstants
  <2>2. 0 \div Reps = 0
    BY <2>1
  <2>3. \A span : span \notin MinSpan .. Len(c) \div Reps
    BY <1>1, <2>1, <2>2
  <2> QED BY <2>3 DEF TailLoop
<1>4. OpenMark \in Seq(Symbols) /\ OpenMark # <<>>
  BY TextConstants
<1>5. Len(OpenMark) \in Nat \ {0}
  BY <1>4, EmptySeq
<1>6. IsPrefix(c, OpenMark)
  <2>1. Len(c) <= Len(OpenMark) /\ \A i \in 1 .. Len(c) : c[i] = OpenMark[i]
    BY <1>1, <1>5
  <2> QED BY <1>1, <1>4, <2>1, PrefixElts
<1> QED BY <1>1, <1>2, <1>3, <1>5, <1>6

LEMMA StartText == TextInit => TextInv
<1> SUFFICES ASSUME TextInit  PROVE TextInv
  OBVIOUS
<1>1. /\ consumed = <<>> /\ buf = <<>> /\ mode = "sniff" /\ out = <<>>
      /\ tail = <<>> /\ over = FALSE
  BY DEF TextInit
<1>2. TailMax \in Nat
  BY TextConstants
<1>3. /\ LastN(consumed, TailMax) = <<>> /\ ~ TailLoop(consumed) /\ consumed \in Seq(Symbols)
      /\ IsPrefix(consumed, OpenMark) /\ Len(consumed) < Len(OpenMark)
  BY <1>1, <1>2, FreshText
<1>4. Filtered
  BY <1>1, <1>3 DEF Filtered
<1>5. Guarded
  <2>1. tail = consumed
    BY <1>1
  <2> QED BY <1>1, <1>3, <2>1 DEF Guarded
<1> QED BY <1>4, <1>5 DEF TextInv

LEMMA ResetText == TextReset => TextInv'
<1> SUFFICES ASSUME TextReset  PROVE TextInv'
  OBVIOUS
<1>1. /\ consumed' = <<>> /\ buf' = <<>> /\ mode' = "sniff" /\ out' = <<>>
      /\ tail' = <<>> /\ over' = FALSE
  BY DEF TextReset
<1>2. TailMax \in Nat
  BY TextConstants
<1>3. /\ LastN(consumed', TailMax) = <<>> /\ ~ TailLoop(consumed') /\ consumed' \in Seq(Symbols)
      /\ IsPrefix(consumed', OpenMark) /\ Len(consumed') < Len(OpenMark)
  BY <1>1, <1>2, FreshText
<1>4. Filtered'
  BY <1>1, <1>3 DEF Filtered
<1>5. Guarded'
  <2>1. tail' = consumed'
    BY <1>1
  <2> QED BY <1>1, <1>3, <2>1 DEF Guarded
<1> QED BY <1>4, <1>5 DEF TextInv

LEMMA PieceText ==
    ASSUME TextInv, NEW p \in Pieces, Piece(p)
    PROVE  TextInv'
<1>1. p \in Seq(Symbols)
  BY TextConstants
<1>2. ~ over /\ consumed' = consumed \o p /\ Filter(p) /\ Guard(p)
  BY DEF Piece
<1>3. Filtered /\ Guarded /\ consumed \in Seq(Symbols)
  BY DEF TextInv, Filtered
<1>4. Filtered'
  BY <1>1, <1>2, <1>3, StepFilter
<1>5. Guarded'
  BY <1>1, <1>2, <1>3, StepGuard
<1> QED BY <1>4, <1>5 DEF TextInv

LEMMA LastText ==
    ASSUME TextInv, NEW p \in Pieces, LastSegment(p)
    PROVE  TextInv'
<1>1. p \in Seq(Symbols)
  BY TextConstants
<1>2. consumed' = consumed \o p /\ Filter(p) /\ over' = TRUE
  BY DEF LastSegment
<1>3. Filtered'
  BY <1>1, <1>2, StepFilter DEF TextInv
<1>4. Guarded'
  BY <1>2 DEF Guarded
<1> QED BY <1>3, <1>4 DEF TextInv

LEMMA KeepText == TextInv /\ UNCHANGED textVars => TextInv'
<1> SUFFICES ASSUME TextInv, UNCHANGED textVars  PROVE TextInv'
  OBVIOUS
<1>1. /\ consumed' = consumed /\ buf' = buf /\ mode' = mode /\ out' = out /\ tail' = tail
      /\ over' = over
  BY DEF textVars
<1>2. Filtered'
  BY <1>1 DEF TextInv, Filtered, Through
<1>3. Guarded'
  BY <1>1 DEF TextInv, Guarded
<1> QED BY <1>2, <1>3 DEF TextInv

LEMMA StepText == TextInv /\ [OrchNext]_orchVars => TextInv'
<1> SUFFICES ASSUME TextInv, [OrchNext]_orchVars  PROVE TextInv'
  OBVIOUS
<1>1. CASE UNCHANGED textVars
  BY <1>1, KeepText
<1>2. CASE TextReset
  BY <1>2, ResetText
<1>3. CASE PlanPiece
  <2>1. PICK p \in Pieces : Piece(p)
    BY <1>3 DEF PlanPiece
  <2> QED BY <2>1, PieceText
<1>4. CASE PlanLast
  <2>1. PICK p \in Pieces : LastSegment(p)
    BY <1>4 DEF PlanLast
  <2> QED BY <2>1, LastText
<1>5. CASE UNCHANGED orchVars
  BY <1>1, <1>5 DEF orchVars
<1>6. ASSUME OrchNext  PROVE UNCHANGED textVars \/ TextReset \/ PlanPiece \/ PlanLast
  <2>1. CASE StartJob
    BY <2>1 DEF StartJob
  <2>2. CASE Stop
    BY <2>2 DEF Stop
  <2>3. CASE Fail \/ PlanEnd
    BY <2>3 DEF Fail, PlanEnd
  <2>4. CASE StartPhase
    BY <2>4 DEF StartPhase
  <2>5. CASE WaveItem
    BY <2>5 DEF WaveItem
  <2>6. CASE WaveAborted
    BY <2>6 DEF WaveAborted
  <2>7. CASE PhaseEnd
    BY <2>7 DEF PhaseEnd
  <2>8. CASE Cancelled \/ StartVerify \/ RedoEnd \/ Review
    BY <2>8 DEF Cancelled, StartVerify, RedoEnd, Review
  <2>9. CASE Verify
    BY <2>9 DEF Verify
  <2> QED BY <1>6, <2>1, <2>2, <2>3, <2>4, <2>5, <2>6, <2>7, <2>8, <2>9 DEF OrchNext, JobStep
<1> QED BY <1>1, <1>2, <1>3, <1>4, <1>5, <1>6

-----------------------------------------------------------------------------
\* The job, action by action.

LEMMA FromFunction ==
    ASSUME NEW S, NEW n \in Nat, NEW f \in [1 .. n -> S]
    PROVE  f \in Seq(S) /\ Len(f) = n /\ DOMAIN f = 1 .. n
<1>1. f \in Seq(S)
  BY SeqDef
<1>2. Len(f) \in Nat /\ DOMAIN f = 1 .. Len(f) /\ DOMAIN f = 1 .. n
  BY <1>1, LenProperties
<1>3. Len(f) = n
  <2> DEFINE l == Len(f)
  <2> HIDE DEF l
  <2>1. l \in Nat /\ 1 .. l = 1 .. n
    BY <1>2 DEF l
  <2>2. l \in 1 .. l \/ l = 0
    BY <2>1
  <2>3. n \in 1 .. n \/ n = 0
    OBVIOUS
  <2>4. l <= n
    BY <2>1, <2>2
  <2>5. n <= l
    BY <2>1, <2>3
  <2> QED BY <2>1, <2>4, <2>5 DEF l
<1> QED BY <1>1, <1>2, <1>3

LEMMA EmptyJob ==
    ASSUME NEW e, e = <<>>
    PROVE  /\ e \in Seq(Seq(Tasks) \ {<<>>}) /\ e \in Seq(CoderRecs) /\ e \in Seq(Instrs)
           /\ Len(e) = 0 /\ Total(e) = 0 /\ DOMAIN e = {} /\ IsInjective(e)
<1>1. Len(e) = 0 /\ \A S : e \in Seq(S)
  BY EmptySeq
<1>2. DOMAIN e = {}
  OBVIOUS
<1>3. IsInjective(e) /\ Total(e) = 0
  BY EmptyFacts, TotalEmpty
<1> QED BY <1>1, <1>2, <1>3

LEMMA InitJob == OrchInit => JobInv
<1> SUFFICES ASSUME OrchInit  PROVE JobInv
  OBVIOUS
<1>1. /\ pc = "ended" /\ cap \in Caps /\ round = 1 /\ wave = {} /\ cancel = FALSE /\ abort = FALSE
      /\ phases = <<>> /\ coders = <<>> /\ lessons = <<>>
      /\ work = [f \in Files |-> NoText] /\ lastRedo = NoText
  BY DEF OrchInit
<1>2. /\ phases \in Seq(Seq(Tasks) \ {<<>>}) /\ Total(phases) = 0
      /\ coders \in Seq(CoderRecs) /\ Len(coders) = 0 /\ DOMAIN coders = {}
      /\ lessons \in Seq(Instrs) /\ Len(lessons) = 0 /\ IsInjective(lessons)
  BY <1>1, EmptyJob
<1>3. cap \in Nat /\ FileLines \in Nat
  BY <1>1, OrchestrateConstants
<1>4. FlowTyped
  BY <1>1, <1>2 DEF FlowTyped
<1>5. Room
  BY <1>2, <1>3 DEF Room
<1>6. FilesInv
  BY <1>1 DEF FilesInv
<1>7. LessonsInv
  BY <1>1, <1>2, <1>3 DEF LessonsInv
<1> QED BY <1>4, <1>5, <1>6, <1>7 DEF JobInv

LEMMA StartJobKeeps == JobInv /\ StartJob => JobInv'
<1> SUFFICES ASSUME JobInv, StartJob  PROVE JobInv'
  OBVIOUS
<1>1. /\ pc' = "plan" /\ cap' \in Caps /\ round' = 1 /\ wave' = {} /\ cancel' = FALSE /\ abort' = FALSE
      /\ phases' = <<>> /\ coders' = <<>> /\ lessons' = lessons
      /\ work' = [f \in Files |-> NoText] /\ lastRedo' = NoText
  BY DEF StartJob
<1>2. /\ phases' \in Seq(Seq(Tasks) \ {<<>>}) /\ Total(phases') = 0
      /\ coders' \in Seq(CoderRecs) /\ Len(coders') = 0 /\ DOMAIN coders' = {}
  BY <1>1, EmptyJob
<1>3. cap' \in Nat
  BY <1>1, OrchestrateConstants
<1>4. FlowTyped'
  BY <1>1, <1>2 DEF FlowTyped
<1>5. Room'
  BY <1>2, <1>3 DEF Room
<1>6. FilesInv'
  BY <1>1 DEF FilesInv
<1>7. LessonsInv'
  BY <1>1 DEF LessonsInv, JobInv
<1> QED BY <1>4, <1>5, <1>6, <1>7 DEF JobInv

\* Nothing of the job changes but where it is and the flags.
LEMMA KeepJob ==
    ASSUME JobInv, UNCHANGED <<cap, flowVars>>, cancel' \in BOOLEAN, abort' \in BOOLEAN,
           \/ pc' = pc \/ pc' \in {"review", "ended"} \/ (pc = "phase" /\ pc' = "verify")
           \/ pc = "plan" /\ pc' = "flushed"
    PROVE  JobInv'
<1>1. /\ cap' = cap /\ phases' = phases /\ coders' = coders /\ round' = round /\ wave' = wave
      /\ work' = work /\ lessons' = lessons /\ lastRedo' = lastRedo
  BY DEF flowVars
<1>2. pc' \in {"plan", "flushed", "phase", "wave", "verify", "review", "ended"}
  BY DEF JobInv, FlowTyped
<1>3. FlowTyped'
  BY <1>1, <1>2 DEF JobInv, FlowTyped
<1>4. Room'
  BY <1>1 DEF JobInv, Room
<1>5. LessonsInv'
  BY <1>1 DEF JobInv, LessonsInv
<1>6. FilesInv'
  <2>1. ASSUME pc' \in {"plan", "flushed"}  PROVE pc \in {"plan", "flushed"}
    BY <2>1
  <2>2. ASSUME pc' \in {"phase", "verify"}  PROVE pc \in {"phase", "verify"}
    BY <2>2
  <2>3. ASSUME pc' = "wave"  PROVE pc = "wave"
    BY <2>3
  <2> QED BY <1>1, <2>1, <2>2, <2>3 DEF JobInv, FilesInv, LastOf, Declares
<1> QED BY <1>3, <1>4, <1>5, <1>6 DEF JobInv

LEMMA PlanEndKeeps == TextInv /\ JobInv /\ PlanEnd => JobInv'
<1> SUFFICES ASSUME TextInv, JobInv, PlanEnd  PROVE JobInv'
  OBVIOUS
<1>1. /\ pc \in {"plan", "flushed"} /\ pc' = "phase" /\ phases' = ParsePhases(LastPiece, cap)
      /\ cap' = cap /\ coders' = coders /\ round' = round /\ wave' = wave /\ work' = work
      /\ lessons' = lessons /\ lastRedo' = lastRedo /\ cancel' = cancel /\ abort' = abort
  BY DEF PlanEnd
<1>2. coders = <<>> /\ work = [f \in Files |-> NoText]
  BY <1>1 DEF JobInv, FilesInv
<1>3. Len(coders) = 0 /\ DOMAIN coders = {}
  BY <1>2, EmptyJob
<1>4. cap \in Nat \ {0}
  BY OrchestrateConstants DEF JobInv, FlowTyped
<1>5. LastPiece \in Seq(Symbols)
  <2>1. out \in Seq(Symbols) /\ buf \in Seq(Symbols)
    BY DEF TextInv, Filtered
  <2> QED BY <2>1, ConcatElts DEF LastPiece
<1>6. /\ phases' \in Seq(Seq(Tasks) \ {<<>>})
      /\ Total(phases') \in Nat /\ Total(phases') <= cap
  BY <1>1, <1>4, <1>5, ParseFacts
<1>7. FlowTyped'
  BY <1>1, <1>6 DEF JobInv, FlowTyped
<1>8. Room'
  BY <1>1, <1>3, <1>4, <1>6 DEF Room
<1>9. FilesInv'
  <2>1. \A f \in Files : work'[f] = NoText
    BY <1>1, <1>2
  <2>2. DOMAIN coders' = {}
    BY <1>1, <1>3
  <2>3. \A f \in Files : LastOf(f, DOMAIN coders)'
    BY <2>1, <2>2 DEF LastOf
  <2>4. pc' \notin {"plan", "flushed", "wave"}
    BY <1>1
  <2> QED BY <2>3, <2>4 DEF FilesInv
<1>10. LessonsInv'
  BY <1>1 DEF JobInv, LessonsInv
<1> QED BY <1>7, <1>8, <1>9, <1>10 DEF JobInv

LEMMA StartPhaseKeeps == JobInv /\ StartPhase => JobInv'
<1> SUFFICES ASSUME JobInv, StartPhase  PROVE JobInv'
  OBVIOUS
<1> DEFINE h == Head(phases)
           rest == Tail(phases)
           n == Len(h)
           new == [k \in DOMAIN h |-> [task |-> h[k], text |-> NoText, open |-> TRUE]]
           m == Len(coders)
<1>1. /\ pc = "phase" /\ pc' = "wave" /\ phases # <<>> /\ phases' = rest
      /\ coders' = coders \o new /\ wave' = DOMAIN coders' \ DOMAIN coders
      /\ cap' = cap /\ round' = round /\ work' = work
      /\ lessons' = lessons /\ lastRedo' = lastRedo /\ cancel' = cancel /\ abort' = FALSE
  BY DEF StartPhase
<1>2. /\ phases \in Seq(Seq(Tasks) \ {<<>>}) /\ coders \in Seq(CoderRecs) /\ cap \in Caps
      /\ round \in {1, 2} /\ cancel \in BOOLEAN /\ DOMAIN work = Files
  BY DEF JobInv, FlowTyped
<1>3. h \in Seq(Tasks) \ {<<>>} /\ rest \in Seq(Seq(Tasks) \ {<<>>})
  BY <1>1, <1>2, HeadTailProperties
<1>4. phases \in Seq(Seq(Tasks))
  BY <1>2, SeqMonotonic
<1>5. Total(rest) \in Nat /\ n \in Nat /\ Total(phases) = n + Total(rest)
  BY <1>1, <1>4, TotalTail
<1>6. m \in Nat /\ DOMAIN coders = 1 .. m /\ cap \in Nat
  BY <1>2, LenProperties, OrchestrateConstants
<1>7. n \in Nat /\ DOMAIN h = 1 .. n /\ \A k \in 1 .. n : h[k] \in Tasks
  BY <1>3, LenProperties, ElementOfSeq
<1> HIDE DEF h, rest
<1>8. /\ new \in Seq(CoderRecs) /\ Len(new) = n
      /\ \A k \in 1 .. n : new[k].task \in Tasks
  <2>1. new \in [1 .. n -> CoderRecs]
    BY <1>7 DEF CoderRecs
  <2>2. \A k \in 1 .. n : new[k].task \in Tasks
    BY <1>7
  <2> HIDE DEF new, n
  <2> QED BY <1>7, <2>1, <2>2, FromFunction
<1> HIDE DEF new, n
<1> DEFINE all == coders \o new
<1>9. /\ all \in Seq(CoderRecs) /\ Len(all) = m + n
      /\ \A k \in 1 .. m : all[k] = coders[k]
      /\ \A k \in 1 .. n : all[m + k] = new[k]
  <2>1. new \in Seq(CoderRecs)
    BY <1>8
  <2>2. /\ all \in Seq(CoderRecs) /\ Len(all) = m + Len(new)
        /\ \A k \in 1 .. m : all[k] = coders[k]
        /\ \A k \in 1 .. Len(new) : all[m + k] = new[k]
    BY <1>2, <2>1, ConcatElts
  <2> QED BY <1>8, <2>2
<1>10. coders' = all
  BY <1>1
<1> HIDE DEF all, m
<1>11. /\ DOMAIN coders' = 1 .. m + n /\ wave' = (1 .. m + n) \ (1 .. m)
       /\ DOMAIN coders' \ wave' = 1 .. m
  <2>1. DOMAIN coders' = 1 .. m + n
    BY <1>9, <1>10, LenProperties
  <2>2. wave' = (1 .. m + n) \ (1 .. m)
    BY <1>1, <1>6, <2>1
  <2>3. 1 .. m \subseteq 1 .. m + n
    BY <1>6, <1>7
  <2> QED BY <2>1, <2>2, <2>3
<1>12. FlowTyped'
  <2>1. coders' \in Seq(CoderRecs) /\ wave' \subseteq DOMAIN coders'
    BY <1>9, <1>10, <1>11
  <2> QED BY <1>1, <1>2, <1>3, <2>1 DEF FlowTyped
<1>13. Room'
  <2>1. Len(coders) + Total(phases) <= cap
    BY DEF JobInv, Room
  <2>2. Len(coders') + Total(phases') <= cap'
    <3>1. Len(coders') = m + n /\ Total(phases') = Total(rest) /\ cap' = cap
      BY <1>1, <1>9, <1>10
    <3>2. m + (n + Total(rest)) <= cap
      BY <1>5, <2>1 DEF m
    <3> QED BY <1>5, <1>6, <3>1, <3>2
  <2>3. ASSUME round' = 1, NEW k \in DOMAIN coders'  PROVE coders'[k].task \in Tasks
    <3>1. \A j \in 1 .. m : coders[j].task \in Tasks
      BY <1>1, <1>6, <2>3 DEF JobInv, Room
    <3>2. k \in 1 .. m + n
      BY <1>11
    <3>3. CASE k <= m
      <4>1. k \in 1 .. m
        BY <1>6, <3>2, <3>3
      <4> QED BY <1>9, <1>10, <3>1, <4>1
    <3>4. CASE ~ k <= m
      <4>1. k - m \in 1 .. n /\ m + (k - m) = k
        BY <1>6, <1>7, <3>2, <3>4
      <4> QED BY <1>8, <1>9, <1>10, <4>1
    <3> QED BY <3>3, <3>4
  <2> QED BY <2>2, <2>3 DEF Room
<1>14. FilesInv'
  <2>1. \A k \in DOMAIN coders' \ wave', l \in wave' : k < l
    <3>1. \A k \in 1 .. m, l \in (1 .. m + n) \ (1 .. m) : k < l
      BY <1>6, <1>7
    <3> QED BY <1>11, <3>1
  <2>2. ASSUME NEW f \in Files \ Outside  PROVE LastOf(f, DOMAIN coders \ wave)'
    <3>1. LastOf(f, 1 .. m)
      BY <1>1, <1>6 DEF JobInv, FilesInv
    <3>2. \A k \in 1 .. m : coders'[k] = coders[k]
      BY <1>9, <1>10
    <3> DEFINE D == 1 .. m
    <3>3. \A k \in D : coders'[k] = coders[k]
      BY <3>2
    <3> HIDE DEF D
    <3>4. \/ (\A k \in D : ~ Declares(k, f)') /\ work'[f] = NoText
          \/ \E k \in D : /\ Declares(k, f)' /\ work'[f] = coders'[k].text
                          /\ \A l \in D : Declares(l, f)' => l <= k
      BY <1>1, <3>1, <3>3 DEF LastOf, Declares, D
    <3>5. (DOMAIN coders \ wave)' = D
      BY <1>11 DEF D
    <3> QED BY <3>4, <3>5 DEF LastOf
  <2>3. pc' \notin {"plan", "flushed"} /\ pc' # "phase" /\ pc' # "verify"
    BY <1>1
  <2> QED BY <2>1, <2>2, <2>3 DEF FilesInv
<1>15. LessonsInv'
  BY <1>1 DEF JobInv, LessonsInv
<1> QED BY <1>12, <1>13, <1>14, <1>15 DEF JobInv

\* In a wave only its own coders change, and not their tasks.
LEMMA WaveKeeps ==
    ASSUME JobInv, pc = "wave",
           UNCHANGED <<pc, cap, phases, round, wave, work, lessons, lastRedo, cancel, abort>>,
           coders' \in Seq(CoderRecs), Len(coders') = Len(coders),
           \A k \in 1 .. Len(coders) : coders'[k].task = coders[k].task,
           \A k \in 1 .. Len(coders) : k \notin wave => coders'[k] = coders[k]
    PROVE  JobInv'
<1> DEFINE m == Len(coders)
<1>1. m \in Nat /\ DOMAIN coders = 1 .. m /\ DOMAIN coders' = 1 .. m
  BY LenProperties DEF JobInv, FlowTyped
<1>2. FlowTyped'
  <2>1. wave' \subseteq DOMAIN coders'
    BY <1>1 DEF JobInv, FlowTyped
  <2> QED BY <2>1 DEF JobInv, FlowTyped
<1>3. Room'
  BY <1>1 DEF JobInv, Room
<1>4. LessonsInv'
  BY DEF JobInv, LessonsInv
<1>5. FilesInv'
  <2>1. pc' \notin {"plan", "flushed"} /\ pc' # "phase" /\ pc' # "verify"
    OBVIOUS
  <2>2. ASSUME round' = 1
        PROVE  /\ \A k \in DOMAIN coders' \ wave', l \in wave' : k < l
               /\ \A f \in Files \ Outside : LastOf(f, DOMAIN coders \ wave)'
    <3>1. \A k \in DOMAIN coders' \ wave', l \in wave' : k < l
      BY <1>1, <2>2 DEF JobInv, FilesInv
    <3>2. ASSUME NEW f \in Files \ Outside  PROVE LastOf(f, DOMAIN coders \ wave)'
      <4> DEFINE D == DOMAIN coders \ wave
      <4>1. LastOf(f, D)
        BY <2>2 DEF JobInv, FilesInv
      <4>2. \A k \in D : coders'[k] = coders[k]
        BY <1>1
      <4>3. (DOMAIN coders \ wave)' = D
        BY <1>1
      <4> HIDE DEF D
      <4>4. \/ (\A k \in D : ~ Declares(k, f)') /\ work'[f] = NoText
            \/ \E k \in D : /\ Declares(k, f)' /\ work'[f] = coders'[k].text
                            /\ \A l \in D : Declares(l, f)' => l <= k
        BY <4>1, <4>2 DEF LastOf, Declares
      <4> QED BY <4>3, <4>4 DEF LastOf
    <3> QED BY <3>1, <3>2
  <2> QED BY <2>1, <2>2 DEF FilesInv
<1> QED BY <1>2, <1>3, <1>4, <1>5 DEF JobInv

LEMMA AnswerTyped ==
    ASSUME NEW k \in Nat, NEW files \in SUBSET Files, FlowTyped
    PROVE  Answer(k, files) \in Answers
BY DEF Answer, Answers, FlowTyped

LEMMA WaveItemKeeps == JobInv /\ WaveItem => JobInv'
<1> SUFFICES ASSUME JobInv, WaveItem  PROVE JobInv'
  OBVIOUS
<1> DEFINE m == Len(coders)
<1>1. coders \in Seq(CoderRecs) /\ m \in Nat /\ DOMAIN coders = 1 .. m /\ coders \in [1 .. m -> CoderRecs]
      /\ wave \subseteq 1 .. m /\ FlowTyped
  BY LenProperties DEF JobInv, FlowTyped
<1>2. PICK k \in Open, files \in SUBSET Files :
         coders' = [coders EXCEPT ![k].text = Answer(k, files), ![k].open = FALSE]
  BY DEF WaveItem
<1>3. k \in wave /\ k \in 1 .. m
  BY <1>1 DEF Open
<1> DEFINE a == Answer(k, files)
<1>4. a \in Answers
  BY <1>1, <1>3, AnswerTyped
<1> HIDE DEF a
<1>5. coders' = [coders EXCEPT ![k] = [coders[k] EXCEPT !.text = a, !.open = FALSE]]
  BY <1>1, <1>2 DEF a
<1> DEFINE r == [coders[k] EXCEPT !.text = a, !.open = FALSE]
<1>6. r \in CoderRecs /\ r.task = coders[k].task
  <2>1. coders[k] \in CoderRecs
    BY <1>1, <1>3
  <2> QED BY <1>4, <2>1 DEF CoderRecs
<1>7. coders' = [coders EXCEPT ![k] = r]
  BY <1>5
<1> HIDE DEF r
<1>8. coders' \in [1 .. m -> CoderRecs]
  BY <1>1, <1>6, <1>7
<1>9. \A j \in 1 .. m : coders'[j] = IF j = k THEN r ELSE coders[j]
  BY <1>1, <1>7
<1>10. /\ coders' \in Seq(CoderRecs) /\ Len(coders') = m
  BY <1>1, <1>8, FromFunction
<1>11. pc = "wave" /\ UNCHANGED <<pc, cap, phases, round, wave, work, lessons, lastRedo, cancel, abort>>
  BY DEF WaveItem
<1>12. \A j \in 1 .. m : coders'[j].task = coders[j].task /\ (j \notin wave => coders'[j] = coders[j])
  BY <1>3, <1>6, <1>9
<1> QED BY <1>10, <1>11, <1>12, WaveKeeps

LEMMA WaveAbortedKeeps == JobInv /\ WaveAborted => JobInv'
<1> SUFFICES ASSUME JobInv, WaveAborted  PROVE JobInv'
  OBVIOUS
<1> DEFINE m == Len(coders)
<1>1. coders \in Seq(CoderRecs) /\ m \in Nat /\ DOMAIN coders = 1 .. m /\ coders \in [1 .. m -> CoderRecs]
      /\ wave \subseteq 1 .. m /\ FlowTyped
  BY LenProperties DEF JobInv, FlowTyped
<1>2. PICK files \in [Open -> SUBSET Files] :
         coders' = [k \in DOMAIN coders |->
                      IF k \in Open THEN [coders[k] EXCEPT !.text = Answer(k, files[k]), !.open = FALSE]
                      ELSE coders[k]]
  BY DEF WaveAborted
<1> DEFINE r(k) == [coders[k] EXCEPT !.text = Answer(k, files[k]), !.open = FALSE]
<1>3. ASSUME NEW k \in 1 .. m, k \in Open
      PROVE  r(k) \in CoderRecs /\ r(k).task = coders[k].task
  <2>1. coders[k] \in CoderRecs /\ files[k] \in SUBSET Files
    BY <1>1, <1>3
  <2> DEFINE a == Answer(k, files[k])
  <2>2. a \in Answers
    BY <1>1, <2>1, AnswerTyped
  <2> HIDE DEF a
  <2>3. r(k) = [coders[k] EXCEPT !.text = a, !.open = FALSE]
    BY DEF a
  <2> HIDE DEF r
  <2> QED BY <2>1, <2>2, <2>3 DEF CoderRecs
<1>4. coders' = [k \in 1 .. m |-> IF k \in Open THEN r(k) ELSE coders[k]]
  BY <1>1, <1>2
<1> HIDE DEF r
<1>5. coders' \in [1 .. m -> CoderRecs]
  BY <1>1, <1>3, <1>4
<1>6. \A j \in 1 .. m : coders'[j] = IF j \in Open THEN r(j) ELSE coders[j]
  BY <1>4
<1>7. /\ coders' \in Seq(CoderRecs) /\ Len(coders') = m
  BY <1>1, <1>5, FromFunction
<1>8. pc = "wave" /\ UNCHANGED <<pc, cap, phases, round, wave, work, lessons, lastRedo, cancel, abort>>
  BY DEF WaveAborted
<1>9. \A j \in 1 .. m : coders'[j].task = coders[j].task /\ (j \notin wave => coders'[j] = coders[j])
  <2>1. Open \subseteq wave
    BY DEF Open
  <2> QED BY <1>3, <1>6, <2>1
<1> QED BY <1>7, <1>8, <1>9, WaveKeeps

\* A set of natural numbers up to n that has a member has a greatest one.
LEMMA Greatest ==
    ASSUME NEW n \in Nat, NEW F \in SUBSET (0 .. n), NEW e \in F
    PROVE  \E m \in F : (\A x \in F : x <= m) /\ Max(F) = m
<1> DEFINE G == {n - x : x \in F}
<1>1. G \in SUBSET Nat /\ n - e \in G
  OBVIOUS
<1>2. PICK g \in G : \A x \in G : g <= x
  BY <1>1, Least
<1>3. PICK m \in F : g = n - m
  OBVIOUS
<1>4. ASSUME NEW x \in F  PROVE x <= m
  <2>1. n - x \in G
    OBVIOUS
  <2>2. n - m <= n - x
    BY <1>2, <1>3, <2>1
  <2> HIDE DEF G
  <2> QED BY <2>2
<1>5. F \in SUBSET Int
  OBVIOUS
<1>6. Max(F) = m
  <2> HIDE DEF G
  <2> QED BY <1>4, <1>5, MaxIs
<1> QED BY <1>4, <1>6

LEMMA PhaseEndKeeps == JobInv /\ PhaseEnd => JobInv'
<1> SUFFICES ASSUME JobInv, PhaseEnd  PROVE JobInv'
  OBVIOUS
<1>1. /\ pc = "wave" /\ round = 1 /\ pc' = "phase" /\ work' = Written
      /\ UNCHANGED <<cap, phases, coders, round, wave, lessons, lastRedo, cancel, abort>>
  BY DEF PhaseEnd
<1> DEFINE m == Len(coders)
<1>2. m \in Nat /\ DOMAIN coders = 1 .. m /\ wave \subseteq 1 .. m
  BY LenProperties DEF JobInv, FlowTyped
<1>3. DOMAIN work' = Files
  BY <1>1 DEF Written
<1>4. FlowTyped'
  BY <1>1, <1>3 DEF JobInv, FlowTyped
<1>5. Room'
  BY <1>1 DEF JobInv, Room
<1>6. LessonsInv'
  BY <1>1 DEF JobInv, LessonsInv
<1>7. /\ \A k \in (1 .. m) \ wave, l \in wave : k < l
      /\ \A f \in Files \ Outside : LastOf(f, (1 .. m) \ wave)
  BY <1>1, <1>2 DEF JobInv, FilesInv
<1>8. ASSUME NEW f \in Files \ Outside  PROVE LastOf(f, DOMAIN coders)'
  <2> DEFINE D == {k \in wave : Declares(k, f)}
             old == (1 .. m) \ wave
  <2>1. work'[f] = IF \A k \in wave : ~ Declares(k, f) THEN work[f] ELSE coders[Max(D)].text
    BY <1>1 DEF Written
  <2>2. coders' = coders /\ \A k : Declares(k, f)' <=> Declares(k, f)
    BY <1>1 DEF Declares
  <2>3. LastOf(f, old)
    BY <1>7
  <2> SUFFICES \/ (\A k \in 1 .. m : ~ Declares(k, f)) /\ work'[f] = NoText
               \/ \E k \in 1 .. m : /\ Declares(k, f) /\ work'[f] = coders[k].text
                                    /\ \A l \in 1 .. m : Declares(l, f) => l <= k
    BY <1>2, <2>2 DEF LastOf
  <2>4. CASE \A k \in wave : ~ Declares(k, f)
    <3>1. work'[f] = work[f]
      BY <2>1, <2>4
    <3>2. \A k \in 1 .. m : Declares(k, f) => k \in old
      BY <2>4
    <3>3. old \subseteq 1 .. m
      OBVIOUS
    <3> HIDE DEF old, D
    <3> QED BY <2>3, <3>1, <3>2, <3>3 DEF LastOf
  <2>5. CASE ~ \A k \in wave : ~ Declares(k, f)
    <3>1. PICK e \in D : TRUE
      BY <2>5
    <3>2. D \in SUBSET (0 .. m)
      <4>1. D \subseteq wave
        OBVIOUS
      <4>2. 1 .. m \subseteq 0 .. m
        BY <1>2
      <4> HIDE DEF D, m
      <4> QED BY <1>2, <4>1, <4>2
    <3>3. PICK k \in D : (\A x \in D : x <= k) /\ Max(D) = k
      <4> HIDE DEF D
      <4> QED BY <1>2, <3>1, <3>2, Greatest
    <3>4. Declares(k, f) /\ k \in wave /\ k \in 1 .. m
      BY <1>2
    <3>5. work'[f] = coders[k].text
      BY <2>1, <2>5, <3>3
    <3>6. ASSUME NEW l \in 1 .. m, Declares(l, f)  PROVE l <= k
      <4>1. CASE l \in wave
        BY <3>3, <3>6, <4>1
      <4>2. CASE l \notin wave
        <5>1. l < k
          BY <1>7, <3>4, <4>2
        <5>2. l \in Nat /\ k \in Nat
          BY <1>2, <3>4
        <5> HIDE DEF D
        <5> QED BY <5>1, <5>2
      <4> QED BY <4>1, <4>2
    <3> QED BY <3>4, <3>5, <3>6
  <2> QED BY <2>4, <2>5
<1>9. FilesInv'
  <2>1. pc' \notin {"plan", "flushed"} /\ pc' # "wave"
    BY <1>1
  <2> QED BY <1>8, <2>1 DEF FilesInv
<1> QED BY <1>4, <1>5, <1>6, <1>9 DEF JobInv

\* One more lesson: none twice, the new one among them, and the oldest goes.
LEMMA SaveLessonFacts ==
    ASSUME NEW s \in Seq(Instrs), IsInjective(s), Len(s) <= FileLines, NEW i \in Instrs
    PROVE  /\ SaveLesson(s, i) \in Seq(Instrs) /\ IsInjective(SaveLesson(s, i))
           /\ Len(SaveLesson(s, i)) <= FileLines /\ i \in Range(SaveLesson(s, i))
<1>1. FileLines \in Nat \ {0} /\ Len(s) \in Nat
  BY OrchestrateConstants, LenProperties
<1>2. CASE i \in Range(s)
  BY <1>2 DEF SaveLesson
<1>3. CASE i \notin Range(s)
  <2> DEFINE a == Append(s, i)
             m == IF Len(a) > FileLines THEN Len(a) - FileLines ELSE 0
             t == SubSeq(a, m + 1, Len(a))
  <2>1. /\ a \in Seq(Instrs) /\ IsInjective(a) /\ Len(a) = Len(s) + 1
        /\ a[Len(s) + 1] = i
    BY <1>3, AppendFacts
  <2>2. SaveLesson(s, i) = t
    <3>1. SaveLesson(s, i) = LastN(a, FileLines)
      BY <1>3 DEF SaveLesson
    <3>2. Len(a) \in Nat
      BY <1>1, <2>1
    <3> HIDE DEF a
    <3>3. LastN(a, FileLines) = SubSeq(a, IF Len(a) > FileLines THEN Len(a) - FileLines + 1 ELSE 1, Len(a))
      BY DEF LastN
    <3>4. m + 1 = IF Len(a) > FileLines THEN Len(a) - FileLines + 1 ELSE 1
      BY <1>1, <3>2
    <3> HIDE DEF m
    <3> QED BY <3>1, <3>3, <3>4
  <2>3. m \in 0 .. Len(a) /\ Len(a) - m <= FileLines /\ m < Len(a) /\ m \in Nat
    BY <1>1, <2>1
  <2> HIDE DEF a, m
  <2>4. t \in Seq(Instrs) /\ IsInjective(t)
    <3>1. a \in Seq(Instrs) /\ IsInjective(a) /\ m \in 0 .. Len(a)
      BY <2>1, <2>3
    <3> QED BY <3>1, SplitFacts
  <2>5. Len(t) = Len(a) - m /\ \A j \in 1 .. Len(a) - m : t[j] = a[m + j]
    <3> DEFINE u == m + 1
               v == Len(a)
    <3>1. /\ u \in 1 .. Len(a) + 1 /\ v \in 0 .. Len(a) /\ u <= v + 1 /\ v - u + 1 = Len(a) - m
          /\ \A j \in 1 .. Len(a) - m : u + j - 1 = m + j
      BY <1>1, <2>1, <2>3
    <3> HIDE DEF u, v
    <3>2. a \in Seq(Instrs)
      BY <2>1
    <3>3. Len(SubSeq(a, u, v)) = v - u + 1 /\ \A j \in 1 .. v - u + 1 : SubSeq(a, u, v)[j] = a[u + j - 1]
      BY <3>1, <3>2, SliceFacts
    <3> QED BY <3>1, <3>3 DEF u, v
  <2> HIDE DEF t
  <2>6. i \in Range(t)
    <3> DEFINE j == Len(a) - m
    <3>1. j \in 1 .. Len(a) - m /\ m + j = Len(s) + 1 /\ j \in 1 .. Len(t)
      BY <1>1, <2>1, <2>3, <2>5
    <3>2. t[j] = i
      BY <2>1, <2>5, <3>1
    <3>3. DOMAIN t = 1 .. Len(t)
      BY <2>4, LenProperties
    <3> QED BY <3>1, <3>2, <3>3 DEF Range
  <2> QED BY <2>2, <2>3, <2>4, <2>5, <2>6
<1> QED BY <1>2, <1>3

\* The lessons of a verdict, and the last of them among them.
LEMMA SaveLessonsFacts ==
    ASSUME LessonsInv, NEW l \in Nat \ {0}, NEW redos,
           Len(redos) = l, \A k \in 1 .. l : redos[k][2] \in Instrs
    PROVE  /\ SaveLessons(redos) \in Seq(Instrs) /\ IsInjective(SaveLessons(redos))
           /\ Len(SaveLessons(redos)) <= FileLines
           /\ redos[l][2] \in Range(SaveLessons(redos))
<1> DEFINE S == {s \in Seq(Instrs) : IsInjective(s) /\ Len(s) <= FileLines}
           Step(s, k) == SaveLesson(s, redos[k][2])
           z == lessons
           Solves(f) == f = [k \in 0 .. l |-> IF k = 0 THEN z ELSE Step(f[k - 1], k)]
           saved == CHOOSE f : Solves(f)
<1>1. SaveLessons(redos) = saved[l]
  BY DEF SaveLessons
<1>2. z \in S
  BY DEF LessonsInv
<1>3. ASSUME NEW s \in S, NEW k \in 1 .. l
      PROVE  Step(s, k) \in S /\ redos[k][2] \in Range(Step(s, k))
  <2>1. s \in Seq(Instrs) /\ IsInjective(s) /\ Len(s) <= FileLines /\ redos[k][2] \in Instrs
    OBVIOUS
  <2> DEFINE i == redos[k][2]
             t == SaveLesson(s, i)
  <2>2. i \in Instrs
    BY <2>1
  <2> HIDE DEF i
  <2>3. /\ t \in Seq(Instrs) /\ IsInjective(t) /\ Len(t) <= FileLines /\ i \in Range(t)
    BY <2>1, <2>2, SaveLessonFacts
  <2> HIDE DEF t
  <2>4. t \in S /\ i \in Range(t)
    BY <2>3
  <2> QED BY <2>4 DEF t, i
<1> HIDE DEF Step
<1>4. \E f : Solves(f)
  <2> DEFINE G == [k \in 1 .. l |-> [s \in S |-> Step(s, k)]]
  <2>1. Closed(l, S, G)
    BY <1>3 DEF Closed
  <2>2. PICK f \in [0 .. l -> S] : f[0] = z /\ \A k \in 1 .. l : f[k] = G[k][f[k - 1]]
    <3> HIDE DEF G, z, S
    <3>1. HasRun(l, S, z, G)
      BY <1>2, <2>1, Recursion
    <3> QED BY <3>1 DEF HasRun, Runs
  <2> HIDE DEF S, z
  <2>3. ASSUME NEW k \in 0 .. l, k # 0
        PROVE  f[k] = Step(f[k - 1], k)
    <3>1. k \in 1 .. l /\ k - 1 \in 0 .. l
      BY <2>3
    <3>2. f[k - 1] \in S
      BY <3>1
    <3>3. G[k][f[k - 1]] = Step(f[k - 1], k)
      BY <3>1, <3>2
    <3> HIDE DEF G
    <3> QED BY <2>2, <3>1, <3>3
  <2>4. f[0] = z /\ f = [k \in 0 .. l |-> f[k]]
    BY <2>2
  <2>5. Solves(f)
    BY <2>3, <2>4
  <2> QED BY <2>5
<1>5. Solves(saved)
  <2> HIDE DEF Solves
  <2> QED BY <1>4
<1> HIDE DEF saved, z, S
<1> DEFINE P == {k \in 0 .. l : saved[k] \in S}
<1>6. ASSUME NEW k \in 0 .. l - 1
      PROVE  saved[k + 1] = Step(saved[k], k + 1) /\ k + 1 \in 1 .. l /\ k + 1 \in 0 .. l
  <2>1. k + 1 \in 0 .. l /\ k + 1 # 0 /\ (k + 1) - 1 = k /\ k + 1 \in 1 .. l
    OBVIOUS
  <2> QED BY <1>5, <2>1
<1>7. 0 \in P
  BY <1>2, <1>5
<1>8. ASSUME NEW k \in 0 .. l - 1, k \in P  PROVE k + 1 \in P
  BY <1>3, <1>6, <1>8
<1>9. l - 1 \in P
  <2> HIDE DEF P
  <2>1. \A k \in 0 .. l : k \in P
    BY <1>7, <1>8, UpTo
  <2> QED BY <2>1
<1>10. saved[l] = Step(saved[l - 1], l)
  <2>1. l - 1 \in 0 .. l - 1 /\ (l - 1) + 1 = l
    OBVIOUS
  <2> QED BY <1>6, <2>1
<1>11. saved[l] \in S /\ redos[l][2] \in Range(saved[l])
  BY <1>3, <1>9, <1>10
<1> QED BY <1>1, <1>11 DEF S

LEMMA VerifyKeeps == JobInv /\ Verify => JobInv'
<1> SUFFICES ASSUME JobInv, Verify  PROVE JobInv'
  OBVIOUS
<1> DEFINE m == Len(coders)
<1>1. /\ coders \in Seq(CoderRecs) /\ m \in Nat /\ DOMAIN coders = 1 .. m
      /\ coders \in [1 .. m -> CoderRecs]
  BY LenProperties DEF JobInv, FlowTyped
<1>2. /\ pc = "verify"
      /\ UNCHANGED <<cap, phases, work, cancel>>
  BY DEF Verify
<1>3. PICK redos \in Redos :
         \/ /\ redos = <<>> \/ cancel
            /\ pc' = "review" /\ UNCHANGED <<coders, round, wave, lessons, lastRedo, abort>>
         \/ /\ redos # <<>> /\ ~ cancel
            /\ lessons' = SaveLessons(redos)
            /\ lastRedo' = Last(redos)[2]
            /\ wave' = {redos[j][1] : j \in DOMAIN redos} /\ round' = 2
            /\ coders' = [k \in DOMAIN coders |->
                            IF k \notin wave' THEN coders[k]
                            ELSE [task |-> redos[Max({j \in DOMAIN redos : redos[j][1] = k})][2],
                                  text |-> NoText, open |-> TRUE]]
            /\ abort' = FALSE /\ pc' = "wave"
  BY DEF Verify
<1>4. CASE pc' = "review" /\ UNCHANGED <<coders, round, wave, lessons, lastRedo, abort>>
  <2>1. UNCHANGED <<cap, flowVars>> /\ cancel' = cancel /\ abort' = abort
    BY <1>2, <1>4 DEF flowVars
  <2>2. cancel' \in BOOLEAN /\ abort' \in BOOLEAN
    BY <2>1 DEF JobInv, FlowTyped
  <2>3. pc' \in {"review", "ended"}
    BY <1>4
  <2> QED BY <2>1, <2>2, <2>3, KeepJob
<1>5. CASE /\ redos # <<>>
           /\ lessons' = SaveLessons(redos)
           /\ lastRedo' = Last(redos)[2]
           /\ wave' = {redos[j][1] : j \in DOMAIN redos} /\ round' = 2
           /\ coders' = [k \in DOMAIN coders |->
                            IF k \notin wave' THEN coders[k]
                            ELSE [task |-> redos[Max({j \in DOMAIN redos : redos[j][1] = k})][2],
                                  text |-> NoText, open |-> TRUE]]
           /\ abort' = FALSE /\ pc' = "wave"
  <2>1. PICK l \in 0 .. MaxRedos : redos \in [1 .. l -> (1 .. m) \X Instrs]
    BY <1>1 DEF Redos, SeqOf
  <2>2. l \in Nat \ {0} /\ Len(redos) = l /\ DOMAIN redos = 1 .. l
    <3>1. l \in Nat
      BY <2>1, OrchestrateConstants
    <3>2. redos \in Seq((1 .. m) \X Instrs) /\ Len(redos) = l /\ DOMAIN redos = 1 .. l
      BY <2>1, <3>1, FromFunction
    <3>3. l # 0
      <4>1. Len(redos) \in Nat \ {0}
        BY <1>5, <3>2, EmptySeq
      <4> QED BY <3>2, <4>1
    <3> QED BY <3>1, <3>2, <3>3
  <2>3. \A j \in 1 .. l : redos[j][1] \in 1 .. m /\ redos[j][2] \in Instrs
    BY <2>1
  <2>4. wave' \subseteq 1 .. m
    BY <1>5, <2>2, <2>3
  <2> DEFINE T(k) == redos[Max({j \in DOMAIN redos : redos[j][1] = k})][2]
  <2>5. ASSUME NEW k \in wave'  PROVE T(k) \in Instrs
    <3> DEFINE F == {j \in DOMAIN redos : redos[j][1] = k}
    <3>1. PICK e \in F : TRUE
      BY <1>5
    <3>2. F \in SUBSET (1 .. l)
      BY <2>2
    <3>3. F \in SUBSET (0 .. l)
      <4>1. 1 .. l \subseteq 0 .. l
        BY <2>2
      <4> HIDE DEF F
      <4> QED BY <3>2, <4>1
    <3>4. PICK x \in F : Max(F) = x
      <4> HIDE DEF F
      <4> QED BY <2>2, <3>1, <3>3, Greatest
    <3>5. x \in 1 .. l
      BY <3>2
    <3>6. T(k) = redos[x][2]
      BY <3>4
    <3> QED BY <2>3, <3>5, <3>6
  <2>6. coders' = [k \in 1 .. m |-> IF k \notin wave' THEN coders[k]
                                    ELSE [task |-> T(k), text |-> NoText, open |-> TRUE]]
    BY <1>1, <1>5
  <2> HIDE DEF T
  <2>7. ASSUME NEW k \in 1 .. m
        PROVE  (IF k \notin wave' THEN coders[k]
                ELSE [task |-> T(k), text |-> NoText, open |-> TRUE]) \in CoderRecs
    <3>1. CASE k \notin wave'
      BY <1>1, <3>1
    <3>2. CASE k \in wave'
      <4>1. T(k) \in Instrs
        BY <2>5, <3>2
      <4> QED BY <3>2, <4>1 DEF CoderRecs
    <3> QED BY <3>1, <3>2
  <2>8. coders' \in [1 .. m -> CoderRecs]
    BY <2>6, <2>7
  <2>9. coders' \in Seq(CoderRecs) /\ Len(coders') = m /\ DOMAIN coders' = 1 .. m
    BY <1>1, <2>8, FromFunction
  <2>10. FlowTyped'
    <3>1. wave' \subseteq DOMAIN coders'
      BY <2>4, <2>9
    <3>2. pc' = "wave" /\ round' = 2 /\ abort' = FALSE
      BY <1>5
    <3>3. /\ cap' = cap /\ phases' = phases /\ work' = work /\ cancel' = cancel
      BY <1>2
    <3> QED BY <2>9, <3>1, <3>2, <3>3 DEF JobInv, FlowTyped
  <2>11. Room'
    <3>1. round' # 1 /\ cap' = cap /\ phases' = phases
      BY <1>2, <1>5
    <3>2. Len(coders) + Total(phases) <= cap
      BY DEF JobInv, Room
    <3> QED BY <2>9, <3>1, <3>2 DEF Room
  <2>12. FilesInv'
    <3>1. pc' = "wave" /\ round' = 2
      BY <1>5
    <3> QED BY <3>1 DEF FilesInv
  <2>13. LessonsInv'
    <3>1. /\ lessons' = SaveLessons(redos) /\ lastRedo' = redos[l][2]
      BY <1>5, <2>2 DEF Last
    <3>2. LessonsInv
      BY DEF JobInv
    <3>3. /\ SaveLessons(redos) \in Seq(Instrs) /\ IsInjective(SaveLessons(redos))
          /\ Len(SaveLessons(redos)) <= FileLines
          /\ redos[l][2] \in Range(SaveLessons(redos))
      <4>1. \A k \in 1 .. l : redos[k][2] \in Instrs
        BY <2>3
      <4> QED BY <2>2, <3>2, <4>1, SaveLessonsFacts
    <3> QED BY <3>1, <3>3 DEF LessonsInv
  <2> QED BY <2>10, <2>11, <2>12, <2>13 DEF JobInv
<1> QED BY <1>3, <1>4, <1>5

LEMMA StepJob == TextInv /\ JobInv /\ [OrchNext]_orchVars => JobInv'
<1> SUFFICES ASSUME TextInv, JobInv, [OrchNext]_orchVars  PROVE JobInv'
  OBVIOUS
<1>1. cancel \in BOOLEAN /\ abort \in BOOLEAN
  BY DEF JobInv, FlowTyped
<1>2. CASE UNCHANGED orchVars
  <2>1. UNCHANGED <<cap, flowVars>> /\ pc' = pc /\ cancel' = cancel /\ abort' = abort
    BY <1>2 DEF orchVars
  <2> QED BY <1>1, <2>1, KeepJob
<1>3. CASE StartJob
  BY <1>3, StartJobKeeps
<1>4. CASE Stop
  <2>1. UNCHANGED <<cap, flowVars>> /\ pc' = pc
    BY <1>4 DEF Stop
  <2>2. cancel' \in BOOLEAN /\ abort' \in BOOLEAN
    BY <1>1, <1>4 DEF Stop
  <2> QED BY <2>1, <2>2, KeepJob
<1>5. CASE PlanPiece \/ PlanLast \/ Cancelled \/ StartVerify \/ RedoEnd \/ Review \/ Fail
  <2>1. UNCHANGED <<cap, flowVars>> /\ cancel' = cancel /\ abort' = abort
    BY <1>5 DEF PlanPiece, PlanLast, Cancelled, StartVerify, RedoEnd, Review, Fail
  <2>2. \/ pc' = pc \/ pc' \in {"review", "ended"} \/ (pc = "phase" /\ pc' = "verify")
        \/ pc = "plan" /\ pc' = "flushed"
    BY <1>5 DEF PlanPiece, PlanLast, Cancelled, StartVerify, RedoEnd, Review, Fail
  <2> QED BY <1>1, <2>1, <2>2, KeepJob
<1>6. CASE PlanEnd
  BY <1>6, PlanEndKeeps
<1>7. CASE StartPhase
  BY <1>7, StartPhaseKeeps
<1>8. CASE WaveItem
  BY <1>8, WaveItemKeeps
<1>9. CASE WaveAborted
  BY <1>9, WaveAbortedKeeps
<1>10. CASE PhaseEnd
  BY <1>10, PhaseEndKeeps
<1>11. CASE Verify
  BY <1>11, VerifyKeeps
<1> QED BY <1>2, <1>3, <1>4, <1>5, <1>6, <1>7, <1>8, <1>9, <1>10, <1>11 DEF OrchNext, JobStep

-----------------------------------------------------------------------------
\* Over every behaviour of the job (serve.py _run_orchestrate with its filter and
\* its guard) the inductive invariant holds.
THEOREM OrchestrateInvariant == OrchSpec => []OrchInv
<1>1. OrchInit => OrchInv
  <2>1. OrchInit => TextInit
    BY DEF OrchInit
  <2> QED BY <2>1, StartText, InitJob DEF OrchInv
<1>2. OrchInv /\ [OrchNext]_orchVars => OrchInv'
  BY StepText, StepJob DEF OrchInv
<1> QED BY <1>1, <1>2, PTL DEF OrchSpec

\* The types of the job's state, whatever the plan, the pieces and the verdict.
THEOREM OrchestrateTyped == OrchSpec => []OrchTypeOK
<1>1. OrchInv => OrchTypeOK
  <2> SUFFICES ASSUME OrchInv  PROVE OrchTypeOK
    OBVIOUS
  <2>1. mode \in {"sniff", "strip", "pass"} /\ over \in BOOLEAN
    BY DEF OrchInv, TextInv, Filtered, Guarded
  <2>2. Range(lessons) \subseteq Instrs
    <3>1. lessons \in Seq(Instrs)
      BY DEF OrchInv, JobInv, LessonsInv
    <3>2. DOMAIN lessons = 1 .. Len(lessons) /\ \A k \in 1 .. Len(lessons) : lessons[k] \in Instrs
      BY <3>1, LenProperties, ElementOfSeq
    <3> QED BY <3>2 DEF Range
  <2>3. /\ pc \in {"plan", "flushed", "phase", "wave", "verify", "review", "ended"} /\ round \in {1, 2}
        /\ cancel \in BOOLEAN /\ abort \in BOOLEAN /\ wave \subseteq DOMAIN coders
    BY DEF OrchInv, JobInv, FlowTyped
  <2> QED BY <2>1, <2>2, <2>3 DEF OrchTypeOK
<1> QED BY <1>1, OrchestrateInvariant, PTL

\* _strip_thought_stream (serve.py:58-86) shows of a text, however it is cut into
\* pieces, what _strip_thought_text would show of it so far, and holds the rest back.
THEOREM FilterIsExact == OrchSpec => []FilterExact
<1>1. OrchInv => FilterExact
  BY FilteredIsExact DEF OrchInv, TextInv
<1> QED BY <1>1, OrchestrateInvariant, PTL

\* _guard (serve.py:513-520) ends every generation whose text ends in enough copies of
\* one span, although it keeps only the last TailMax symbols.
THEOREM LoopsAreStopped == OrchSpec => []LoopsStopped
<1>1. OrchInv => LoopsStopped
  BY GuardedStops DEF OrchInv, TextInv, Filtered
<1> QED BY <1>1, OrchestrateInvariant, PTL

\* When the answers are verified, each path of the working directory holds what the
\* last coder to declare it wrote, for any number of phases and coders.
THEOREM FilesAreTheCoders == OrchSpec => []FilesOfCoders
<1>1. OrchInv => FilesOfCoders
  <2> SUFFICES ASSUME OrchInv, pc = "verify", NEW f \in Files \ Outside
               PROVE  work[f] = LET by == {k \in DOMAIN coders : Declares(k, f)}
                                IN  IF by = {} THEN NoText ELSE coders[Max(by)].text
    BY DEF FilesOfCoders
  <2> DEFINE by == {k \in DOMAIN coders : Declares(k, f)}
  <2>1. LastOf(f, DOMAIN coders)
    BY DEF OrchInv, JobInv, FilesInv
  <2>2. DOMAIN coders = 1 .. Len(coders) /\ Len(coders) \in Nat
    BY LenProperties DEF OrchInv, JobInv, FlowTyped
  <2>3. CASE (\A k \in DOMAIN coders : ~ Declares(k, f)) /\ work[f] = NoText
    BY <2>3
  <2>4. CASE \E k \in DOMAIN coders : /\ Declares(k, f) /\ work[f] = coders[k].text
                                      /\ \A l \in DOMAIN coders : Declares(l, f) => l <= k
    <3>1. PICK k \in DOMAIN coders : /\ Declares(k, f) /\ work[f] = coders[k].text
                                     /\ \A l \in DOMAIN coders : Declares(l, f) => l <= k
      BY <2>4
    <3>2. by \in SUBSET Int /\ k \in by /\ \A x \in by : x <= k
      BY <2>2, <3>1
    <3> HIDE DEF by
    <3>3. Max(by) = k
      BY <3>2, MaxIs
    <3>4. by # {}
      BY <3>2
    <3> QED BY <3>1, <3>3, <3>4 DEF by
  <2> QED BY <2>1, <2>3, <2>4 DEF LastOf
<1> QED BY <1>1, OrchestrateInvariant, PTL

\* _save_lesson (serve.py:258-275) over all jobs: no more lines than the file may have,
\* none twice, and what was just corrected among them.
THEOREM LessonsAreHeld == OrchSpec => []LessonsHold
<1>1. OrchInv => LessonsHold
  BY DEF OrchInv, JobInv, LessonsInv, LessonsHold
<1> QED BY <1>1, OrchestrateInvariant, PTL

\* n of the request bounds the coders of the whole job, those of later phases included
\* (serve.py:197-225), and no coder of the plan is given a line of list marks alone.
THEOREM CodersWithinCap ==
    OrchSpec => [](/\ Len(coders) <= cap
                   /\ round = 1 => \A k \in DOMAIN coders : coders[k].task # Dash)
<1>1. OrchInv => /\ Len(coders) <= cap
                 /\ round = 1 => \A k \in DOMAIN coders : coders[k].task # Dash
  <2> SUFFICES ASSUME OrchInv
               PROVE  /\ Len(coders) <= cap
                      /\ round = 1 => \A k \in DOMAIN coders : coders[k].task # Dash
    OBVIOUS
  <2>1. Len(coders) + Total(phases) <= cap
    BY DEF OrchInv, JobInv, Room
  <2>2. Len(coders) \in Nat /\ cap \in Nat
    BY LenProperties, OrchestrateConstants DEF OrchInv, JobInv, FlowTyped
  <2>3. Total(phases) \in Nat
    <3>1. phases \in Seq(Seq(Tasks) \ {<<>>})
      BY DEF OrchInv, JobInv, FlowTyped
    <3>2. phases \in Seq(Seq(Tasks))
      BY <3>1, SeqMonotonic
    <3> QED BY <3>2, TotalNat
  <2>4. Len(coders) <= cap
    BY <2>1, <2>2, <2>3
  <2>5. round = 1 => \A k \in DOMAIN coders : coders[k].task # Dash
    BY DEF OrchInv, JobInv, Room, Tasks
  <2> QED BY <2>4, <2>5
<1> QED BY <1>1, OrchestrateInvariant, PTL

\* The orchestrator's plan, whatever it is and however it arrived, becomes at least
\* one coder and at most n, with the tasks of its lines, in their order, in phases
\* that its FASE lines divide, and the first n of them (serve.py:58-86, 197-225).
THEOREM PlanIsSound == OrchSpec => []PlanSound
<1>1. OrchInv => PlanSound
  <2> SUFFICES ASSUME OrchInv  PROVE Faithful(ParsePhases(LastPiece, cap), StripThought(consumed), cap)
    BY DEF PlanSound
  <2> DEFINE plan == LastPiece
  <2>1. plan = StripThought(consumed)
    BY FilteredIsExact DEF OrchInv, TextInv, FilterExact
  <2>2. plan \in Seq(Symbols)
    BY ConcatProperties DEF OrchInv, TextInv, Filtered, LastPiece
  <2>3. cap \in Nat \ {0}
    BY OrchestrateConstants DEF OrchInv, JobInv, FlowTyped
  <2> HIDE DEF plan
  <2>4. Faithful(ParsePhases(plan, cap), plan, cap)
    BY <2>2, <2>3, ParseFaithful
  <2> QED BY <2>1, <2>4 DEF plan
<1> QED BY <1>1, OrchestrateInvariant, PTL
=============================================================================
