------------------------------ MODULE KeyOrders ------------------------------
(***************************************************************************)
(* Facts about the order of an OrderedDict: sequences without repetition,  *)
(* and what move_to_end, popitem and insertion at the end make of them.    *)
(***************************************************************************)
EXTENDS Integers, SequencesExt, SequenceTheorems, FiniteSetTheorems, TLAPS

\* A slice of a sequence, as move_to_end, pop and evictions cut it.
LEMMA SliceFacts ==
    ASSUME NEW S, NEW s \in Seq(S), NEW m \in 1 .. Len(s) + 1, NEW n \in 0 .. Len(s),
           m <= n + 1
    PROVE  /\ SubSeq(s, m, n) \in Seq(S)
           /\ Len(SubSeq(s, m, n)) = n - m + 1
           /\ \A j \in 1 .. n - m + 1 : SubSeq(s, m, n)[j] = s[m + j - 1]
<1>1. Len(s) \in Nat /\ \A j \in 1 .. Len(s) : s[j] \in S
  BY LenProperties, ElementOfSeq
<1>2. m \in Int /\ n \in Int /\ \A j \in m .. n : s[j] \in S
  BY <1>1
<1>3. /\ SubSeq(s, m, n) \in Seq(S)
      /\ Len(SubSeq(s, m, n)) = IF m <= n THEN n - m + 1 ELSE 0
      /\ \A j \in 1 .. n - m + 1 : SubSeq(s, m, n)[j] = s[m + j - 1]
  BY <1>2, SubSeqProperties
<1>4. (IF m <= n THEN n - m + 1 ELSE 0) = n - m + 1
  BY <1>1
<1> QED BY <1>3, <1>4

\* A prefix, element by element.
LEMMA PrefixElts ==
    ASSUME NEW S, NEW s \in Seq(S), NEW t \in Seq(S)
    PROVE  IsPrefix(s, t) <=> Len(s) <= Len(t) /\ \A i \in 1 .. Len(s) : s[i] = t[i]
<1>1. Len(s) \in Nat /\ Len(t) \in Nat
  BY LenProperties
<1> SUFFICES ASSUME Len(s) <= Len(t)
             PROVE  SubSeq(s, 1, Len(s)) = SubSeq(t, 1, Len(s)) <=> \A i \in 1 .. Len(s) : s[i] = t[i]
  BY DEF IsPrefix
<1> DEFINE a == SubSeq(s, 1, Len(s))
           b == SubSeq(t, 1, Len(s))
<1>2. 1 \in 1 .. Len(s) + 1 /\ Len(s) \in 0 .. Len(s) /\ 1 <= Len(s) + 1
      /\ 1 \in 1 .. Len(t) + 1 /\ Len(s) \in 0 .. Len(t)
  BY <1>1
<1>3. a \in Seq(S) /\ Len(a) = Len(s) - 1 + 1 /\ \A j \in 1 .. Len(s) - 1 + 1 : a[j] = s[1 + j - 1]
  BY <1>2, SliceFacts
<1>4. b \in Seq(S) /\ Len(b) = Len(s) - 1 + 1 /\ \A j \in 1 .. Len(s) - 1 + 1 : b[j] = t[1 + j - 1]
  BY <1>2, SliceFacts
<1> HIDE DEF a, b
<1>5. /\ a \in Seq(S) /\ Len(a) = Len(s) /\ \A j \in 1 .. Len(s) : a[j] = s[j]
      /\ b \in Seq(S) /\ Len(b) = Len(s) /\ \A j \in 1 .. Len(s) : b[j] = t[j]
  BY <1>1, <1>3, <1>4
<1>6. a = b => \A i \in 1 .. Len(s) : s[i] = t[i]
  BY <1>5
<1>7. (\A i \in 1 .. Len(s) : s[i] = t[i]) => a = b
  BY <1>5, SeqEqual
<1> QED BY <1>6, <1>7 DEF a, b

\* move_to_end, pop and del take one entry out and leave the others.
LEMMA RemoveAtFacts ==
    ASSUME NEW S, NEW s \in Seq(S), IsInjective(s), NEW i \in DOMAIN s
    PROVE  /\ RemoveAt(s, i) \in Seq(S)
           /\ IsInjective(RemoveAt(s, i))
           /\ Range(RemoveAt(s, i)) = Range(s) \ {s[i]}
           /\ Len(RemoveAt(s, i)) = Len(s) - 1
           /\ \A j \in 1 .. Len(s) - 1 : RemoveAt(s, i)[j] = IF j < i THEN s[j] ELSE s[j + 1]
<1> DEFINE r == RemoveAt(s, i)
           u == SubSeq(s, 1, i - 1)
           v == SubSeq(s, i + 1, Len(s))
<1>1. /\ i \in 1 .. Len(s) /\ Len(s) \in Nat /\ DOMAIN s = 1 .. Len(s)
      /\ \A j \in 1 .. Len(s) : s[j] \in S
  BY LenProperties, ElementOfSeq
<1>a. u \in Seq(S) /\ Len(u) = i - 1 /\ \A j \in 1 .. i - 1 : u[j] = s[j]
  <2>1. /\ u \in Seq(S) /\ Len(u) = (i - 1) - 1 + 1
        /\ \A j \in 1 .. (i - 1) - 1 + 1 : u[j] = s[1 + j - 1]
    BY <1>1, SliceFacts
  <2> QED BY <1>1, <2>1
<1>b. v \in Seq(S) /\ Len(v) = Len(s) - i /\ \A j \in 1 .. Len(s) - i : v[j] = s[i + j]
  <2>1. /\ v \in Seq(S) /\ Len(v) = Len(s) - (i + 1) + 1
        /\ \A j \in 1 .. Len(s) - (i + 1) + 1 : v[j] = s[(i + 1) + j - 1]
    BY <1>1, SliceFacts
  <2> QED BY <1>1, <2>1
<1>c. /\ r \in Seq(S) /\ Len(r) = Len(u) + Len(v)
      /\ \A j \in 1 .. Len(u) + Len(v) :
            r[j] = IF j <= Len(u) THEN u[j] ELSE v[j - Len(u)]
  BY <1>a, <1>b, ConcatProperties DEF RemoveAt
<1> HIDE DEF r, u, v
<1>2. /\ r \in Seq(S) /\ Len(r) = Len(s) - 1
      /\ \A j \in 1 .. Len(s) - 1 : r[j] = IF j < i THEN s[j] ELSE s[j + 1]
  <2>1. Len(u) + Len(v) = Len(s) - 1
    BY <1>1, <1>a, <1>b
  <2>2. ASSUME NEW j \in 1 .. Len(s) - 1, j < i  PROVE r[j] = s[j]
    BY <2>1, <2>2, <1>1, <1>a, <1>c
  <2>3. ASSUME NEW j \in 1 .. Len(s) - 1, ~ (j < i)  PROVE r[j] = s[j + 1]
    <3>1. r[j] = v[j - (i - 1)]
      BY <2>1, <2>3, <1>1, <1>a, <1>c
    <3>2. j - (i - 1) \in 1 .. Len(s) - i /\ i + (j - (i - 1)) = j + 1
      BY <2>3, <1>1
    <3> QED BY <3>1, <3>2, <1>b
  <2> QED BY <2>1, <2>2, <2>3, <1>c
<1>3. IsInjective(r)
  BY <1>1, <1>2, SMTT(30) DEF IsInjective
<1>4. Range(r) = {r[j] : j \in 1 .. Len(r)} /\ Range(s) = {s[j] : j \in 1 .. Len(s)}
  BY <1>2, RangeEquality
<1>5. Range(r) \subseteq Range(s) \ {s[i]}
  BY <1>1, <1>2, <1>4, SMTT(30) DEF IsInjective
<1>6. ASSUME NEW j \in 1 .. Len(s), s[j] # s[i]  PROVE  s[j] \in Range(r)
  <2>1. CASE j < i
    BY <2>1, <1>1, <1>2, <1>4
  <2>2. CASE j > i
    <3>1. j - 1 \in 1 .. Len(r) /\ r[j - 1] = s[j]
      BY <2>2, <1>1, <1>2
    <3> QED BY <3>1, <1>4
  <2> QED BY <2>1, <2>2, <1>6, <1>1
<1> QED BY <1>1, <1>2, <1>3, <1>4, <1>5, <1>6 DEF r

\* Evicting the n oldest entries splits the tier in two.
LEMMA SplitFacts ==
    ASSUME NEW S, NEW s \in Seq(S), IsInjective(s), NEW n \in 0 .. Len(s)
    PROVE  /\ SubSeq(s, n + 1, Len(s)) \in Seq(S)
           /\ IsInjective(SubSeq(s, n + 1, Len(s)))
           /\ Range(SubSeq(s, 1, n)) \in SUBSET S
           /\ Range(SubSeq(s, n + 1, Len(s))) = Range(s) \ Range(SubSeq(s, 1, n))
           /\ Range(SubSeq(s, 1, n)) \subseteq Range(s)
<1> DEFINE old == SubSeq(s, 1, n)
           new == SubSeq(s, n + 1, Len(s))
<1>1. Len(s) \in Nat /\ DOMAIN s = 1 .. Len(s) /\ \A j \in 1 .. Len(s) : s[j] \in S
  BY LenProperties, ElementOfSeq
<1>a. /\ old \in Seq(S) /\ Len(old) = n - 1 + 1
      /\ \A j \in 1 .. n - 1 + 1 : old[j] = s[1 + j - 1]
  BY <1>1, SliceFacts
<1>b. /\ new \in Seq(S) /\ Len(new) = Len(s) - (n + 1) + 1
      /\ \A j \in 1 .. Len(s) - (n + 1) + 1 : new[j] = s[(n + 1) + j - 1]
  <2>1. n + 1 \in 1 .. Len(s) + 1 /\ Len(s) \in 0 .. Len(s) /\ n + 1 <= Len(s) + 1
    BY <1>1
  <2> QED BY <2>1, SliceFacts
<1> HIDE DEF old, new
<1>2. /\ old \in Seq(S) /\ Len(old) = n /\ \A j \in 1 .. n : old[j] = s[j]
      /\ new \in Seq(S) /\ Len(new) = Len(s) - n
      /\ \A j \in 1 .. Len(s) - n : new[j] = s[n + j]
  BY <1>1, <1>a, <1>b
<1>c. DOMAIN new = 1 .. Len(s) - n
  BY <1>2, LenProperties
<1>3. IsInjective(new)
  <2> SUFFICES ASSUME NEW p \in 1 .. Len(s) - n, NEW q \in 1 .. Len(s) - n, new[p] = new[q]
               PROVE  p = q
    BY <1>c DEF IsInjective
  <2>1. s[n + p] = s[n + q] /\ n + p \in DOMAIN s /\ n + q \in DOMAIN s
    BY <1>1, <1>2
  <2>2. n + p = n + q
    BY <2>1 DEF IsInjective
  <2> QED BY <2>2, <1>1
<1>4. /\ Range(old) = {old[j] : j \in 1 .. Len(old)}
      /\ Range(new) = {new[j] : j \in 1 .. Len(new)}
      /\ Range(s) = {s[j] : j \in 1 .. Len(s)}
  BY <1>2, RangeEquality
<1>5. Range(old) \subseteq Range(s)
  BY <1>1, <1>2, <1>4
<1>6. Range(new) \subseteq Range(s) \ Range(old)
  <2> SUFFICES ASSUME NEW p \in 1 .. Len(s) - n  PROVE new[p] \in Range(s) \ Range(old)
    BY <1>2, <1>4
  <2>1. new[p] = s[n + p] /\ n + p \in 1 .. Len(s)
    BY <1>1, <1>2
  <2>2. ASSUME NEW q \in 1 .. n, s[n + p] = s[q]  PROVE FALSE
    <3>1. q \in DOMAIN s /\ n + p \in DOMAIN s
      BY <1>1, <2>1
    <3>2. n + p = q
      BY <3>1, <2>2 DEF IsInjective
    <3> QED BY <3>2, <1>1
  <2> QED BY <2>1, <2>2, <1>2, <1>4
<1>7. ASSUME NEW j \in 1 .. Len(s), s[j] \notin Range(old)  PROVE s[j] \in Range(new)
  <2>1. j > n
    BY <1>7, <1>1, <1>2, <1>4
  <2>2. j - n \in 1 .. Len(s) - n /\ n + (j - n) = j
    BY <2>1, <1>1
  <2>3. j - n \in 1 .. Len(new) /\ new[j - n] = s[j]
    BY <2>2, <1>2
  <2> QED BY <2>3, <1>4
<1>8. Range(old) \in SUBSET S
  BY <1>1, <1>2, <1>4
<1>9. Range(new) = Range(s) \ Range(old)
  <2>1. ASSUME NEW x \in Range(s) \ Range(old)  PROVE x \in Range(new)
    <3>1. PICK j \in 1 .. Len(s) : x = s[j]
      BY <2>1, <1>4
    <3> QED BY <3>1, <2>1, <1>7
  <2> QED BY <2>1, <1>6
<1> QED BY <1>2, <1>3, <1>5, <1>8, <1>9, Zenon DEF old, new

\* A tier with no entry.
LEMMA EmptyFacts == Range(<<>>) = {} /\ IsInjective(<<>>)
<1> DEFINE e == <<>>
<1>1. e \in Seq({}) /\ Len(e) = 0
  BY EmptySeq
<1> HIDE DEF e
<1>2. DOMAIN e = {}
  BY <1>1, LenProperties
<1> QED BY <1>2 DEF Range, IsInjective, e

\* A new entry goes to the end.
LEMMA AppendFacts ==
    ASSUME NEW S, NEW s \in Seq(S), IsInjective(s), NEW k \in S, k \notin Range(s)
    PROVE  /\ Append(s, k) \in Seq(S)
           /\ IsInjective(Append(s, k))
           /\ Range(Append(s, k)) = Range(s) \cup {k}
           /\ Len(Append(s, k)) = Len(s) + 1
           /\ \A j \in 1 .. Len(s) : Append(s, k)[j] = s[j]
           /\ Append(s, k)[Len(s) + 1] = k
<1> DEFINE a == Append(s, k)
<1>1. /\ a \in Seq(S) /\ Len(a) = Len(s) + 1 /\ Len(s) \in Nat
      /\ \A j \in 1 .. Len(s) : a[j] = s[j]
      /\ a[Len(s) + 1] = k
  BY AppendProperties, LenProperties
<1>2. Range(a) = {a[j] : j \in 1 .. Len(a)} /\ Range(s) = {s[j] : j \in 1 .. Len(s)}
  BY <1>1, RangeEquality
<1>3. IsInjective(a)
  BY <1>1, <1>2, SMTT(30) DEF IsInjective
<1>4. Range(a) = Range(s) \cup {k}
  BY <1>1, <1>2, SMTT(30)
<1> QED BY <1>1, <1>3, <1>4

\* popitem(last=False) takes the oldest entry out.
LEMMA TailFacts ==
    ASSUME NEW S, NEW s \in Seq(S), IsInjective(s), s # <<>>
    PROVE  /\ Tail(s) \in Seq(S)
           /\ IsInjective(Tail(s))
           /\ Len(Tail(s)) = Len(s) - 1 /\ Len(s) \in Nat \ {0}
           /\ \A j \in 1 .. Len(s) - 1 : Tail(s)[j] = s[j + 1]
           /\ Head(s) = s[1] /\ Head(s) \in Range(s)
           /\ Range(Tail(s)) = Range(s) \ {Head(s)}
<1>1. /\ Tail(s) \in Seq(S) /\ Len(Tail(s)) = Len(s) - 1
      /\ \A j \in 1 .. Len(Tail(s)) : Tail(s)[j] = s[j + 1]
  BY HeadTailProperties
<1>2. Len(s) \in Nat \ {0} /\ DOMAIN s = 1 .. Len(s) /\ Head(s) = s[1]
  BY LenProperties, EmptySeq
<1>3. /\ Range(Tail(s)) = {Tail(s)[j] : j \in 1 .. Len(Tail(s))}
      /\ Range(s) = {s[j] : j \in 1 .. Len(s)}
      /\ DOMAIN Tail(s) = 1 .. Len(Tail(s))
  BY <1>1, RangeEquality, LenProperties
<1>4. IsInjective(Tail(s))
  BY <1>1, <1>2, <1>3, SMTT(30) DEF IsInjective
<1>5. Range(Tail(s)) \subseteq Range(s) \ {Head(s)}
  BY <1>1, <1>2, <1>3, SMTT(30) DEF IsInjective
<1>6. ASSUME NEW j \in 1 .. Len(s), s[j] # s[1]  PROVE s[j] \in Range(Tail(s))
  <2>1. j - 1 \in 1 .. Len(Tail(s)) /\ Tail(s)[j - 1] = s[j]
    BY <1>1, <1>2, <1>6
  <2> QED BY <2>1, <1>3
<1>7. Range(Tail(s)) = Range(s) \ {Head(s)}
  BY <1>2, <1>3, <1>5, <1>6
<1>8. Head(s) \in Range(s)
  BY <1>2, <1>3
<1> QED BY <1>1, <1>2, <1>4, <1>7, <1>8

\* An order all of whose keys are in T is no longer than T is large.
LEMMA LenBound ==
    ASSUME NEW S, NEW s \in Seq(S), IsInjective(s), NEW T, IsFiniteSet(T), Range(s) \subseteq T
    PROVE  Len(s) <= Cardinality(T)
<1>1. Len(s) \in Nat /\ DOMAIN s = 1 .. Len(s) /\ s \in [1 .. Len(s) -> S]
  BY LenProperties
<1>2. \A j \in 1 .. Len(s) : s[j] \in T
  BY <1>1 DEF Range
<1>3. s \in Injection(1 .. Len(s), T)
  BY <1>1, <1>2 DEF Injection
<1>4. Cardinality(1 .. Len(s)) <= Cardinality(T)
  BY <1>3, FS_Injection
<1>5. Cardinality(1 .. Len(s)) = Len(s)
  BY <1>1, FS_Interval
<1> QED BY <1>4, <1>5
\* Induction up to a bound, which the pigeonhole principle gives in first-order
\* form: what holds at 0 and passes on from each number to the next holds up to
\* the bound.
LEMMA UpTo ==
    ASSUME NEW n \in Nat, NEW P, 0 \in P,
           \A l \in 0 .. n - 1 : l \in P => l + 1 \in P
    PROVE  \A l \in 0 .. n : l \in P
<1> SUFFICES ASSUME NEW k \in 0 .. n, k \notin P  PROVE FALSE
  OBVIOUS
<1> DEFINE Q == (1 .. k) \ P
           D == Q \ {k}
           down == [l \in Q |-> l - 1]
<1>1. k \in Q
  BY SMT
<1>2. IsFiniteSet(Q)
  <2>1. IsFiniteSet(1 .. k)
    BY FS_Interval
  <2>2. Q \subseteq 1 .. k
    OBVIOUS
  <2> QED BY <2>1, <2>2, FS_Subset
<1>3. IsFiniteSet(D) /\ Cardinality(D) = Cardinality(Q) - 1 /\ Cardinality(Q) \in Nat
  BY <1>1, <1>2, FS_RemoveElement, FS_CardinalityType
<1>4. down \in [Q -> D]
  BY SMT
<1>5. \A x, y \in Q : down[x] = down[y] => x = y
  BY SMT
<1> HIDE DEF Q, D, down
<1> QED BY <1>2, <1>3, <1>4, <1>5, FS_PigeonHole

=============================================================================
