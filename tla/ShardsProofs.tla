----------------------------- MODULE ShardsProofs -----------------------------
(***************************************************************************)
(* Proofs about shards.py for any layers, experts, array sizes, component  *)
(* lists and checkpoints, however often the converter is killed and run    *)
(* again: a shard that is there reads back as its expert, stays readable   *)
(* while it is replaced, and a run that succeeds has written them all.     *)
(*                                                                         *)
(* The heart is Written(data, id, p), what a file holds after p of its     *)
(* pieces: each piece keeps it, and once all are there the offsets of the  *)
(* header lead read_shard to the rows of the very arrays it names.         *)
(***************************************************************************)
EXTENDS Shards, KeyOrders

NPieces == Len(Names) + 2
Size(p) == CASE p = 0 -> 0 [] p = 1 -> 1 [] OTHER -> 2 + Offset[p - 1]

Written(data, id, p) ==
    /\ data \in Seq(Cells) /\ Len(data) = Size(p)
    /\ p >= 1 => data[1] = Magic
    /\ p >= 2 => data[2] = Header
    /\ \A k \in 1 .. p - 2 : \A r \in 1 .. Rows[Names[k]] :
          data[2 + Offset[k] + r] = [of |-> id, name |-> Names[k], row |-> r]

Id(m, l, e) == [model |-> m, layer |-> l, expert |-> e]
Shard(l, e, m) == Written(disk[Path(l, e, "bin")], Id(m, l, e), NPieces)

-----------------------------------------------------------------------------
\* The inductive invariant.

Typed ==
    /\ disk \in [Paths -> Seq(Cells) \cup {NoFile}]
    /\ pc \in Idle \cup {"load", "flush", "open", "write"}
    /\ model \in Checkpoints /\ layer \in Layers /\ expert \in Experts
    /\ file \in 0 .. NFiles /\ staging \in [Layers -> SUBSET Arrays]
    /\ piece \in 1 .. NPieces + 1 /\ arrived \subseteq Layers

Readable ==
    \A l \in Layers, e \in Experts :
       disk[Path(l, e, "bin")] # NoFile => \E m \in Checkpoints : Shard(l, e, m)

InTmp == pc = "write" => Written(disk[Tmp], Id(model, layer, expert), piece - 1)

\* A layer this run has seen is still staged, being written or all on disk.
Left(l, e) == pc \in {"open", "write"} /\ l = layer /\ e >= expert
Flushed ==
    \A l \in arrived, e \in Experts : staging[l] = {} /\ ~ Left(l, e) => Shard(l, e, model)

ShardsInv ==
    /\ Typed /\ Readable /\ InTmp /\ Flushed
    /\ pc = "done" => \A l \in Layers : staging[l] = {}
-----------------------------------------------------------------------------
\* The names of the arrays and the offsets of the header.

LEMMA Components3 ==
    /\ Components \in Seq(Range(Components)) /\ Len(Components) \in Nat
    /\ DOMAIN Components = 1 .. Len(Components)
    /\ \A n : n \in Arrays <=> \E part \in {"gate_proj", "up_proj", "down_proj"} :
                                \E c \in 1 .. Len(Components) : n = <<part, Components[c]>>
<1>1. /\ Components \in Seq(Range(Components)) /\ Len(Components) \in Nat
      /\ DOMAIN Components = 1 .. Len(Components)
  BY ShardConstants, LenProperties
<1>2. DOMAIN Parts = {1, 2, 3} /\ Parts[1] = "gate_proj" /\ Parts[2] = "up_proj" /\ Parts[3] = "down_proj"
  BY DEF Parts
<1>3. \A n : n \in Arrays <=> \E p \in {1, 2, 3}, c \in 1 .. Len(Components) :
                                 n = <<Parts[p], Components[c]>>
  BY <1>1, <1>2 DEF Arrays
<1> QED BY <1>1, <1>2, <1>3

LEMMA NamesOfFacts ==
    ASSUME NEW part \in {"gate_proj", "up_proj", "down_proj"}
    PROVE  /\ NamesOf(part) \in Seq(Arrays) /\ Len(NamesOf(part)) = Len(Components)
           /\ \A c \in 1 .. Len(Components) : NamesOf(part)[c] = <<part, Components[c]>>
<1>1. \A c \in 1 .. Len(Components) : <<part, Components[c]>> \in Arrays
  BY Components3
<1>2. NamesOf(part) \in [1 .. Len(Components) -> Arrays]
  BY <1>1 DEF NamesOf
<1> QED BY <1>2, Components3, SMT DEF NamesOf

\* Names runs through all arrays.
LEMMA NamesFacts ==
    /\ Names \in Seq(Arrays) /\ Len(Names) \in Nat /\ DOMAIN Names = 1 .. Len(Names)
    /\ \A k \in 1 .. Len(Names) : Names[k] \in Arrays /\ Rows[Names[k]] \in Nat
    /\ \A n \in Arrays : \E k \in 1 .. Len(Names) : Names[k] = n
<1> DEFINE N == Len(Components)
           g == NamesOf("gate_proj")
           u == NamesOf("up_proj")
           d == NamesOf("down_proj")
<1>1. N \in Nat
  BY Components3
<1>2. g \in Seq(Arrays) /\ Len(g) = N /\ \A c \in 1 .. N : g[c] = <<"gate_proj", Components[c]>>
  BY NamesOfFacts
<1>3. u \in Seq(Arrays) /\ Len(u) = N /\ \A c \in 1 .. N : u[c] = <<"up_proj", Components[c]>>
  BY NamesOfFacts
<1>4. d \in Seq(Arrays) /\ Len(d) = N /\ \A c \in 1 .. N : d[c] = <<"down_proj", Components[c]>>
  BY NamesOfFacts
<1>5. Names = (g \o u) \o d
  BY DEF Names
<1> HIDE DEF N, g, u, d
<1> DEFINE gu == g \o u
<1>6. gu \in Seq(Arrays) /\ Len(gu) = N + N
      /\ \A k \in 1 .. N + N : gu[k] = IF k <= N THEN g[k] ELSE u[k - N]
  <2>1. /\ g \o u \in Seq(Arrays) /\ Len(g \o u) = Len(g) + Len(u)
        /\ \A k \in 1 .. Len(g) + Len(u) : (g \o u)[k] = IF k <= Len(g) THEN g[k] ELSE u[k - Len(g)]
    BY <1>2, <1>3, ConcatProperties
  <2> QED BY <1>2, <1>3, <2>1
<1> HIDE DEF gu
<1>7. Names \in Seq(Arrays) /\ Len(Names) = N + N + N
      /\ \A k \in 1 .. N + N + N : Names[k] = IF k <= N + N THEN gu[k] ELSE d[k - (N + N)]
  <2>1. /\ gu \o d \in Seq(Arrays) /\ Len(gu \o d) = Len(gu) + Len(d)
        /\ \A k \in 1 .. Len(gu) + Len(d) : (gu \o d)[k] = IF k <= Len(gu) THEN gu[k] ELSE d[k - Len(gu)]
    <3>1. gu \in Seq(Arrays) /\ d \in Seq(Arrays)
      BY <1>4, <1>6
    <3> QED BY <3>1, ConcatProperties
  <2> QED BY <1>4, <1>5, <1>6, <2>1 DEF gu
<1>8. ASSUME NEW n \in Arrays
      PROVE  \E k \in 1 .. Len(Names) : Names[k] = n
  <2>1. PICK part \in {"gate_proj", "up_proj", "down_proj"}, c \in 1 .. N : n = <<part, Components[c]>>
    BY Components3 DEF N
  <2>2. CASE part = "gate_proj"
    <3>1. c \in 1 .. Len(Names) /\ Names[c] = n
      BY <1>1, <1>2, <1>6, <1>7, <2>1, <2>2
    <3> QED BY <3>1
  <2>3. CASE part = "up_proj"
    <3>1. N + c \in 1 .. N + N /\ ~ N + c <= N /\ (N + c) - N = c
      BY <1>1
    <3>2. gu[N + c] = u[c]
      BY <1>6, <3>1
    <3>3. N + c \in 1 .. N + N + N /\ N + c <= N + N
      BY <1>1
    <3>4. N + c \in 1 .. Len(Names) /\ Names[N + c] = n
      BY <1>3, <1>7, <2>1, <2>3, <3>2, <3>3
    <3> QED BY <3>4
  <2>4. CASE part = "down_proj"
    <3>1. N + N + c \in 1 .. N + N + N /\ ~ N + N + c <= N + N /\ (N + N + c) - (N + N) = c
      BY <1>1
    <3>2. N + N + c \in 1 .. Len(Names) /\ Names[N + N + c] = n
      BY <1>4, <1>7, <2>1, <2>4, <3>1
    <3> QED BY <3>2
  <2> QED BY <2>1, <2>2, <2>3, <2>4
<1>9. Len(Names) \in Nat /\ DOMAIN Names = 1 .. Len(Names)
      /\ \A k \in 1 .. Len(Names) : Names[k] \in Arrays
  BY <1>7, LenProperties, ElementOfSeq
<1> QED BY <1>7, <1>8, <1>9, ShardConstants

\* The recursion that defines Offset has a solution.
LEMMA OffsetDefined ==
    Offset = [k \in 1 .. Len(Names) + 1 |-> IF k = 1 THEN 0 ELSE Offset[k - 1] + Rows[Names[k - 1]]]
<1> DEFINE L == Len(Names)
           Next(f, k) == IF k = 1 THEN 0 ELSE f[k - 1] + Rows[Names[k - 1]]
           Solves(f, n) == f = [k \in 1 .. n + 1 |-> Next(f, k)]
           P == {n \in 0 .. L : \E f : Solves(f, n)}
<1>1. L \in Nat
  BY NamesFacts
<1>2. 0 \in P
  <2> DEFINE f == [k \in 1 .. 1 |-> 0]
  <2>1. \A k \in 1 .. 1 : Next(f, k) = 0
    OBVIOUS
  <2>2. 0 + 1 = 1 /\ 0 \in 0 .. L
    BY <1>1
  <2>3. f = [k \in 1 .. 1 |-> Next(f, k)]
    BY <2>1
  <2>4. Solves(f, 0)
    BY <2>2, <2>3
  <2> QED BY <2>2, <2>4
<1>3. ASSUME NEW n \in 0 .. L - 1, n \in P
      PROVE  n + 1 \in P
  <2>1. PICK f : Solves(f, n)
    BY <1>3
  <2> DEFINE g == [k \in 1 .. n + 2 |-> IF k = n + 2 THEN f[n + 1] + Rows[Names[n + 1]] ELSE f[k]]
  <2>2. \A k \in 1 .. n + 1 : f[k] = Next(f, k) /\ g[k] = f[k]
    BY <1>1, <2>1
  <2>3. ASSUME NEW k \in 1 .. n + 2  PROVE g[k] = Next(g, k)
    <3>1. CASE k = 1
      <4>2. 1 \in 1 .. n + 1 /\ 1 \in 1 .. n + 2 /\ 1 # n + 2
        BY <1>1
      <4>3. f[1] = Next(f, 1)
        BY <2>2, <4>2
      <4>1. g[k] = f[1] /\ f[1] = 0
        BY <3>1, <4>2, <4>3
      <4> QED BY <3>1, <4>1
    <3>2. CASE k # 1 /\ k # n + 2
      <4>1. k \in 1 .. n + 1 /\ k - 1 \in 1 .. n + 1
        BY <1>1, <3>2
      <4>2. g[k] = f[k] /\ f[k] = f[k - 1] + Rows[Names[k - 1]] /\ g[k - 1] = f[k - 1]
        BY <2>2, <3>2, <4>1
      <4> QED BY <3>2, <4>2
    <3>3. CASE k = n + 2
      <4>1. k - 1 = n + 1 /\ n + 1 \in 1 .. n + 1 /\ k # 1
        BY <1>1, <3>3
      <4>2. g[k] = f[n + 1] + Rows[Names[n + 1]]
        BY <3>3
      <4>3. g[n + 1] = f[n + 1]
        BY <2>2, <4>1
      <4> HIDE DEF g
      <4> QED BY <4>1, <4>2, <4>3
    <3> QED BY <3>1, <3>2, <3>3
  <2>4. g = [k \in 1 .. n + 2 |-> g[k]]
    OBVIOUS
  <2> HIDE DEF g
  <2>5. g = [k \in 1 .. n + 2 |-> Next(g, k)]
    BY <2>3, <2>4
  <2>6. (n + 1) + 1 = n + 2 /\ n + 1 \in 0 .. L
    BY <1>1
  <2>7. Solves(g, n + 1)
    BY <2>5, <2>6
  <2> QED BY <2>6, <2>7
<1>4. \A n \in 0 .. L : n \in P
  <2> HIDE DEF P
  <2> QED BY <1>1, <1>2, <1>3, UpTo
<1>5. \E f : Solves(f, L)
  <2>1. L \in P
    BY <1>1, <1>4
  <2> HIDE DEF Solves
  <2> QED BY <2>1
<1>6. Offset = CHOOSE f : Solves(f, L)
  BY DEF Offset
<1>7. Solves(Offset, L)
  <2> HIDE DEF Solves
  <2> QED BY <1>5, <1>6
<1> QED BY <1>7

LEMMA OffsetFacts ==
    /\ \A k \in 1 .. Len(Names) + 1 : Offset[k] \in Nat
    /\ Offset[1] = 0
    /\ \A k \in 1 .. Len(Names) : Offset[k + 1] = Offset[k] + Rows[Names[k]]
<1> DEFINE L == Len(Names)
           P == {n \in 0 .. L : Offset[n + 1] \in Nat}
<1>1. L \in Nat /\ \A k \in 1 .. L : Rows[Names[k]] \in Nat
  BY NamesFacts
<1>2. Offset[1] = 0
  <2>1. 1 \in 1 .. L + 1
    BY <1>1
  <2> QED BY <2>1, OffsetDefined
<1>3. ASSUME NEW k \in 1 .. L
      PROVE  Offset[k + 1] = Offset[k] + Rows[Names[k]]
  <2>1. k + 1 \in 1 .. L + 1 /\ k + 1 # 1 /\ (k + 1) - 1 = k
    BY <1>1
  <2> QED BY <2>1, OffsetDefined
<1>4. 0 \in P
  BY <1>1, <1>2
<1>5. ASSUME NEW n \in 0 .. L - 1, n \in P
      PROVE  n + 1 \in P
  <2>1. n + 1 \in 1 .. L /\ n + 1 \in 0 .. L
    BY <1>1
  <2>2. Offset[(n + 1) + 1] = Offset[n + 1] + Rows[Names[n + 1]]
    BY <1>3, <2>1
  <2> QED BY <1>1, <1>5, <2>1, <2>2
<1>6. \A n \in 0 .. L : n \in P
  <2> HIDE DEF P
  <2> QED BY <1>1, <1>4, <1>5, UpTo
<1>7. ASSUME NEW k \in 1 .. L + 1  PROVE Offset[k] \in Nat
  <2>1. k - 1 \in 0 .. L /\ (k - 1) + 1 = k
    BY <1>1
  <2> QED BY <1>6, <2>1
<1> QED BY <1>2, <1>3, <1>7

\* Offsets grow, so no array reaches beyond the last.
LEMMA OffsetGrows ==
    ASSUME NEW k \in 1 .. Len(Names) + 1, NEW l \in 1 .. Len(Names) + 1, k <= l
    PROVE  Offset[k] <= Offset[l]
<1> DEFINE L == Len(Names)
           n == L + 1 - k
           P == {j \in 0 .. n : Offset[k] <= Offset[k + j]}
<1>1. L \in Nat /\ n \in Nat /\ k \in Nat
  BY NamesFacts
<1>2. 0 \in P
  <2>1. k + 0 = k /\ 0 \in 0 .. n /\ Offset[k] \in Nat
    BY <1>1, OffsetFacts
  <2> QED BY <2>1
<1>3. ASSUME NEW j \in 0 .. n - 1, j \in P
      PROVE  j + 1 \in P
  <2>1. k + j \in 1 .. L /\ j + 1 \in 0 .. n /\ k + (j + 1) = (k + j) + 1
        /\ k + j \in 1 .. L + 1 /\ (k + j) + 1 \in 1 .. L + 1
    BY <1>1
  <2>2. Offset[(k + j) + 1] = Offset[k + j] + Rows[Names[k + j]] /\ Rows[Names[k + j]] \in Nat
    BY <2>1, OffsetFacts, NamesFacts
  <2>3. Offset[k] \in Nat /\ Offset[k + j] \in Nat /\ Offset[(k + j) + 1] \in Nat
    BY <2>1, OffsetFacts
  <2>4. Offset[k] <= Offset[k + j]
    BY <1>3
  <2>5. Offset[k] <= Offset[k + (j + 1)]
    BY <2>1, <2>2, <2>3, <2>4
  <2> QED BY <2>1, <2>5
<1>4. \A j \in 0 .. n : j \in P
  <2> HIDE DEF P, n
  <2> QED BY <1>1, <1>2, <1>3, UpTo
<1>5. l - k \in 0 .. n /\ k + (l - k) = l
  BY <1>1
<1> HIDE DEF n
<1> QED BY <1>4, <1>5
-----------------------------------------------------------------------------
\* What a file holds, piece after piece.

LEMMA BlobFacts ==
    ASSUME NEW id \in Ids, NEW name \in Arrays
    PROVE  /\ Blob(id, name) \in Seq(Cells) /\ Len(Blob(id, name)) = Rows[name] /\ Rows[name] \in Nat
           /\ \A r \in 1 .. Rows[name] : Blob(id, name)[r] = [of |-> id, name |-> name, row |-> r]
<1>1. Rows[name] \in Nat
  BY ShardConstants
<1>2. \A r \in 1 .. Rows[name] : [of |-> id, name |-> name, row |-> r] \in Cells
  BY <1>1 DEF Cells
<1>3. Blob(id, name) \in [1 .. Rows[name] -> Cells]
  BY <1>2 DEF Blob
<1> QED BY <1>1, <1>3, SMT DEF Blob

LEMMA PiecesFacts ==
    ASSUME NEW id \in Ids
    PROVE  /\ Len(Pieces(id)) = NPieces /\ NPieces \in Nat
           /\ Pieces(id)[1] = <<Magic>> /\ Pieces(id)[2] = <<Header>>
           /\ \A k \in 1 .. Len(Names) : Pieces(id)[k + 2] = Blob(id, Names[k])
<1> DEFINE two == <<<<Magic>>, <<Header>>>>
           rest == [k \in 1 .. Len(Names) |-> Blob(id, Names[k])]
<1>1. Magic \in Cells /\ Header \in Cells /\ Len(Names) \in Nat
  BY NamesFacts DEF Cells
<1>2. two \in Seq(Seq(Cells)) /\ Len(two) = 2 /\ two[1] = <<Magic>> /\ two[2] = <<Header>>
  BY <1>1
<1>3. rest \in [1 .. Len(Names) -> Seq(Cells)]
  BY NamesFacts, BlobFacts
<1>4. rest \in Seq(Seq(Cells)) /\ Len(rest) = Len(Names)
      /\ \A k \in 1 .. Len(Names) : rest[k] = Blob(id, Names[k])
  BY <1>1, <1>3, SMT
<1>5. Pieces(id) = two \o rest
  BY DEF Pieces
<1> HIDE DEF two, rest
<1>6. /\ Len(two \o rest) = Len(two) + Len(rest)
      /\ \A k \in 1 .. Len(two) + Len(rest) :
            (two \o rest)[k] = IF k <= Len(two) THEN two[k] ELSE rest[k - Len(two)]
  <2>1. two \in Seq(Seq(Cells)) /\ rest \in Seq(Seq(Cells))
    BY <1>2, <1>4
  <2> QED BY <2>1, ConcatProperties
<1>7. Pieces(id)[1] = <<Magic>> /\ Pieces(id)[2] = <<Header>>
  BY <1>1, <1>2, <1>4, <1>5, <1>6
<1>8. ASSUME NEW k \in 1 .. Len(Names)
      PROVE  Pieces(id)[k + 2] = Blob(id, Names[k])
  <2>1. k + 2 \in 1 .. 2 + Len(Names) /\ ~ k + 2 <= 2 /\ (k + 2) - 2 = k
    BY <1>1
  <2>2. (two \o rest)[k + 2] = rest[k]
    BY <1>2, <1>4, <1>6, <2>1
  <2> QED BY <1>4, <1>5, <2>2
<1> QED BY <1>1, <1>2, <1>4, <1>5, <1>6, <1>7, <1>8 DEF NPieces

LEMMA SizeFacts ==
    /\ Size(0) = 0 /\ Size(1) = 1 /\ Size(2) = 2
    /\ \A k \in 1 .. Len(Names) : Size(k + 1) = 2 + Offset[k] /\ Size(k + 2) = 2 + Offset[k] + Rows[Names[k]]
<1>1. Len(Names) \in Nat /\ 1 \in 1 .. Len(Names) + 1
  BY NamesFacts
<1>2. Size(0) = 0 /\ Size(1) = 1
  BY DEF Size
<1>3. Size(2) = 2
  BY OffsetFacts DEF Size
<1>4. ASSUME NEW k \in 1 .. Len(Names)
      PROVE  Size(k + 1) = 2 + Offset[k] /\ Size(k + 2) = 2 + Offset[k] + Rows[Names[k]]
  <2>1. k + 1 # 0 /\ k + 1 # 1 /\ k + 2 # 0 /\ k + 2 # 1 /\ (k + 1) - 1 = k /\ (k + 2) - 1 = k + 1
    BY <1>1
  <2>2. Offset[k + 1] = Offset[k] + Rows[Names[k]] /\ Offset[k] \in Nat /\ Rows[Names[k]] \in Nat
    BY <1>1, OffsetFacts, NamesFacts
  <2>3. Size(k + 1) = 2 + Offset[k] /\ Size(k + 2) = 2 + Offset[k + 1]
    BY <2>1 DEF Size
  <2> QED BY <2>2, <2>3
<1> QED BY <1>2, <1>3, <1>4

\* One more piece.
LEMMA WriteOne ==
    ASSUME NEW id \in Ids, NEW data, NEW p \in 0 .. NPieces - 1, Written(data, id, p)
    PROVE  Written(data \o Pieces(id)[p + 1], id, p + 1)
<1> DEFINE one == Pieces(id)[p + 1]
           more == data \o one
<1>1. Len(Names) \in Nat /\ NPieces = Len(Names) + 2 /\ p \in Nat
  BY NamesFacts DEF NPieces
<1>2. data \in Seq(Cells) /\ Len(data) = Size(p)
  BY DEF Written
<1>3. Magic \in Cells /\ Header \in Cells
  BY DEF Cells
<1>4. one \in Seq(Cells) /\ Size(p + 1) = Size(p) + Len(one) /\ Size(p) \in Nat
  <2>1. CASE p = 0
    <3>1. one = <<Magic>> /\ p + 1 = 1
      BY <2>1, PiecesFacts
    <3> QED BY <1>3, <2>1, <3>1, SizeFacts
  <2>2. CASE p = 1
    <3>1. one = <<Header>> /\ p + 1 = 2
      BY <2>2, PiecesFacts
    <3> QED BY <1>3, <2>2, <3>1, SizeFacts
  <2>3. CASE p >= 2
    <3>1. p - 1 \in 1 .. Len(Names) /\ (p - 1) + 2 = p + 1 /\ (p - 1) + 1 = p
      BY <1>1, <2>3
    <3>2. one = Blob(id, Names[p - 1]) /\ Names[p - 1] \in Arrays
      BY <3>1, PiecesFacts, NamesFacts
    <3>3. one \in Seq(Cells) /\ Len(one) = Rows[Names[p - 1]] /\ Rows[Names[p - 1]] \in Nat
      BY <3>2, BlobFacts
    <3>4. Size(p) = 2 + Offset[p - 1] /\ Size(p + 1) = 2 + Offset[p - 1] + Rows[Names[p - 1]]
      BY <3>1, SizeFacts
    <3>5. Offset[p - 1] \in Nat
      BY <1>1, <3>1, OffsetFacts
    <3> HIDE DEF one
    <3> QED BY <3>3, <3>4, <3>5
  <2> QED BY <1>1, <2>1, <2>2, <2>3
<1> HIDE DEF one
<1>5. /\ more \in Seq(Cells) /\ Len(more) = Len(data) + Len(one)
      /\ \A k \in 1 .. Len(data) + Len(one) : more[k] = IF k <= Len(data) THEN data[k] ELSE one[k - Len(data)]
  <2>1. data \in Seq(Cells) /\ one \in Seq(Cells)
    BY <1>2, <1>4
  <2> QED BY <2>1, ConcatProperties
<1> HIDE DEF more
<1>6. Len(one) \in Nat
  BY <1>4, LenProperties
<1>7. \A k \in 1 .. Size(p) : more[k] = data[k]
  BY <1>2, <1>4, <1>5, <1>6
<1>8. \A r \in 1 .. Len(one) : more[Size(p) + r] = one[r]
  BY <1>2, <1>4, <1>5, <1>6
<1>9. Len(more) = Size(p + 1)
  BY <1>2, <1>4, <1>5
<1>10. p + 1 >= 1 => more[1] = Magic
  <2>1. CASE p = 0
    <3>1. one = <<Magic>>
      BY <2>1, PiecesFacts DEF one
    <3>2. Size(p) = 0 /\ Len(one) = 1 /\ one[1] = Magic
      BY <2>1, <3>1, SizeFacts
    <3> QED BY <1>8, <3>2
  <2>2. CASE p >= 1
    <3>1. 1 \in 1 .. Size(p)
      <4>1. CASE p = 1
        BY <4>1, SizeFacts
      <4>2. CASE p >= 2
        <5>1. p - 1 \in 1 .. Len(Names) /\ (p - 1) + 1 = p
          BY <1>1, <4>2
        <5>2. Size(p) = 2 + Offset[p - 1] /\ Offset[p - 1] \in Nat
          BY <1>1, <5>1, SizeFacts, OffsetFacts
        <5> QED BY <5>2
      <4> QED BY <1>1, <2>2, <4>1, <4>2
    <3>2. data[1] = Magic
      BY <2>2 DEF Written
    <3> QED BY <1>7, <3>1, <3>2
  <2> QED BY <1>1, <2>1, <2>2
<1>11. ASSUME p + 1 >= 2  PROVE more[2] = Header
  <2>1. CASE p = 1
    <3>1. one = <<Header>>
      BY <2>1, PiecesFacts DEF one
    <3>2. Size(p) = 1 /\ Len(one) = 1 /\ one[1] = Header
      BY <2>1, <3>1, SizeFacts
    <3> QED BY <1>8, <3>2
  <2>2. CASE p >= 2
    <3>1. p - 1 \in 1 .. Len(Names) /\ (p - 1) + 1 = p
      BY <1>1, <2>2
    <3>2. Size(p) = 2 + Offset[p - 1] /\ Offset[p - 1] \in Nat
      BY <1>1, <3>1, SizeFacts, OffsetFacts
    <3>3. 2 \in 1 .. Size(p)
      BY <3>2
    <3>4. data[2] = Header
      BY <2>2 DEF Written
    <3> QED BY <1>7, <3>3, <3>4
  <2> QED BY <1>1, <1>11, <2>1, <2>2
<1>12. ASSUME NEW k \in 1 .. (p + 1) - 2, NEW r \in 1 .. Rows[Names[k]]
       PROVE  more[2 + Offset[k] + r] = [of |-> id, name |-> Names[k], row |-> r]
  <2>1. k \in 1 .. Len(Names) /\ k \in 1 .. Len(Names) + 1 /\ p - 1 \in 1 .. Len(Names)
        /\ p - 1 \in 1 .. Len(Names) + 1 /\ (p - 1) + 1 = p /\ p >= 2
    BY <1>1
  <2>2. Size(p) = 2 + Offset[p - 1] /\ Offset[p - 1] \in Nat /\ Offset[k] \in Nat
        /\ Rows[Names[k]] \in Nat
    BY <2>1, SizeFacts, OffsetFacts, NamesFacts
  <2>3. CASE k = p - 1
    <3>1. one = Blob(id, Names[k]) /\ Names[k] \in Arrays
      <4>1. k + 2 = p + 1
        BY <1>1, <2>3
      <4> QED BY <2>1, <4>1, PiecesFacts, NamesFacts DEF one
    <3>2. one[r] = [of |-> id, name |-> Names[k], row |-> r] /\ Len(one) = Rows[Names[k]]
      BY <3>1, BlobFacts
    <3>3. more[Size(p) + r] = one[r]
      BY <1>8, <3>2
    <3> QED BY <2>2, <2>3, <3>2, <3>3
  <2>4. CASE k # p - 1
    <3>1. k \in 1 .. p - 2 /\ k + 1 \in 1 .. Len(Names) + 1 /\ k + 1 <= p - 1
      BY <1>1, <2>1, <2>4
    <3>2. data[2 + Offset[k] + r] = [of |-> id, name |-> Names[k], row |-> r]
      BY <3>1 DEF Written
    <3>3. Offset[k + 1] = Offset[k] + Rows[Names[k]] /\ Offset[k + 1] <= Offset[p - 1]
      BY <2>1, <3>1, OffsetFacts, OffsetGrows
    <3>4. 2 + Offset[k] + r \in 1 .. Size(p)
      BY <2>2, <3>3
    <3> QED BY <1>7, <3>2, <3>4
  <2> QED BY <2>3, <2>4
<1> QED BY <1>5, <1>9, <1>10, <1>11, <1>12 DEF Written, more, one

\* read_shard finds in a file written to the end the arrays of its expert.
LEMMA ReadBack ==
    ASSUME NEW id \in Ids, NEW data, Written(data, id, NPieces)
    PROVE  ReadShard(data) = Expert(id) /\ data # NoFile
<1>1. Len(Names) \in Nat /\ NPieces = Len(Names) + 2 /\ NPieces - 2 = Len(Names)
      /\ (Len(Names) + 1) + 1 = NPieces /\ NPieces >= 2
  BY NamesFacts DEF NPieces
<1>2. data \in Seq(Cells) /\ Len(data) = Size(NPieces) /\ data[1] = Magic /\ data[2] = Header
  BY <1>1 DEF Written
<1>3. Size(NPieces) = 2 + Offset[Len(Names) + 1] /\ Offset[Len(Names) + 1] \in Nat
  <2>1. NPieces # 0 /\ NPieces # 1 /\ NPieces - 1 = Len(Names) + 1 /\ Len(Names) + 1 \in 1 .. Len(Names) + 1
    BY <1>1
  <2> QED BY <2>1, OffsetFacts DEF Size
<1>4. data[2].arrays = Entries
  BY <1>2 DEF Header
<1>5. DOMAIN Entries = 1 .. Len(Names)
      /\ \A k \in 1 .. Len(Names) :
            Entries[k].name = Names[k] /\ Entries[k].offset = Offset[k] /\ Entries[k].n = Rows[Names[k]]
  BY NamesFacts DEF Entries
<1>6. ASSUME NEW k \in 1 .. Len(Names)
      PROVE  2 + Offset[k] + Rows[Names[k]] <= Len(data) /\ Offset[k] \in Nat /\ Rows[Names[k]] \in Nat
  <2>1. k \in 1 .. Len(Names) + 1 /\ k + 1 \in 1 .. Len(Names) + 1 /\ k + 1 <= Len(Names) + 1
        /\ Len(Names) + 1 \in 1 .. Len(Names) + 1
    BY <1>1
  <2>2. Offset[k] \in Nat /\ Rows[Names[k]] \in Nat /\ Offset[k + 1] = Offset[k] + Rows[Names[k]]
    BY <2>1, OffsetFacts, NamesFacts
  <2>3. Offset[k + 1] <= Offset[Len(Names) + 1]
    BY <2>1, OffsetGrows
  <2> QED BY <1>2, <1>3, <2>2, <2>3
<1>7. Len(data) >= 2 /\ Len(data) \in Nat
  BY <1>2, <1>3
<1> DEFINE array(name) ==
              LET k == CHOOSE m \in DOMAIN data[2].arrays : data[2].arrays[m].name = name
                  e == data[2].arrays[k]
              IN  SubSeq(data, 2 + e.offset + 1, 2 + e.offset + e.n)
<1>8. ASSUME NEW name \in Arrays  PROVE array(name) = Blob(id, name)
  <2> DEFINE k == CHOOSE m \in DOMAIN data[2].arrays : data[2].arrays[m].name = name
  <2>1. \E m \in DOMAIN data[2].arrays : data[2].arrays[m].name = name
    BY <1>4, <1>5, NamesFacts
  <2>2. k \in DOMAIN data[2].arrays /\ data[2].arrays[k].name = name
    BY <2>1
  <2> HIDE DEF k
  <2>3. k \in 1 .. Len(Names) /\ Names[k] = name
    BY <1>4, <1>5, <2>2
  <2> DEFINE low == 2 + Offset[k] + 1
             high == 2 + Offset[k] + Rows[name]
  <2>4. array(name) = SubSeq(data, low, high)
    BY <1>4, <1>5, <2>3 DEF k
  <2>5. Offset[k] \in Nat /\ Rows[name] \in Nat /\ 2 + Offset[k] + Rows[name] <= Len(data)
    BY <1>6, <2>3
  <2>6. low \in 1 .. Len(data) + 1 /\ high \in 0 .. Len(data) /\ low <= high + 1
        /\ high - low + 1 = Rows[name]
    BY <1>7, <2>5
  <2>7. \A r \in 1 .. Rows[name] : low + r - 1 = 2 + Offset[k] + r
    BY <2>5
  <2>8. \A r \in 1 .. Rows[name] : data[2 + Offset[k] + r] = [of |-> id, name |-> name, row |-> r]
    BY <1>1, <2>3 DEF Written
  <2> HIDE DEF low, high
  <2> DEFINE got == SubSeq(data, low, high)
  <2>9. /\ got \in Seq(Cells) /\ Len(got) = high - low + 1
        /\ \A r \in 1 .. high - low + 1 : got[r] = data[low + r - 1]
    BY <1>2, <2>6, SliceFacts
  <2>10. /\ Blob(id, name) \in Seq(Cells) /\ Len(Blob(id, name)) = Rows[name]
         /\ \A r \in 1 .. Rows[name] : Blob(id, name)[r] = [of |-> id, name |-> name, row |-> r]
    BY BlobFacts
  <2> HIDE DEF got
  <2>11. \A r \in 1 .. Len(got) : got[r] = Blob(id, name)[r]
    <3> SUFFICES ASSUME NEW r \in 1 .. Rows[name]  PROVE got[r] = Blob(id, name)[r]
      BY <2>6, <2>9
    <3>1. got[r] = data[low + r - 1] /\ low + r - 1 = 2 + Offset[k] + r
      BY <2>6, <2>7, <2>9
    <3>2. got[r] = data[2 + Offset[k] + r]
      BY <3>1
    <3> QED BY <2>8, <2>10, <3>2
  <2>12. got = Blob(id, name)
    BY <2>6, <2>9, <2>10, <2>11, SeqEqual
  <2> QED BY <2>4, <2>12 DEF got
<1>9. \A c \in Range(Components) : <<"gate_proj", c>> \in Arrays /\ <<"up_proj", c>> \in Arrays
                                    /\ <<"down_proj", c>> \in Arrays
  <2>1. \A c \in Range(Components) : \E j \in 1 .. Len(Components) : Components[j] = c
    BY Components3 DEF Range
  <2> QED BY <2>1, Components3
<1> HIDE DEF array
<1> DEFINE gateup == [c \in Range(Components) |-> array(<<"gate_proj", c>>) \o array(<<"up_proj", c>>)]
           down == [c \in Range(Components) |-> array(<<"down_proj", c>>)]
<1>10. ReadShard(data) = [ok |-> TRUE, gateup |-> gateup, down |-> down]
  <2>1. \A k \in DOMAIN Entries : 2 + Entries[k].offset + Entries[k].n <= Len(data)
    BY <1>5, <1>6
  <2>2. \A k \in DOMAIN data[2].arrays :
           2 + data[2].arrays[k].offset + data[2].arrays[k].n <= Len(data)
    BY <1>4, <2>1
  <2> QED BY <1>2, <1>7, <2>2 DEF ReadShard, array
<1>11. gateup = [c \in Range(Components) |-> Blob(id, <<"gate_proj", c>>) \o Blob(id, <<"up_proj", c>>)]
  BY <1>8, <1>9
<1>12. down = [c \in Range(Components) |-> Blob(id, <<"down_proj", c>>)]
  BY <1>8, <1>9
<1>13. ReadShard(data) = Expert(id)
  BY <1>10, <1>11, <1>12 DEF Expert
<1> QED BY <1>2, <1>13, ShardConstants
-----------------------------------------------------------------------------
\* Every step of the converter keeps the invariant.

LEMMA PathsDiffer ==
    /\ \A l \in Layers, e \in Experts, s \in {"bin", "tmp"} : Path(l, e, s) \in Paths
    /\ \A l1, l2, e1, e2, s1, s2 :
          Path(l1, e1, s1) = Path(l2, e2, s2) => l1 = l2 /\ e1 = e2 /\ s1 = s2
BY DEF Path, Paths

LEMMA ToWriteFacts ==
    ASSUME Typed
    PROVE  /\ Id(model, layer, expert) \in Ids /\ ToWrite = Pieces(Id(model, layer, expert))
           /\ Len(ToWrite) = NPieces /\ NPieces \in Nat /\ Tmp \in Paths /\ Bin \in Paths /\ Tmp # Bin
<1>1. Id(model, layer, expert) \in Ids
  BY DEF Typed, Id, Ids
<1>2. ToWrite = Pieces(Id(model, layer, expert))
  BY DEF ToWrite, Id
<1>3. Tmp \in Paths /\ Bin \in Paths /\ Tmp # Bin
  BY PathsDiffer DEF Typed, Tmp, Bin
<1> QED BY <1>1, <1>2, <1>3, PiecesFacts

LEMMA ShardsStart == ShardsInit => ShardsInv
<1> SUFFICES ASSUME ShardsInit  PROVE ShardsInv
  OBVIOUS
<1>1. 0 \in Experts /\ NPieces \in Nat
  BY ShardConstants, NamesFacts DEF Experts, NPieces
<1>2. Typed
  <2>1. file \in 0 .. NFiles /\ piece \in 1 .. NPieces + 1
    BY <1>1, ShardConstants DEF ShardsInit
  <2> QED BY <1>1, <2>1 DEF ShardsInit, Typed, Idle
<1>3. Readable
  BY PathsDiffer DEF ShardsInit, Readable
<1> QED BY <1>2, <1>3 DEF ShardsInit, ShardsInv, InTmp, Flushed

\* What is on disk stays what it is when the disk is left alone.
LEMMA SameDisk ==
    ASSUME disk' = disk
    PROVE  /\ Readable => Readable'
           /\ \A l, e, m : Shard(l, e, m)' <=> Shard(l, e, m)
BY DEF Readable, Shard

LEMMA StepConvert ==
    ASSUME ShardsInv, NEW m \in Checkpoints, Convert(m)
    PROVE  ShardsInv'
<1> USE DEF ShardsInv
<1>1. Typed'
  BY ShardConstants DEF Convert, Typed, Idle
<1>2. Readable'
  BY SameDisk DEF Convert
<1> QED BY <1>1, <1>2 DEF Convert, InTmp, Flushed

LEMMA StepLoadFile ==
    ASSUME ShardsInv, LoadFile
    PROVE  ShardsInv'
<1> USE DEF ShardsInv
<1>1. PICK new \in [Layers -> SUBSET Arrays] :
         /\ \A l \in Layers : new[l] \cap staging[l] = {} /\ (l \in arrived /\ staging[l] = {} => new[l] = {})
         /\ staging' = [l \in Layers |-> staging[l] \cup new[l]]
         /\ arrived' = arrived \cup {l \in Layers : new[l] # {}}
  BY DEF LoadFile
<1>2. /\ disk' = disk /\ model' = model /\ layer' = layer /\ expert' = expert /\ piece' = piece
      /\ pc = "load" /\ pc' = "flush" /\ file' = file + 1 /\ file < NFiles
  BY DEF LoadFile
<1>3. Typed'
  BY <1>1, <1>2, ShardConstants DEF Typed, Idle
<1>4. Readable'
  BY <1>2, SameDisk
<1>5. Flushed'
  <2> SUFFICES ASSUME NEW l \in arrived', NEW e \in Experts, staging'[l] = {}
               PROVE  Shard(l, e, model)'
    BY DEF Flushed
  <2>1. l \in Layers
    BY <1>3 DEF Typed
  <2>2. staging[l] = {} /\ new[l] = {}
    BY <1>1, <2>1
  <2>3. l \in arrived
    BY <1>1, <2>2
  <2>4. Shard(l, e, model)
    BY <1>2, <2>2, <2>3 DEF Flushed, Left
  <2> QED BY <1>2, <2>4 DEF Shard
<1> QED BY <1>2, <1>3, <1>4, <1>5 DEF InTmp

LEMMA StepFlushLayer ==
    ASSUME ShardsInv, FlushLayer
    PROVE  ShardsInv'
<1> USE DEF ShardsInv
<1>1. /\ disk' = disk /\ model' = model /\ file' = file /\ piece' = piece /\ arrived' = arrived
      /\ pc = "flush" /\ pc' = "open" /\ layer' \in Layers /\ expert' = 0
      /\ staging' = [staging EXCEPT ![layer'] = {}]
  BY DEF FlushLayer
<1>2. Typed'
  <2>1. 0 \in Experts
    BY ShardConstants DEF Experts
  <2>2. staging' \in [Layers -> SUBSET Arrays]
    BY <1>1 DEF Typed
  <2> QED BY <1>1, <2>1, <2>2 DEF Typed
<1>3. Readable'
  BY <1>1, SameDisk
<1>4. Flushed'
  <2> SUFFICES ASSUME NEW l \in arrived, NEW e \in Experts, staging'[l] = {}, ~ Left(l, e)'
               PROVE  Shard(l, e, model)'
    BY <1>1 DEF Flushed
  <2>1. l \in Layers /\ e >= 0
    BY ShardConstants DEF Typed, Experts
  <2>2. l # layer'
    BY <1>1, <2>1 DEF Left
  <2>3. staging[l] = {}
    BY <1>1, <2>1, <2>2 DEF Typed
  <2>4. Shard(l, e, model)
    BY <1>1, <2>3 DEF Flushed, Left
  <2> QED BY <1>1, <2>4 DEF Shard
<1> QED BY <1>1, <1>2, <1>3, <1>4 DEF InTmp

LEMMA StepNextFile ==
    ASSUME ShardsInv, NextFile
    PROVE  ShardsInv'
<1> USE DEF ShardsInv
<1>1. /\ disk' = disk /\ UNCHANGED memory /\ pc = "flush" /\ pc' = "load"
  BY DEF NextFile
<1>2. Typed' /\ Readable'
  BY <1>1, SameDisk DEF Typed, memory
<1>3. Flushed'
  BY <1>1, SameDisk DEF Flushed, Left, memory
<1> QED BY <1>1, <1>2, <1>3 DEF InTmp

\* Only files that are being written change before a rename.
LEMMA OnlyTmp ==
    ASSUME Typed, NEW data \in Seq(Cells), disk' = [disk EXCEPT ![Tmp] = data]
    PROVE  /\ disk' \in [Paths -> Seq(Cells) \cup {NoFile}] /\ disk'[Tmp] = data
           /\ \A l \in Layers, e \in Experts : disk'[Path(l, e, "bin")] = disk[Path(l, e, "bin")]
<1>1. Tmp \in Paths /\ Bin \in Paths
  BY ToWriteFacts
<1>2. \A l \in Layers, e \in Experts : Path(l, e, "bin") \in Paths /\ Path(l, e, "bin") # Tmp
  BY PathsDiffer DEF Tmp
<1> QED BY <1>1, <1>2 DEF Typed

LEMMA StepOpenTmp ==
    ASSUME ShardsInv, OpenTmp
    PROVE  ShardsInv'
<1> USE DEF ShardsInv
<1>1. /\ disk' = [disk EXCEPT ![Tmp] = <<>>] /\ pc = "open" /\ pc' = "write" /\ piece' = 1
      /\ model' = model /\ file' = file /\ staging' = staging /\ layer' = layer
      /\ expert' = expert /\ arrived' = arrived
  BY DEF OpenTmp
<1>2. /\ disk' \in [Paths -> Seq(Cells) \cup {NoFile}] /\ disk'[Tmp] = <<>>
      /\ \A l \in Layers, e \in Experts : disk'[Path(l, e, "bin")] = disk[Path(l, e, "bin")]
  <2>1. <<>> \in Seq(Cells)
    OBVIOUS
  <2> HIDE DEF ShardsInv
  <2>2. Typed
    BY DEF ShardsInv
  <2> QED BY <1>1, <2>1, <2>2, OnlyTmp
<1>3. Typed'
  <2>1. NPieces \in Nat
    BY ToWriteFacts
  <2> QED BY <1>1, <1>2, <2>1 DEF Typed
<1>4. Readable'
  BY <1>2 DEF Readable, Shard
<1>5. InTmp'
  <2>1. Tmp' = Tmp
    BY <1>1 DEF Tmp
  <2>2. Size(0) = 0 /\ 1 - 1 = 0 /\ Len(<<>>) = 0 /\ <<>> \in Seq(Cells)
    BY SizeFacts
  <2>3. Written(<<>>, Id(model, layer, expert), 0)
    BY <2>2 DEF Written
  <2>4. disk'[Tmp'] = <<>> /\ piece' - 1 = 0
    BY <1>1, <1>2, <2>1
  <2> QED BY <1>1, <2>3, <2>4 DEF InTmp
<1>6. Flushed'
  <2> SUFFICES ASSUME NEW l \in arrived, NEW e \in Experts, staging[l] = {}, ~ Left(l, e)'
               PROVE  Shard(l, e, model)'
    BY <1>1 DEF Flushed
  <2>1. Shard(l, e, model)
    BY <1>1 DEF Flushed, Left
  <2>2. l \in Layers
    BY DEF Typed
  <2> QED BY <1>1, <1>2, <2>1, <2>2 DEF Shard
<1> QED BY <1>1, <1>3, <1>4, <1>5, <1>6

LEMMA StepWritePiece ==
    ASSUME ShardsInv, WritePiece
    PROVE  ShardsInv'
<1> USE DEF ShardsInv
<1> DEFINE id == Id(model, layer, expert)
           more == disk[Tmp] \o Pieces(id)[piece]
<1>1. /\ disk' = [disk EXCEPT ![Tmp] = disk[Tmp] \o ToWrite[piece]] /\ pc = "write" /\ pc' = "write"
      /\ piece' = piece + 1 /\ piece <= Len(ToWrite)
      /\ model' = model /\ file' = file /\ staging' = staging /\ layer' = layer
      /\ expert' = expert /\ arrived' = arrived
  BY DEF WritePiece
<1>2. id \in Ids /\ ToWrite = Pieces(id) /\ Len(ToWrite) = NPieces /\ NPieces \in Nat
  BY ToWriteFacts
<1>3. piece \in 1 .. NPieces /\ piece - 1 \in 0 .. NPieces - 1 /\ (piece - 1) + 1 = piece
  BY <1>1, <1>2 DEF Typed
<1>4. Written(disk[Tmp], id, piece - 1)
  BY <1>1 DEF InTmp
<1> HIDE DEF id
<1>5. Written(more, id, piece)
  <2>1. Written(disk[Tmp] \o Pieces(id)[(piece - 1) + 1], id, (piece - 1) + 1)
    BY <1>2, <1>3, <1>4, WriteOne
  <2> QED BY <1>3, <2>1
<1>6. more \in Seq(Cells) /\ disk' = [disk EXCEPT ![Tmp] = more]
  BY <1>1, <1>2, <1>5 DEF Written
<1> HIDE DEF more
<1>7. /\ disk' \in [Paths -> Seq(Cells) \cup {NoFile}] /\ disk'[Tmp] = more
      /\ \A l \in Layers, e \in Experts : disk'[Path(l, e, "bin")] = disk[Path(l, e, "bin")]
  BY <1>6, OnlyTmp
<1>8. Typed'
  <2>1. piece' \in 1 .. NPieces + 1
    BY <1>1, <1>2, <1>3
  <2> QED BY <1>1, <1>7, <2>1 DEF Typed
<1>9. Readable'
  BY <1>7 DEF Readable, Shard
<1>10. InTmp'
  <2>1. Tmp' = Tmp /\ Id(model, layer, expert)' = id
    BY <1>1 DEF Tmp, Id, id
  <2>2. piece' - 1 = piece
    BY <1>1, <1>3
  <2> QED BY <1>5, <1>7, <2>1, <2>2 DEF InTmp
<1>11. Flushed'
  <2> SUFFICES ASSUME NEW l \in arrived, NEW e \in Experts, staging[l] = {}, ~ Left(l, e)'
               PROVE  Shard(l, e, model)'
    BY <1>1 DEF Flushed
  <2>1. Shard(l, e, model)
    BY <1>1 DEF Flushed, Left
  <2>2. l \in Layers
    BY DEF Typed
  <2> QED BY <1>1, <1>7, <2>1, <2>2 DEF Shard
<1> QED BY <1>1, <1>8, <1>9, <1>10, <1>11

LEMMA StepRename ==
    ASSUME ShardsInv, Rename
    PROVE  ShardsInv'
<1> USE DEF ShardsInv
<1> DEFINE id == Id(model, layer, expert)
           data == disk[Tmp]
<1>1. /\ disk' = [disk EXCEPT ![Bin] = disk[Tmp], ![Tmp] = NoFile] /\ pc = "write"
      /\ piece > Len(ToWrite) /\ piece' = piece
      /\ model' = model /\ file' = file /\ staging' = staging /\ layer' = layer /\ arrived' = arrived
      /\ \/ expert + 1 < NExperts /\ expert' = expert + 1 /\ pc' = "open"
         \/ expert + 1 >= NExperts /\ expert' = expert /\ pc' = "flush"
  BY DEF Rename
<1>2. id \in Ids /\ Len(ToWrite) = NPieces /\ NPieces \in Nat /\ Tmp \in Paths /\ Bin \in Paths /\ Tmp # Bin
  BY ToWriteFacts
<1>3. piece - 1 = NPieces
  BY <1>1, <1>2 DEF Typed
<1>4. Written(data, id, NPieces)
  BY <1>1, <1>3 DEF InTmp
<1>5. data \in Seq(Cells)
  BY <1>4 DEF Written
<1> HIDE DEF data, id
<1>6. /\ disk' \in [Paths -> Seq(Cells) \cup {NoFile}] /\ disk'[Bin] = data
      /\ \A p \in Paths : p # Tmp /\ p # Bin => disk'[p] = disk[p]
  BY <1>1, <1>2, <1>5 DEF Typed, data
<1>7. \A l \in Layers, e \in Experts :
         disk'[Path(l, e, "bin")] = IF l = layer /\ e = expert THEN data ELSE disk[Path(l, e, "bin")]
  <2> SUFFICES ASSUME NEW l \in Layers, NEW e \in Experts
               PROVE  disk'[Path(l, e, "bin")] = IF l = layer /\ e = expert THEN data ELSE disk[Path(l, e, "bin")]
    OBVIOUS
  <2>1. Path(l, e, "bin") \in Paths /\ Path(l, e, "bin") # Tmp
    BY PathsDiffer DEF Tmp
  <2>2. Path(l, e, "bin") = Bin => l = layer /\ e = expert
    BY PathsDiffer DEF Bin
  <2>3. CASE l = layer /\ e = expert
    BY <1>6, <2>3 DEF Bin
  <2>4. CASE ~ (l = layer /\ e = expert)
    BY <1>6, <2>1, <2>2, <2>4
  <2> QED BY <2>3, <2>4
<1>8. Typed'
  <2>1. expert' \in Experts
    BY <1>1, ShardConstants DEF Typed, Experts
  <2> QED BY <1>1, <1>6, <2>1 DEF Typed
<1>9. Readable'
  <2> SUFFICES ASSUME NEW l \in Layers, NEW e \in Experts, disk'[Path(l, e, "bin")] # NoFile
               PROVE  \E m \in Checkpoints : Shard(l, e, m)'
    BY DEF Readable
  <2>1. CASE l = layer /\ e = expert
    <3>1. Written(disk'[Path(l, e, "bin")], Id(model, l, e), NPieces)
      BY <1>4, <1>7, <2>1 DEF id
    <3> QED BY <3>1 DEF Typed, Shard
  <2>2. CASE ~ (l = layer /\ e = expert)
    <3>1. disk'[Path(l, e, "bin")] = disk[Path(l, e, "bin")]
      BY <1>7, <2>2
    <3>2. PICK m \in Checkpoints : Shard(l, e, m)
      BY <3>1 DEF Readable
    <3> QED BY <3>1, <3>2 DEF Shard
  <2> QED BY <2>1, <2>2
<1>10. Flushed'
  <2> SUFFICES ASSUME NEW l \in arrived, NEW e \in Experts, staging[l] = {}, ~ Left(l, e)'
               PROVE  Shard(l, e, model)'
    BY <1>1 DEF Flushed
  <2>1. l \in Layers /\ e \in Int /\ expert \in Int
    BY ShardConstants DEF Typed, Experts
  <2>2. CASE l = layer /\ e = expert
    <3>1. Written(disk'[Path(l, e, "bin")], Id(model, l, e), NPieces)
      BY <1>4, <1>7, <2>1, <2>2 DEF id
    <3> QED BY <1>1, <3>1 DEF Shard
  <2>3. CASE ~ (l = layer /\ e = expert)
    <3>1. ~ Left(l, e)
      <4> SUFFICES ASSUME l = layer, e >= expert  PROVE FALSE
        BY DEF Left
      <4>1. e >= expert + 1 /\ e < NExperts
        BY <2>1, <2>3, ShardConstants DEF Experts
      <4> QED BY <1>1, <2>1, <4>1, ShardConstants DEF Left
    <3>2. Shard(l, e, model)
      BY <3>1 DEF Flushed
    <3>3. disk'[Path(l, e, "bin")] = disk[Path(l, e, "bin")]
      BY <1>7, <2>1, <2>3
    <3> QED BY <1>1, <3>2, <3>3 DEF Shard
  <2> QED BY <2>2, <2>3
<1> QED BY <1>1, <1>8, <1>9, <1>10 DEF InTmp

LEMMA StepFinish ==
    ASSUME ShardsInv, Finish
    PROVE  ShardsInv'
<1> USE DEF ShardsInv
<1>1. /\ disk' = disk /\ UNCHANGED memory /\ pc = "load"
      /\ pc' = IF \A l \in Layers : staging[l] = {} THEN "done" ELSE "failed"
  BY DEF Finish
<1>2. Typed' /\ Readable'
  BY <1>1, SameDisk DEF Typed, memory, Idle
<1>3. Flushed'
  BY <1>1, SameDisk DEF Flushed, Left, memory
<1> QED BY <1>1, <1>2, <1>3 DEF InTmp, memory

LEMMA StepKill ==
    ASSUME ShardsInv, Kill
    PROVE  ShardsInv'
<1> USE DEF ShardsInv
<1>1. 0 \in Experts /\ NPieces \in Nat
  BY ShardConstants, NamesFacts DEF Experts, NPieces
<1>2. 0 \in 0 .. NFiles /\ 1 \in 1 .. NPieces + 1
  BY <1>1, ShardConstants
<1>3. Typed' /\ Readable'
  BY <1>1, <1>2, SameDisk DEF Kill, Typed, Idle
<1> QED BY <1>3 DEF Kill, InTmp, Flushed

-----------------------------------------------------------------------------
\* A step of the converter, or none, keeps what the shards hold.
THEOREM ShardsInvariant == ShardsSpec => []ShardsInv
<1>1. ShardsInv /\ [ShardsNext]_shardVars => ShardsInv'
  <2> SUFFICES ASSUME ShardsInv, [ShardsNext]_shardVars  PROVE ShardsInv'
    OBVIOUS
  <2>1. CASE UNCHANGED shardVars
    <3>1. disk' = disk /\ pc' = pc /\ UNCHANGED memory
      BY <2>1 DEF shardVars
    <3> QED BY <3>1, SameDisk DEF ShardsInv, Typed, InTmp, Flushed, Left, memory, Tmp
  <2>2. CASE ShardsNext
    BY <2>2, StepConvert, StepLoadFile, StepFlushLayer, StepNextFile, StepOpenTmp, StepWritePiece,
       StepRename, StepFinish, StepKill DEF ShardsNext
  <2> QED BY <2>1, <2>2
<1> QED BY <1>1, ShardsStart, PTL DEF ShardsSpec

\* The state of the converter is of its type.
THEOREM ShardsTyped == ShardsSpec => []ShardsTypeOK
<1>1. ShardsInv => ShardsTypeOK
  BY ToWriteFacts DEF ShardsInv, Typed, ShardsTypeOK
<1> QED BY <1>1, ShardsInvariant, PTL

LEMMA ShardReads ==
    ASSUME NEW m \in Checkpoints, NEW l \in Layers, NEW e \in Experts, Shard(l, e, m)
    PROVE  ReadsAs(l, e, m)
<1>1. Id(m, l, e) \in Ids
  BY DEF Id, Ids
<1> DEFINE data == disk[Path(l, e, "bin")]
<1>2. Written(data, Id(m, l, e), NPieces)
  BY DEF Shard
<1> HIDE DEF data
<1>3. ReadShard(data) = Expert(Id(m, l, e)) /\ data # NoFile
  BY <1>1, <1>2, ReadBack
<1> QED BY <1>3 DEF ReadsAs, Id, data

\* Wherever the converter was killed and whatever ran after it, a file that bears
\* a shard's name reads back as the arrays of that expert, of one checkpoint
\* (write_shard's temporary name and os.rename).
THEOREM ShardsAreWhole == ShardsSpec => []ShardsWhole
<1>1. ShardsInv => ShardsWhole
  BY ShardReads DEF ShardsInv, Readable, ShardsWhole
<1> QED BY <1>1, ShardsInvariant, PTL

\* A conversion that ends without the AssertionError has written every expert of
\* every layer it saw, from its own checkpoint (convert's final assert).
THEOREM DoneIsAll == ShardsSpec => []DoneMeansAll
<1>1. ASSUME ShardsInv  PROVE DoneMeansAll
  <2> SUFFICES ASSUME pc = "done", NEW l \in arrived, NEW e \in Experts
               PROVE  ReadsAs(l, e, model)
    BY DEF DoneMeansAll
  <2>1. l \in Layers /\ model \in Checkpoints /\ staging[l] = {}
    BY <1>1 DEF ShardsInv, Typed
  <2>2. Shard(l, e, model)
    BY <1>1, <2>1 DEF ShardsInv, Flushed, Left
  <2> QED BY <2>1, <2>2, ShardReads
<1> QED BY <1>1, ShardsInvariant, PTL

\* No step takes a shard away or makes it unreadable, not even its replacement by
\* a later conversion.
THEOREM ShardsStay == ShardsSpec => NeverLoses
<1> DEFINE Keeps == \A l \in Layers, e \in Experts :
              disk[Path(l, e, "bin")] # NoFile =>
                 disk'[Path(l, e, "bin")] # NoFile /\ ReadShard(disk'[Path(l, e, "bin")]).ok
<1>1. ASSUME ShardsInv, ShardsInv', [ShardsNext]_shardVars
      PROVE  [Keeps]_shardVars
  <2> SUFFICES ASSUME NEW l \in Layers, NEW e \in Experts, disk[Path(l, e, "bin")] # NoFile
               PROVE  disk'[Path(l, e, "bin")] # NoFile /\ ReadShard(disk'[Path(l, e, "bin")]).ok
    OBVIOUS
  <2>1. disk'[Path(l, e, "bin")] # NoFile
    <3>1. CASE Rename
      <4>1. Tmp \in Paths /\ Bin \in Paths /\ Tmp # Bin /\ Len(ToWrite) = NPieces /\ NPieces \in Nat
            /\ Id(model, layer, expert) \in Ids
        BY <1>1, ToWriteFacts DEF ShardsInv
      <4>2. piece - 1 = NPieces
        BY <1>1, <3>1, <4>1 DEF Rename, ShardsInv, Typed
      <4>3. disk[Tmp] # NoFile
        BY <1>1, <3>1, <4>1, <4>2, ReadBack DEF Rename, ShardsInv, InTmp
      <4>4. Path(l, e, "bin") \in Paths /\ Path(l, e, "bin") # Tmp
        BY PathsDiffer DEF Tmp
      <4> QED BY <1>1, <3>1, <4>1, <4>3, <4>4 DEF Rename, ShardsInv, Typed
    <3>2. CASE OpenTmp \/ WritePiece
      <4>1. Tmp \in Paths
        BY <1>1, ToWriteFacts DEF ShardsInv
      <4>2. Path(l, e, "bin") \in Paths /\ Path(l, e, "bin") # Tmp
        BY PathsDiffer DEF Tmp
      <4> QED BY <1>1, <3>2, <4>1, <4>2 DEF OpenTmp, WritePiece, ShardsInv, Typed
    <3>3. CASE disk' = disk
      BY <3>3
    <3> QED BY <1>1, <3>1, <3>2, <3>3 DEF ShardsNext, Convert, LoadFile, FlushLayer, NextFile, Finish,
               Kill, shardVars
  <2>2. PICK m \in Checkpoints : Shard(l, e, m)'
    BY <1>1, <2>1 DEF ShardsInv, Readable
  <2>3. Written(disk'[Path(l, e, "bin")], Id(m, l, e), NPieces) /\ Id(m, l, e) \in Ids
    BY <2>2 DEF Shard, Id, Ids
  <2>4. ReadShard(disk'[Path(l, e, "bin")]) = Expert(Id(m, l, e))
    BY <2>3, ReadBack
  <2>5. Expert(Id(m, l, e)).ok
    BY DEF Expert
  <2> QED BY <2>1, <2>4, <2>5
<1> QED BY <1>1, ShardsInvariant, PTL DEF ShardsSpec, NeverLoses
=============================================================================
