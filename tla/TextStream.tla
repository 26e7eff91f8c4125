----------------------------- MODULE TextStream -----------------------------
(***************************************************************************)
(* The text a generation hands on (serve.py): the model's pieces go through *)
(* _strip_thought_stream, which drops a leading thought "<|channel> ...    *)
(* <channel|>" although both markers may arrive cut anywhere.  Before that  *)
(* _guard looks at the recent ones and ends a generation that repeats      *)
(* itself.                                                                 *)
(*                                                                         *)
(* A text is a sequence of symbols.  The two markers share their first     *)
(* symbol and no other; OpenMark and CloseMark are sequences of symbols.   *)
(***************************************************************************)
EXTENDS Integers, SequencesExt

CONSTANTS Symbols, OpenMark, CloseMark,
          Pieces,     \* bound: what one piece of text may be
          MaxText,    \* bound: symbols of one generation
          MinSpan, MinTotal, Reps,   \* _tail_loop's parameters
          TailMax, TailMin           \* how much of the text _guard keeps, and wants

ASSUME TextConstants ==
    /\ OpenMark \in Seq(Symbols) \ {<<>>} /\ CloseMark \in Seq(Symbols) \ {<<>>}
    /\ Pieces \subseteq Seq(Symbols)
    /\ {MinSpan, Reps} \subseteq Nat \ {0} /\ {MinTotal, TailMax, TailMin, MaxText} \subseteq Nat
    /\ TailMin <= TailMax

VARIABLES consumed,   \* history: what the filter has been given
          buf, mode,  \* its locals
          out,        \* what it has yielded
          tail,       \* recent text, for _guard
          over        \* no piece of the model's follows: _guard saw to it, or it has ended

textVars == <<consumed, buf, mode, out, tail, over>>

StartsWith(text, mark) == IsPrefix(mark, text)
Found(text, mark) == {i \in 1 .. Len(text) - Len(mark) + 1 : IsPrefix(mark, SubSeq(text, i, Len(text)))}
After(text, mark) == SubSeq(text, Min(Found(text, mark)) + Len(mark), Len(text))

\* _strip_thought_text: what waves apply to a whole text.
StripThought(text) ==
    IF StartsWith(text, OpenMark) /\ Found(text, CloseMark) # {} THEN After(text, CloseMark)
    ELSE text

LastN(text, n) == SubSeq(text, IF Len(text) > n THEN Len(text) - n + 1 ELSE 1, Len(text))

\* text ends in n copies of its last `span` symbols.
Repeats(text, span, n) ==
    /\ span * n <= Len(text)
    /\ \A k \in 1 .. n - 1 :
          SubSeq(text, Len(text) - span * (k + 1) + 1, Len(text) - span * k) = LastN(text, span)

\* _tail_loop.
TailLoop(text) ==
    \E span \in MinSpan .. Len(text) \div Reps :
        span * Reps >= MinTotal /\ Repeats(text, span, Reps)

TextInit ==
    /\ consumed = <<>> /\ buf = <<>> /\ mode = "sniff" /\ out = <<>>
    /\ tail = <<>> /\ over = FALSE

TextReset ==
    /\ consumed' = <<>> /\ buf' = <<>> /\ mode' = "sniff" /\ out' = <<>>
    /\ tail' = <<>> /\ over' = FALSE

\* Fault: a piece shorter than the marker is taken for text.
SniffEager(seen) ==
    IF StartsWith(seen, OpenMark) THEN "strip" ELSE "pass"

\* What the filter makes of the first pieces.
Sniff(seen) ==
    IF Len(seen) < Len(OpenMark)
    THEN IF StartsWith(OpenMark, seen) THEN "sniff" ELSE "pass"
    ELSE IF StartsWith(seen, OpenMark) THEN "strip" ELSE "pass"

\* The loop body of the filter.
Filter(p) ==
    LET seen == buf \o p
        m == IF mode = "sniff" THEN Sniff(seen) ELSE mode
    IN  \/ mode = "pass" /\ out' = out \o p /\ UNCHANGED <<buf, mode>>
        \/ mode = "sniff" /\ m = "pass" /\ out' = out \o seen /\ buf' = <<>> /\ mode' = m
        \/ m = "sniff" /\ buf' = seen /\ UNCHANGED <<out, mode>>
        \/ m = "strip" /\ Found(seen, CloseMark) = {} /\ buf' = seen /\ mode' = m /\ UNCHANGED out
        \/ /\ m = "strip" /\ Found(seen, CloseMark) # {}
           /\ out' = out \o After(seen, CloseMark) /\ buf' = <<>> /\ mode' = "pass"

\* Fault: the recent text is cut before the new piece is added.
GuardLate(p) ==
    /\ tail' = LastN(tail, TailMax) \o p
    /\ over' = (Len(tail') >= TailMin /\ TailLoop(LastN(tail, TailMax)))

\* _guard, after the piece has been handed on.
Guard(p) ==
    /\ tail' = LastN(tail \o p, TailMax)
    /\ over' = (Len(tail') >= TailMin /\ TailLoop(tail'))

Piece(p) ==
    /\ ~ over
    /\ consumed' = consumed \o p
    /\ Filter(p) /\ Guard(p)

\* What the detokenizer still held when the model's pieces were over; _guard does
\* not look at it.
LastSegment(p) ==
    /\ consumed' = consumed \o p
    /\ Filter(p) /\ over' = TRUE /\ UNCHANGED tail

\* No more pieces: a thought that was never closed is shown.
LastPiece == out \o buf

-----------------------------------------------------------------------------
\* However the text is cut into pieces, the reader has at every moment exactly
\* what the whole-text filter would show of it so far, and waits only while the
\* text may still turn out to be, or is, a thought that is not closed yet.
FilterExact ==
    LET open == /\ IsPrefix(OpenMark, consumed) /\ Found(consumed, CloseMark) = {}
        undecided == IsStrictPrefix(consumed, OpenMark)
    IN  /\ out = IF open \/ undecided THEN <<>> ELSE StripThought(consumed)
        /\ LastPiece = StripThought(consumed)

\* serve.py:290-295: a generation whose text ends in enough copies of the same
\* span gets no further piece of the model, as far as the recent text can hold the
\* copies.
LoopsStopped ==
    Len(consumed) >= TailMin /\ ~ over =>
        ~ \E span \in MinSpan .. TailMax \div Reps :
              span * Reps >= MinTotal /\ Repeats(consumed, span, Reps)
=============================================================================
