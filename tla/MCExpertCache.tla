---- MODULE MCExpertCache ----
EXTENDS ExpertCache
CONSTANTS a, b, c, d
MCKeys == {a, b, c, d}
MCSize == (a :> 1 @@ b :> 1 @@ c :> 2 @@ d :> 3)
MCBytes == [S \in SUBSET MCKeys |-> FoldFunctionOnSet(+, 0, MCSize, S)]
====
