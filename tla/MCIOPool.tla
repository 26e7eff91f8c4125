---- MODULE MCIOPool ----
EXTENDS IOPool
CONSTANTS a, b, c, w1, w2
MCKeys == {a, b, c}
MCBytes == [S \in SUBSET MCKeys |-> Cardinality(S)]
MCMissing == {b}
MCFaulty == {c}
====
