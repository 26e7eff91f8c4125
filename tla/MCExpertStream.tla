---- MODULE MCExpertStream ----
EXTENDS ExpertStream
CONSTANTS a, b, w1, w2
MCKeys == {a, b}
MCBytes == [S \in SUBSET MCKeys |-> Cardinality(S)]
MCFaulty == {b}
====
