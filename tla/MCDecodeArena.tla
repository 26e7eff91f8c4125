---- MODULE MCDecodeArena ----
EXTENDS DecodeArena
CONSTANTS a, b, c, d, e
MCExperts == {a, b, c, d, e}
====
