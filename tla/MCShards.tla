---- MODULE MCShards ----
EXTENDS Shards
CONSTANTS new, old
MCComponents == <<"weight">>
MCRows == [n \in Arrays |-> IF n[1] = "down_proj" THEN 1 ELSE 2]
====
