---- MODULE MCJobServer ----
EXTENDS JobServer
CONSTANTS c1, c2, j1, j2
====
