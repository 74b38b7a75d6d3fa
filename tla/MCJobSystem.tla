---- MODULE MCJobSystem ----
EXTENDS JobSystem, TLC

Symmetric == Permutations(Copies) \cup Permutations(Workers)
====
