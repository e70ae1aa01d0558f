----------------------------- MODULE MCTokenFlow -----------------------------
EXTENDS TokenFlow, TLC

Symmetric == Permutations(Hubs) \cup Permutations(Oids)
=============================================================================
