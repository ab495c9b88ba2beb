---------------------------- MODULE MCIdempotency ----------------------------
EXTENDS Idempotency, TLC

CONSTANTS c1, c2, c3, f1, f2

Symmetric == Permutations(Calls) \cup Permutations(Fingerprints)
===============================================================================
