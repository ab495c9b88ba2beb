---------------------------- MODULE MCFailoverLoop ----------------------------
EXTENDS FailoverLoop, TLC

CONSTANTS a1, a2, a3

Symmetric == Permutations(Accounts)
===============================================================================
