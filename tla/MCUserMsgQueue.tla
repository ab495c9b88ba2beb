---------------------------- MODULE MCUserMsgQueue ----------------------------
EXTENDS UserMsgQueue, TLC

CONSTANTS r1, r2

Symmetric == Permutations(Requests)
===============================================================================
