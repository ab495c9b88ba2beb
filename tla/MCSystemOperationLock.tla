------------------------ MODULE MCSystemOperationLock ------------------------
EXTENDS SystemOperationLock, TLC

CONSTANTS o1, o2, o3, i1, i2

\* The third operation repeats the first.
Ids == [op \in Operations |-> IF op = o2 THEN i2 ELSE i1]
===============================================================================
