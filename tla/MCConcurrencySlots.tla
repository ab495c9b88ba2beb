-------------------------- MODULE MCConcurrencySlots --------------------------
EXTENDS ConcurrencySlots, TLC

CONSTANTS r1, r2, u1, a1, i1, i2, i3, p1, p2

OneUser == [r \in Requests |-> u1]

LimitOne == [k \in Keys |-> 1]
\* A user without a limit.
LimitAccounts == [k \in Keys |-> IF k = u1 THEN 0 ELSE 1]

\* Two waiters of the user, one of the account.
WaitLimits == [k \in Keys |-> IF k = u1 THEN 2 ELSE 1]

\* i1 and i2 carry p1's prefix, i3 carries p2's.
Owners == [i \in SlotIds |-> IF i \in {i1, i2} THEN p1 ELSE p2]

\* Only ids of one process may be exchanged.
OwnerSymmetric == Permutations(Requests) \cup Permutations({i1, i2})
===============================================================================
