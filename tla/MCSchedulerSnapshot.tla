-------------------------- MODULE MCSchedulerSnapshot --------------------------
EXTENDS SchedulerSnapshot, TLC

CONSTANTS a1, a2, w1, w2, q1

\* All changes are to one account; the other one keeps the list from being empty.
OneTarget == [w \in Writers |-> a1]
================================================================================
