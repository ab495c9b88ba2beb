----------------------------- MODULE MCUsageBilling -----------------------------
EXTENDS UsageBilling, TLC

CONSTANTS e1, e2, p1, p2, t1, t2, l1

\* The second record repeats the first, conflicts with it, or is another.
RepeatOrOther ==
    (t1 :> {[id |-> e1, print |-> p1]}) @@
    (t2 :> {[id |-> e1, print |-> p1], [id |-> e1, print |-> p2], [id |-> e2, print |-> p1]})
================================================================================
