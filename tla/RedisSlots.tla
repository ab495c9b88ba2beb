------------------------------ MODULE RedisSlots ------------------------------
(***************************************************************************)
(* The sorted set behind one concurrency key and the wait counter beside   *)
(* it: the Lua scripts of repository/concurrency_cache.go as functions of  *)
(* the stored value.                                                       *)
(*                                                                         *)
(* A sorted set maps every possible member (a slot's request id) to        *)
(* Absent or to its age, the difference between the server's TIME and the  *)
(* member's score, capped at SlotTTL.  Scores below "now - ttl" are the    *)
(* members whose age is SlotTTL.                                           *)
(***************************************************************************)
EXTENDS Integers, FiniteSets

CONSTANTS
    SlotIds,   \* the request ids slots are taken under
    SlotTTL,   \* age at which a slot no longer counts
    WaitTTL    \* age at which redis may drop a wait counter

ASSUME RedisSlotsAssumption ==
    /\ IsFiniteSet(SlotIds)
    /\ SlotTTL \in Nat \ {0}
    /\ WaitTTL \in Nat \ {0}

Absent == -1

Age == 0..SlotTTL

ZSet == [SlotIds -> Age \cup {Absent}]

EmptyZSet == [id \in SlotIds |-> Absent]

\* The members stored in z, lapsed or not (ZCARD counts these).
Present(z) == {id \in SlotIds : z[id] # Absent}

\* The members that still count against the limit.
Live(z) == {id \in SlotIds : z[id] # Absent /\ z[id] < SlotTTL}

\* ZREMRANGEBYSCORE key -inf (now - ttl)
Purge(z) == [id \in SlotIds |-> IF z[id] = SlotTTL THEN Absent ELSE z[id]]

\* The acquire script: purge, refresh the member when it is already there,
\* add it when the set is below the limit, refuse otherwise.
AcquireRefreshes_Never(z, id) == FALSE   \* mutant: no branch for a retry

AcquireRefreshes(z, id) == id \in Present(Purge(z))

AcquireAdds_OffByOne(z, cap, id) == Cardinality(Present(Purge(z))) <= cap   \* mutant

AcquireAdds(z, cap, id) == Cardinality(Present(Purge(z))) < cap

AcquireGrants(z, cap, id) == AcquireRefreshes(z, id) \/ AcquireAdds(z, cap, id)

AcquireResult(z, cap, id) ==
    IF AcquireGrants(z, cap, id) THEN [Purge(z) EXCEPT ![id] = 0] ELSE Purge(z)

\* ZREM key id
Remove(z, id) == [z EXCEPT ![id] = Absent]

\* The startup script: members of other processes go.
KeepOnly(z, own) == [id \in SlotIds |-> IF id \in own THEN z[id] ELSE Absent]

\* One second (or any unit) passes.
Older(z) == [id \in SlotIds |-> IF z[id] \in {Absent, SlotTTL} THEN z[id] ELSE z[id] + 1]

-------------------------------------------------------------------------------
(* Wait counters: [n |-> the count, age |-> time since the last INCR].     *)

NoWaiters == [n |-> 0, age |-> 0]

\* The increment script, run `runs` times: it counts and renews the TTL while the
\* counter is below maxWait.  The last run is granted if that one counts.
IncrementGrants(w, maxWait, runs) == w.n + runs <= maxWait

IncrementResult(w, maxWait, runs) ==
    IF w.n >= maxWait THEN w
    ELSE [n |-> IF w.n + runs <= maxWait THEN w.n + runs ELSE maxWait, age |-> 0]

\* The decrement script, run `runs` times: DECR only when the key is positive.  A
\* counter of zero is as good as none, whatever is left of its key's TTL.
DecrementResult(w, runs) ==
    IF w.n <= runs THEN NoWaiters ELSE [w EXCEPT !.n = @ - runs]

OlderWait(w) == IF w.n > 0 /\ w.age < WaitTTL THEN [w EXCEPT !.age = @ + 1] ELSE w
===============================================================================
