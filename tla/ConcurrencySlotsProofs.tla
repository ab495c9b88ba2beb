------------------------ MODULE ConcurrencySlotsProofs ------------------------
(***************************************************************************)
(* Proofs about ConcurrencySlots.  SlotsInv is inductive: the first part   *)
(* shows what the redis scripts do to one sorted set, the second that      *)
(* every step of a request, the worker or the process preserves SlotsInv,  *)
(* the third derives the limit on running requests.  Two further           *)
(* invariants are built on it: OwnersInv charges each lost slot to a       *)
(* mishap and follows the prefixes of dead processes, CountersCovered does *)
(* the accounts of the wait counters.                                      *)
(***************************************************************************)
EXTENDS ConcurrencySlots, FiniteSetTheorems, TLAPS

-------------------------------------------------------------------------------
(* The scripts.                                                            *)

\* The members of a sorted set are finitely many.
LEMMA PresentFinite ==
  ASSUME NEW z
  PROVE  IsFiniteSet(Present(z)) /\ Cardinality(Present(z)) \in Nat
<1>1. Present(z) \in SUBSET SlotIds
  BY DEF Present
<1>2. IsFiniteSet(SlotIds)
  BY RedisSlotsAssumption
<1> QED
  BY <1>1, <1>2, FS_Subset, FS_CardinalityType

\* A set with fewer members stays within the limit.
LEMMA FewerWithinLimit ==
  ASSUME NEW z, NEW y, NEW cap \in Nat,
         Present(y) \subseteq Present(z), Cardinality(Present(z)) <= cap
  PROVE  Cardinality(Present(y)) <= cap
<1>1. IsFiniteSet(Present(z)) /\ Cardinality(Present(z)) \in Nat
  BY PresentFinite
<1>2. Cardinality(Present(y)) \in Nat
  BY PresentFinite
<1>3. Cardinality(Present(y)) <= Cardinality(Present(z))
  BY <1>1, FS_Subset
<1> QED
  BY <1>1, <1>2, <1>3

\* Purging keeps exactly the live members.
LEMMA PurgeKeepsLive ==
  ASSUME NEW z \in ZSet
  PROVE  /\ Purge(z) \in ZSet
         /\ Present(Purge(z)) \subseteq Present(z)
         /\ \A id \in Live(z) : Purge(z)[id] = z[id] /\ z[id] # Absent
BY RedisSlotsAssumption DEF Purge, ZSet, Age, Absent, Present, Live

\* The acquire script stays within the limit and disturbs no live member.
LEMMA AcquireScript ==
  ASSUME NEW z \in ZSet, NEW cap \in Nat, NEW i \in SlotIds,
         Cardinality(Present(z)) <= cap
  PROVE  /\ AcquireResult(z, cap, i) \in ZSet
         /\ Cardinality(Present(AcquireResult(z, cap, i))) <= cap
         /\ \A id \in Live(z) : AcquireResult(z, cap, i)[id] # Absent
<1> DEFINE p == Purge(z)
           a == AcquireResult(z, cap, i)
<1>p. p \in ZSet /\ \A id \in Live(z) : p[id] # Absent
  BY PurgeKeepsLive
<1>c. Cardinality(Present(p)) <= cap
  BY PurgeKeepsLive, FewerWithinLimit
<1>f. IsFiniteSet(Present(p)) /\ Cardinality(Present(p)) \in Nat
  BY PresentFinite
<1>1. CASE ~AcquireGrants(z, cap, i)
  <2>1. a = p
    BY <1>1 DEF AcquireResult
  <2> QED
    BY <2>1, <1>p, <1>c
<1>2. CASE AcquireGrants(z, cap, i)
  <2>1. a = [p EXCEPT ![i] = 0]
    BY <1>2 DEF AcquireResult
  <2>2. a \in ZSet
    BY <2>1, <1>p, RedisSlotsAssumption DEF ZSet, Age
  <2>3. Present(a) = Present(p) \cup {i}
    BY <2>1, <1>p DEF Present, ZSet, Absent
  <2>4. \A id \in Live(z) : a[id] # Absent
    BY <2>1, <1>p DEF ZSet, Absent, Live
  <2>5. Cardinality(Present(a)) <= cap
    <3>1. CASE i \in Present(p)
      BY <3>1, <2>3, <1>c, <1>f, FS_AddElement
    <3>2. CASE i \notin Present(p)
      <4>1. Cardinality(Present(p)) < cap
        BY <3>2, <1>2 DEF AcquireGrants, AcquireRefreshes, AcquireAdds
      <4>2. Cardinality(Present(a)) = Cardinality(Present(p)) + 1
        BY <3>2, <2>3, <1>f, FS_AddElement
      <4> QED
        BY <4>1, <4>2, <1>f
    <3> QED
      BY <3>1, <3>2
  <2> QED
    BY <2>2, <2>4, <2>5
<1> QED
  BY <1>1, <1>2

\* What a script leaves of one set is a legal set and drops no live member.
LEMMA RunEffect ==
  ASSUME NEW z \in ZSet, NEW cap \in Nat, NEW i \in SlotIds,
         Cardinality(Present(z)) <= cap, NEW run \in ScriptRuns(z, cap, i)
  PROVE  /\ run.z \in ZSet
         /\ Cardinality(Present(run.z)) <= cap
         /\ \A id \in Live(z) : run.z[id] # Absent
<1> DEFINE once == AcquireResult(z, cap, i)
<1>1. /\ once \in ZSet
      /\ Cardinality(Present(once)) <= cap
      /\ \A id \in Live(z) : once[id] # Absent
  BY AcquireScript
<1>2. CASE run.z = once
  BY <1>1, <1>2
<1>3. CASE run.z = AcquireResult(once, cap, i)
  <2>1. run.z \in ZSet /\ Cardinality(Present(run.z)) <= cap
    BY <1>1, <1>3, AcquireScript
  <2>2. i \in SlotIds /\ Live(z) \subseteq SlotIds
    BY DEF Live
  <2>3. ASSUME NEW id \in Live(z) PROVE run.z[id] # Absent
    <3>1. CASE AcquireGrants(z, cap, i)
      <4>1. once = [Purge(z) EXCEPT ![i] = 0] /\ Purge(z) \in ZSet
        BY <3>1, PurgeKeepsLive DEF AcquireResult
      <4>2. id = i \/ once[id] = z[id]
        BY <4>1, PurgeKeepsLive, <2>2 DEF ZSet
      <4>3. id \in Live(once)
        BY <4>1, <4>2, <2>2, RedisSlotsAssumption DEF ZSet, Live, Age, Absent
      <4> QED
        BY <4>3, <1>1, <1>3, AcquireScript
    <3>2. CASE ~AcquireGrants(z, cap, i)
      <4>1. once = Purge(z)
        BY <3>2 DEF AcquireResult
      <4>2. id \in Live(once)
        BY <4>1, PurgeKeepsLive, <2>2 DEF Live
      <4> QED
        BY <4>2, <1>1, <1>3, AcquireScript
    <3> QED
      BY <3>1, <3>2
  <2> QED
    BY <2>1, <2>3
<1>4. run.z = once \/ run.z = AcquireResult(once, cap, i)
  BY DEF ScriptRuns
<1> QED
  BY <1>2, <1>3, <1>4

-------------------------------------------------------------------------------
(* The helpers of the handler's steps.                                     *)

StoreOK(y) == /\ y \in [Keys -> ZSet]
              /\ \A k \in Keys : Cardinality(Present(y[k])) <= Limit[k]

\* y drops no live member of x.
Keeps(x, y) == \A k \in Keys : \A id \in Live(x[k]) : y[k][id] # Absent

\* Replacing one key's set by a legal one.
LEMMA OneSet ==
  ASSUME NEW x, StoreOK(x), NEW k \in Keys, NEW z \in ZSet,
         Cardinality(Present(z)) <= Limit[k]
  PROVE  StoreOK([x EXCEPT ![k] = z])
BY DEF StoreOK

\* Replacing one key's set by one that drops no live member.
LEMMA OneSetKeeps ==
  ASSUME NEW x, StoreOK(x), NEW k \in Keys, NEW z, \A id \in Live(x[k]) : z[id] # Absent
  PROVE  Keeps(x, [x EXCEPT ![k] = z])
<1> SUFFICES ASSUME NEW j \in Keys, NEW id \in Live(x[j])
             PROVE  [x EXCEPT ![k] = z][j][id] # Absent
  BY DEF Keeps
<1>1. CASE j = k
  BY <1>1 DEF StoreOK
<1>2. CASE j # k
  BY <1>2 DEF StoreOK, Live
<1> QED
  BY <1>1, <1>2

LEMMA StoreKeepsItself ==
  ASSUME NEW x
  PROVE  Keeps(x, x)
BY DEF Keeps, Live

\* An acquire that succeeds, is refused, or is lost.
LEMMA AcquireOKEffect ==
  ASSUME StoreOK(zset), NEW k \in Keys, NEW p, NEW got, AcquireOK(p, k, got)
  PROVE  /\ StoreOK(zset') /\ Keeps(zset, zset')
         /\ got \in FreshIds(p, k) \cup {NoSlot}
<1>1. CASE Limit[k] = 0
  <2>1. got = NoSlot /\ zset' = zset
    BY <1>1 DEF AcquireOK
  <2> QED
    BY <2>1, StoreKeepsItself
<1>2. CASE Limit[k] # 0
  <2>1. PICK run \in ScriptRuns(zset[k], Limit[k], got) : zset' = [zset EXCEPT ![k] = run.z]
    BY <1>2 DEF AcquireOK
  <2>2. got \in FreshIds(p, k) /\ got \in SlotIds
    BY <1>2 DEF AcquireOK, FreshIds
  <2>3. /\ run.z \in ZSet /\ Cardinality(Present(run.z)) <= Limit[k]
        /\ \A id \in Live(zset[k]) : run.z[id] # Absent
    BY <2>2, RunEffect, ConcurrencySlotsAssumption DEF StoreOK
  <2> QED
    BY <2>1, <2>2, <2>3, OneSet, OneSetKeeps
<1> QED
  BY <1>1, <1>2

\* A refused call has purged and no more: a second run knows the slot of the first.
LEMMA RefusedPurges ==
  ASSUME NEW z \in ZSet, NEW cap, NEW i \in SlotIds, NEW run \in ScriptRuns(z, cap, i),
         ~run.granted
  PROVE  run.z = Purge(z)
<1> DEFINE once == AcquireResult(z, cap, i)
<1>1. Purge(z) \in ZSet
  BY PurgeKeepsLive
<1>2. ~AcquireGrants(z, cap, i)
  <2> SUFFICES ASSUME AcquireGrants(z, cap, i) PROVE AcquireGrants(once, cap, i)
    BY DEF ScriptRuns
  <2>1. once = [Purge(z) EXCEPT ![i] = 0]
    BY DEF AcquireResult
  <2>2. once[i] = 0
    BY <1>1, <2>1 DEF ZSet
  <2>3. i \in Present(Purge(once))
    BY <2>2, RedisSlotsAssumption DEF Purge, Present, Absent
  <2> QED
    BY <2>3 DEF AcquireGrants, AcquireRefreshes
<1>3. once = Purge(z)
  BY <1>2 DEF AcquireResult
<1>4. CASE run.z = once
  BY <1>3, <1>4
<1>5. CASE run.z = AcquireResult(once, cap, i) /\ run.granted = AcquireGrants(once, cap, i)
  <2>1. run.z = Purge(Purge(z))
    BY <1>3, <1>5 DEF AcquireResult
  <2>2. Purge(Purge(z)) = Purge(z)
    BY <1>1, RedisSlotsAssumption DEF Purge, ZSet, Absent, Age
  <2> QED
    BY <2>1, <2>2
<1> QED
  BY <1>4, <1>5 DEF ScriptRuns

LEMMA AcquireRefusedEffect ==
  ASSUME StoreOK(zset), NEW k \in Keys, NEW p, AcquireRefused(p, k)
  PROVE  StoreOK(zset') /\ Keeps(zset, zset')
<1> DEFINE z == Purge(zset[k])
<1>1. zset' = [zset EXCEPT ![k] = z]
  BY RefusedPurges DEF AcquireRefused, FreshIds, StoreOK
<1>2. z \in ZSet /\ Present(z) \subseteq Present(zset[k]) /\ \A id \in Live(zset[k]) : z[id] # Absent
  BY PurgeKeepsLive DEF StoreOK
<1>3. Cardinality(Present(z)) <= Limit[k]
  BY <1>2, FewerWithinLimit, ConcurrencySlotsAssumption DEF StoreOK
<1> QED
  BY <1>1, <1>2, <1>3, OneSet, OneSetKeeps

LEMMA AcquireLostEffect ==
  ASSUME StoreOK(zset), NEW k \in Keys, NEW p, AcquireLost(p, k)
  PROVE  StoreOK(zset') /\ Keeps(zset, zset')
<1>1. PICK i \in FreshIds(p, k) : zset' = [zset EXCEPT ![k] = AcquireResult(@, Limit[k], i)]
  BY DEF AcquireLost
<1> DEFINE z == AcquireResult(zset[k], Limit[k], i)
<1>2. i \in SlotIds
  BY DEF FreshIds
<1>3. zset' = [zset EXCEPT ![k] = z]
  BY <1>1
<1>4. /\ z \in ZSet /\ Cardinality(Present(z)) <= Limit[k]
      /\ \A id \in Live(zset[k]) : z[id] # Absent
  BY <1>2, AcquireScript, ConcurrencySlotsAssumption DEF StoreOK
<1> QED
  BY <1>3, <1>4, OneSet, OneSetKeeps

\* A release takes out at most the slot it names.
LEMMA ReleaseEffect ==
  ASSUME StoreOK(zset), NEW k \in Keys, NEW i, ReleaseSlot(k, i)
  PROVE  /\ StoreOK(zset')
         /\ \A j \in Keys : \A id \in Live(zset[j]) :
              (j # k \/ id # i) => zset'[j][id] # Absent
<1>1. CASE zset' = zset
  BY <1>1, StoreKeepsItself DEF Keeps
<1>2. CASE i \in SlotIds /\ zset' = [zset EXCEPT ![k] = Remove(@, i)]
  <2> DEFINE z == Remove(zset[k], i)
  <2>1. z \in ZSet /\ Present(z) \subseteq Present(zset[k])
    BY <1>2 DEF StoreOK, Remove, ZSet, Present, Absent
  <2>2. Cardinality(Present(z)) <= Limit[k]
    BY <2>1, FewerWithinLimit, ConcurrencySlotsAssumption DEF StoreOK
  <2>3. StoreOK(zset')
    BY <1>2, <2>1, <2>2, OneSet
  <2>4. ASSUME NEW j \in Keys, NEW id \in Live(zset[j]), j # k \/ id # i
        PROVE  zset'[j][id] # Absent
    BY <1>2, <2>4 DEF StoreOK, Remove, ZSet, Live
  <2> QED
    BY <2>3, <2>4
<1> QED
  BY <1>1, <1>2 DEF ReleaseSlot

\* Purging, ageing, emptying and sweeping the sets.
LEMMA SweepEffect ==
  ASSUME StoreOK(zset), NEW y,
         \A k \in Keys : y[k] \in ZSet /\ Present(y[k]) \subseteq Present(zset[k]),
         y = [k \in Keys |-> y[k]]
  PROVE  StoreOK(y)
<1>1. \A k \in Keys : Cardinality(Present(y[k])) <= Limit[k]
  BY FewerWithinLimit, ConcurrencySlotsAssumption DEF StoreOK
<1>2. y \in [Keys -> ZSet]
  OBVIOUS
<1> QED
  BY <1>1, <1>2 DEF StoreOK

LEMMA OlderEffect ==
  ASSUME NEW z \in ZSet
  PROVE  /\ Older(z) \in ZSet /\ Present(Older(z)) \subseteq Present(z)
         /\ \A id \in Live(z) : Older(z)[id] # Absent
BY RedisSlotsAssumption DEF Older, ZSet, Age, Absent, Present, Live

LEMMA KeepOnlyEffect ==
  ASSUME NEW z \in ZSet, NEW own
  PROVE  /\ KeepOnly(z, own) \in ZSet /\ Present(KeepOnly(z, own)) \subseteq Present(z)
         /\ \A id \in own \cap SlotIds : KeepOnly(z, own)[id] = z[id]
BY DEF KeepOnly, ZSet, Present

LEMMA EmptyEffect == EmptyZSet \in ZSet /\ Present(EmptyZSet) = {}
BY DEF EmptyZSet, ZSet, Present

\* The wait counters: types, and how far a call moves them.
LEMMA WaitOps ==
  ASSUME NEW w \in Waits
  PROVE  NoWaiters \in Waits /\ OlderWait(w) \in Waits
BY RedisSlotsAssumption DEF Waits, NoWaiters, OlderWait

LEMMA IncrementOps ==
  ASSUME NEW w \in Waits, NEW maxWait \in Nat, NEW runs \in Runs
  PROVE  /\ IncrementResult(w, maxWait, runs) \in Waits
         /\ IncrementResult(w, maxWait, runs).n <= w.n + runs
         /\ ~IncrementGrants(w, maxWait, runs) =>
              IncrementResult(w, maxWait, runs).n <= w.n + (runs - 1)
<1>1. runs \in Nat /\ runs >= 1
  BY ConcurrencySlotsAssumption DEF Runs
<1>2. w.n \in Nat /\ w.n + runs \in Nat
  BY <1>1 DEF Waits
<1>3. CASE w.n >= maxWait
  BY <1>1, <1>2, <1>3 DEF IncrementResult
<1>4. CASE ~(w.n >= maxWait)
  <2> DEFINE m == IF w.n + runs <= maxWait THEN w.n + runs ELSE maxWait
  <2>1. IncrementResult(w, maxWait, runs) = [n |-> m, age |-> 0]
    BY <1>4 DEF IncrementResult
  <2>2. m \in Nat /\ m <= w.n + runs /\ (~(w.n + runs <= maxWait) => m <= w.n + (runs - 1))
    BY <1>1, <1>2, <1>4
  <2> QED
    BY <2>1, <2>2, RedisSlotsAssumption DEF Waits, IncrementGrants
<1> QED
  BY <1>3, <1>4

LEMMA DecrementOps ==
  ASSUME NEW w \in Waits, NEW runs \in Runs
  PROVE  /\ DecrementResult(w, runs) \in Waits
         /\ DecrementResult(w, runs).n = 0 \/ DecrementResult(w, runs).n <= w.n - 1
<1>1. runs \in Nat /\ runs >= 1 /\ w.n \in Nat
  BY ConcurrencySlotsAssumption DEF Runs, Waits
<1>2. CASE w.n <= runs
  BY <1>2, RedisSlotsAssumption DEF DecrementResult, NoWaiters, Waits
<1>3. CASE ~(w.n <= runs)
  <2>1. w.n - runs \in Nat /\ w.n - runs <= w.n - 1
    BY <1>1, <1>3
  <2>2. DecrementResult(w, runs) = [w EXCEPT !.n = w.n - runs]
    BY <1>3 DEF DecrementResult
  <2> QED
    BY <2>1, <2>2 DEF Waits
<1> QED
  BY <1>2, <1>3

\* The mishaps of a call are counted and stay within their bound.
MishapsOK == /\ faults \in Nat /\ resent \in Nat /\ unhydrated \in Nat
             /\ faults + resent + unhydrated <= MaxMishaps

LEMMA MishapsCounted ==
  ASSUME MishapsOK, NEW f \in Nat, NEW g \in Nat, NEW u \in Nat, Mishaps(f, g, u)
  PROVE  MishapsOK'
BY DEF MishapsOK, Mishaps

LEMMA MishapsOfACall ==
  ASSUME MishapsOK, NEW f \in {0, 1}, NEW runs \in Runs, Mishaps(f, runs - 1, 0)
  PROVE  MishapsOK'
<1>1. f \in Nat /\ runs - 1 \in Nat
  BY ConcurrencySlotsAssumption DEF Runs
<1> QED
  BY <1>1, MishapsCounted

LEMMA FaultOK ==
  ASSUME MishapsOK, Fault \/ NoFault
  PROVE  MishapsOK'
<1>1. CASE Fault
  BY <1>1, MishapsCounted DEF Fault
<1>2. CASE NoFault
  BY <1>2 DEF MishapsOK, NoFault, mishaps
<1> QED
  BY <1>1, <1>2

LEMMA LeaveQueueType ==
  ASSUME TypeOK, MishapsOK, NEW r \in Requests, LeaveQueue(r)
  PROVE  /\ wait' \in [Keys -> Waits]
         /\ counted' \in [Requests -> Keys \cup {NoKey}]
         /\ MishapsOK'
<1>1. counted' \in [Requests -> Keys \cup {NoKey}]
  BY DEF TypeOK, LeaveQueue
<1>2. CASE UNCHANGED wait /\ (Fault \/ NoFault)
  BY <1>1, <1>2, FaultOK DEF TypeOK
<1>3. ASSUME counted[r] # NoKey, NEW runs \in Runs, NEW failed \in {0, 1},
             wait' = [wait EXCEPT ![counted[r]] = DecrementResult(@, runs)],
             Mishaps(failed, runs - 1, 0)
      PROVE  wait' \in [Keys -> Waits] /\ MishapsOK'
  <2>1. counted[r] \in Keys /\ wait[counted[r]] \in Waits
    BY <1>3 DEF TypeOK
  <2>2. DecrementResult(wait[counted[r]], runs) \in Waits
    BY <2>1, DecrementOps
  <2> QED
    BY <1>3, <2>1, <2>2, MishapsOfACall DEF TypeOK
<1> QED
  BY <1>1, <1>2, <1>3 DEF LeaveQueue

LEMMA EnterQueueType ==
  ASSUME TypeOK, MishapsOK, NEW r \in Requests, NEW k \in Keys, NEW next \in PCs,
         EnterQueue(r, k, next)
  PROVE  /\ wait' \in [Keys -> Waits]
         /\ counted' \in [Requests -> Keys \cup {NoKey}]
         /\ pc' \in [Requests -> PCs]
         /\ MishapsOK'
<1>1. counted' \in [Requests -> Keys \cup {NoKey}] /\ pc' \in [Requests -> PCs]
  BY DEF TypeOK, EnterQueue, Go
<1>2. CASE UNCHANGED wait /\ Fault
  BY <1>1, <1>2, FaultOK DEF TypeOK
<1>3. ASSUME NEW runs \in Runs, NEW failed \in {0, 1},
             wait' = [wait EXCEPT ![k] = IncrementResult(@, MaxWait[k], runs)],
             Mishaps(failed, runs - 1, 0)
      PROVE  wait' \in [Keys -> Waits] /\ MishapsOK'
  <2>1. IncrementResult(wait[k], MaxWait[k], runs) \in Waits
    BY IncrementOps, ConcurrencySlotsAssumption DEF TypeOK
  <2> QED
    BY <1>3, <2>1, MishapsOfACall DEF TypeOK
<1> QED
  BY <1>1, <1>2, <1>3 DEF EnterQueue

LEMMA QueueFullType ==
  ASSUME TypeOK, MishapsOK, NEW k \in Keys, QueueFull(k)
  PROVE  wait' \in [Keys -> Waits] /\ MishapsOK'
<1>1. PICK runs \in Runs :
        /\ wait' = [wait EXCEPT ![k] = IncrementResult(@, MaxWait[k], runs)]
        /\ Mishaps(0, runs - 1, 0)
  BY DEF QueueFull
<1>2. IncrementResult(wait[k], MaxWait[k], runs) \in Waits
  BY IncrementOps, ConcurrencySlotsAssumption DEF TypeOK
<1> QED
  BY <1>1, <1>2, MishapsOfACall DEF TypeOK

LEMMA ReleaseFaults ==
  ASSUME MishapsOK, NEW k, NEW i, ReleaseSlot(k, i)
  PROVE  MishapsOK'
BY FaultOK DEF ReleaseSlot

-------------------------------------------------------------------------------
(* Every step preserves the types and the limit of every set.              *)

LEMMA RequestKeys == \A r \in Requests : UserOf[r] \in Keys
BY ConcurrencySlotsAssumption DEF Keys

LEMMA AccountKeys == \A a \in Accounts : a \in Keys
BY DEF Keys

LEMMA TypeStep ==
  ASSUME TypeOK, StoreOK(zset), HeldInPhase, Next
  PROVE  TypeOK' /\ StoreOK(zset')
<1> USE ConcurrencySlotsAssumption DEF TypeOK, MishapsOK, processes
<1>z. ASSUME NEW y, StoreOK(y) PROVE y \in [Keys -> ZSet]
  BY <1>z DEF StoreOK
<1>1. ASSUME NEW r \in Requests, EnterUserQueue(r) PROVE TypeOK' /\ StoreOK(zset')
  BY <1>1, <1>z, EnterQueueType, RequestKeys DEF EnterUserQueue, Arrives, Up, PCs
<1>2. ASSUME NEW r \in Requests, UserQueueFull(r) PROVE TypeOK' /\ StoreOK(zset')
  BY <1>2, <1>z, QueueFullType, RequestKeys DEF UserQueueFull, Arrives, Up, Go, PCs
<1>3. ASSUME NEW r \in Requests, TakeUserSlot(r) PROVE TypeOK' /\ StoreOK(zset')
  BY <1>3, <1>z, AcquireOKEffect, RequestKeys DEF TakeUserSlot, mishaps, Go, PCs, FreshIds, Ids
<1>4. ASSUME NEW r \in Requests, RetryUserSlot(r) PROVE TypeOK' /\ StoreOK(zset')
  BY <1>4, <1>z, AcquireRefusedEffect, RequestKeys DEF RetryUserSlot, mishaps
<1>5. ASSUME NEW r \in Requests, GiveUpUserSlot(r) PROVE TypeOK' /\ StoreOK(zset')
  BY <1>5, <1>z, AcquireLostEffect, FaultOK, RequestKeys DEF GiveUpUserSlot, Go, PCs, mishaps
<1>6. ASSUME NEW r \in Requests, LeaveUserQueue(r) PROVE TypeOK' /\ StoreOK(zset')
  BY <1>6, <1>z, LeaveQueueType DEF LeaveUserQueue, Go, PCs
<1>7. ASSUME NEW r \in Requests, NoAccount(r) PROVE TypeOK' /\ StoreOK(zset')
  BY <1>7, <1>z DEF NoAccount, mishaps, Go, PCs
<1>8. ASSUME NEW r \in Requests, NEW a \in Accounts, SelectWithSlot(r, a) PROVE TypeOK' /\ StoreOK(zset')
  BY <1>8, <1>z, AcquireOKEffect, AccountKeys DEF SelectWithSlot, mishaps, Go, PCs, FreshIds, Ids
<1>8a. ASSUME NEW r \in Requests, SessionFull(r) PROVE TypeOK' /\ StoreOK(zset')
  BY <1>8a, <1>z, ReleaseEffect, ReleaseFaults, AccountKeys DEF SessionFull, Go, PCs, Ids, HeldInPhase, Serving
<1>8b. ASSUME NEW r \in Requests, NotHydrated(r) PROVE TypeOK' /\ StoreOK(zset')
  <2>1. MishapsOK'
    BY <1>8b, MishapsCounted DEF NotHydrated
  <2> QED
    BY <1>8b, <1>z, <2>1 DEF NotHydrated, Go, PCs, Ids
<1>8c. ASSUME NEW r \in Requests, NEW a \in Accounts, SelectNext(r, a) PROVE TypeOK' /\ StoreOK(zset')
  <2>1. StoreOK(zset') /\ MishapsOK'
    BY <1>8c, AcquireRefusedEffect, AcquireLostEffect, FaultOK, AccountKeys DEF SelectNext
  <2> QED
    BY <1>8c, <1>z, <2>1 DEF SelectNext
<1>9. ASSUME NEW r \in Requests, NEW a \in Accounts, SelectToWait(r, a) PROVE TypeOK' /\ StoreOK(zset')
  BY <1>9, <1>z, EnterQueueType, AccountKeys DEF SelectToWait, PCs
<1>10. ASSUME NEW r \in Requests, NEW a \in Accounts, AcctQueueFull(r, a) PROVE TypeOK' /\ StoreOK(zset')
  BY <1>10, <1>z, QueueFullType, AccountKeys DEF AcctQueueFull, Go, PCs
<1>11. ASSUME NEW r \in Requests, TakeAcctSlot(r) PROVE TypeOK' /\ StoreOK(zset')
  BY <1>11, <1>z, AcquireOKEffect, AccountKeys DEF TakeAcctSlot, mishaps, Go, PCs, FreshIds, Ids, HeldInPhase, Serving
<1>12. ASSUME NEW r \in Requests, RetryAcctSlot(r) PROVE TypeOK' /\ StoreOK(zset')
  BY <1>12, <1>z, AcquireRefusedEffect, AccountKeys DEF RetryAcctSlot, mishaps, HeldInPhase, Serving
<1>13. ASSUME NEW r \in Requests, GiveUpAcctSlot(r) PROVE TypeOK' /\ StoreOK(zset')
  BY <1>13, <1>z, AcquireLostEffect, FaultOK, AccountKeys DEF GiveUpAcctSlot, Go, PCs, mishaps, HeldInPhase, Serving
<1>14. ASSUME NEW r \in Requests, LeaveAcctQueue(r) PROVE TypeOK' /\ StoreOK(zset')
  BY <1>14, <1>z, LeaveQueueType DEF LeaveAcctQueue, Go, PCs
<1>15. ASSUME NEW r \in Requests, Intercept(r) PROVE TypeOK' /\ StoreOK(zset')
  BY <1>15, <1>z, ReleaseEffect, ReleaseFaults, AccountKeys DEF Intercept, Go, PCs, Ids, HeldInPhase, Serving
<1>16. ASSUME NEW r \in Requests, StartForward(r) PROVE TypeOK' /\ StoreOK(zset')
  BY <1>16, <1>z DEF StartForward, mishaps, Go, PCs
<1>17. ASSUME NEW r \in Requests, ForwardEnds(r) PROVE TypeOK' /\ StoreOK(zset')
  BY <1>17, <1>z, ReleaseEffect, ReleaseFaults, AccountKeys DEF ForwardEnds, ForwardReturns, Go, PCs, Ids, HeldInPhase, Serving
<1>18. ASSUME NEW r \in Requests, FailOver(r) PROVE TypeOK' /\ StoreOK(zset')
  BY <1>18, <1>z, ReleaseEffect, ReleaseFaults, AccountKeys DEF FailOver, ForwardReturns, Go, PCs, Ids, HeldInPhase, Serving
<1>19. ASSUME NEW r \in Requests, ForwardPanics(r) PROVE TypeOK' /\ StoreOK(zset')
  BY <1>19, <1>z DEF ForwardPanics, mishaps, Go, PCs
<1>20. ASSUME NEW r \in Requests, End(r) PROVE TypeOK' /\ StoreOK(zset')
  BY <1>20, <1>z, ReleaseEffect, ReleaseFaults, LeaveQueueType, RequestKeys DEF End, Go, PCs, Ids
<1>21. ASSUME NEW r \in Requests, ClientLeaves(r) PROVE TypeOK' /\ StoreOK(zset')
  BY <1>21, <1>z DEF ClientLeaves, mishaps
<1>22. ASSUME NEW r \in Requests, ReleaseUserOnDone(r) PROVE TypeOK' /\ StoreOK(zset')
  BY <1>22, <1>z, ReleaseEffect, ReleaseFaults, RequestKeys DEF ReleaseUserOnDone, Ids
<1>23. ASSUME NEW r \in Requests, ReleaseAcctOnDone(r) PROVE TypeOK' /\ StoreOK(zset')
  BY <1>23, <1>z, ReleaseEffect, ReleaseFaults, AccountKeys DEF ReleaseAcctOnDone, Ids, HeldInPhase
<1>24. ASSUME NEW a \in Accounts, CleanupAccount(a) PROVE TypeOK' /\ StoreOK(zset')
  <2>1. Purge(zset[a]) \in ZSet /\ Cardinality(Present(Purge(zset[a]))) <= Limit[a]
    BY AccountKeys, PurgeKeepsLive, FewerWithinLimit DEF StoreOK, Keys
  <2>2. StoreOK(zset')
    BY <1>24, <2>1, OneSet, AccountKeys DEF CleanupAccount
  <2> QED
    BY <1>24, <1>z, <2>2 DEF CleanupAccount, mishaps
<1>25. ASSUME NEW k \in Keys, SlotKeyExpires(k) PROVE TypeOK' /\ StoreOK(zset')
  <2>1. EmptyZSet \in ZSet /\ Cardinality(Present(EmptyZSet)) <= Limit[k]
    BY EmptyEffect, FS_EmptySet
  <2>2. StoreOK(zset')
    BY <1>25, <2>1, OneSet DEF SlotKeyExpires
  <2> QED
    BY <1>25, <1>z, <2>2 DEF SlotKeyExpires, mishaps
<1>26. ASSUME NEW k \in Keys, WaitKeyExpires(k) PROVE TypeOK' /\ StoreOK(zset')
  BY <1>26, WaitOps DEF WaitKeyExpires, mishaps
<1>27. ASSUME Tick PROVE TypeOK' /\ StoreOK(zset')
  <2>1. \A k \in Keys : zset'[k] \in ZSet /\ Present(zset'[k]) \subseteq Present(zset[k])
    BY <1>27, OlderEffect DEF Tick
  <2>2. StoreOK(zset')
    BY <1>27, <2>1, SweepEffect DEF Tick
  <2>3. wait' \in [Keys -> Waits]
    BY <1>27, WaitOps DEF Tick
  <2> QED
    BY <1>27, <1>z, <2>2, <2>3 DEF Tick, mishaps
<1>28. ASSUME NEW p \in Procs, Die(p) PROVE TypeOK' /\ StoreOK(zset')
  <2>1. zset' = zset /\ wait' = wait /\ older' = older /\ MishapsOK'
    BY <1>28 DEF Die, mishaps
  <2>2. /\ pc' \in [Requests -> PCs]
        /\ userSlot' \in [Requests -> Ids] /\ acctSlot' \in [Requests -> Ids]
        /\ gone' \in [Requests -> BOOLEAN] /\ switches' \in [Requests -> 0..MaxSwitches]
    BY <1>28 DEF Die, PCs, Ids
  <2>3. /\ account' \in [Requests -> Accounts \cup {NoKey}]
        /\ counted' \in [Requests -> Keys \cup {NoKey}]
        /\ home' \in [Requests -> Procs \cup {NoProc}]
        /\ life' \in [Procs -> {"off", "up", "dead"}]
    BY <1>28 DEF Die
  <2> QED
    BY <2>1, <2>2, <2>3
<1>29. ASSUME NEW p \in Procs, StartupCleanup(p) PROVE TypeOK' /\ StoreOK(zset')
  <2>1. \A k \in Keys : zset'[k] = zset[k] \/ zset'[k] = KeepOnly(zset[k], OwnIds(p))
    BY <1>29 DEF StartupCleanup
  <2>2. \A k \in Keys : zset'[k] \in ZSet /\ Present(zset'[k]) \subseteq Present(zset[k])
    BY <2>1, KeepOnlyEffect
  <2>3. zset' = [k \in Keys |-> zset'[k]]
    BY <1>29 DEF StartupCleanup
  <2>4. StoreOK(zset')
    BY <2>2, <2>3, SweepEffect
  <2>5. wait' \in [Keys -> Waits]
    BY <1>29, WaitOps DEF StartupCleanup
  <2>6. life' \in [Procs -> {"off", "up", "dead"}] /\ older' \in [Procs -> SUBSET Procs]
    BY <1>29 DEF StartupCleanup, Dead
  <2>7. MishapsOK'
    BY <1>29, FaultOK DEF StartupCleanup
  <2> QED
    BY <1>29, <1>z, <2>4, <2>5, <2>6, <2>7 DEF StartupCleanup
<1> QED
  BY <1>1, <1>2, <1>3, <1>4, <1>5, <1>6, <1>7, <1>8, <1>8a, <1>8b, <1>8c, <1>9, <1>10, <1>11, <1>12, <1>13, <1>14, <1>15, <1>16, <1>17, <1>18, <1>19, <1>20, <1>21, <1>22, <1>23, <1>24, <1>25, <1>26, <1>27, <1>28, <1>29 DEF Next, Handler, Callback

-------------------------------------------------------------------------------
(* Who holds what.                                                         *)

LEMMA PhaseStep ==
  ASSUME TypeOK, HeldInPhase, Next
  PROVE  HeldInPhase'
<1> USE ConcurrencySlotsAssumption DEF TypeOK, HeldInPhase, Go, Serving, PCs
<1>1. ASSUME NEW r \in Requests, EnterUserQueue(r) PROVE HeldInPhase'
  BY <1>1 DEF EnterUserQueue, Arrives, EnterQueue
<1>2. ASSUME NEW r \in Requests, UserQueueFull(r) PROVE HeldInPhase'
  BY <1>2 DEF UserQueueFull, Arrives
<1>3. ASSUME NEW r \in Requests, TakeUserSlot(r) PROVE HeldInPhase'
  BY <1>3 DEF TakeUserSlot
<1>4. ASSUME NEW r \in Requests, RetryUserSlot(r) PROVE HeldInPhase'
  BY <1>4 DEF RetryUserSlot
<1>5. ASSUME NEW r \in Requests, GiveUpUserSlot(r) PROVE HeldInPhase'
  BY <1>5 DEF GiveUpUserSlot
<1>6. ASSUME NEW r \in Requests, LeaveUserQueue(r) PROVE HeldInPhase'
  BY <1>6 DEF LeaveUserQueue
<1>7. ASSUME NEW r \in Requests, NoAccount(r) PROVE HeldInPhase'
  BY <1>7 DEF NoAccount
<1>8. ASSUME NEW r \in Requests, NEW a \in Accounts, SelectWithSlot(r, a) PROVE HeldInPhase'
  BY <1>8 DEF SelectWithSlot
<1>8a. ASSUME NEW r \in Requests, SessionFull(r) PROVE HeldInPhase'
  BY <1>8a DEF SessionFull
<1>8b. ASSUME NEW r \in Requests, NotHydrated(r) PROVE HeldInPhase'
  BY <1>8b DEF NotHydrated
<1>8c. ASSUME NEW r \in Requests, NEW a \in Accounts, SelectNext(r, a) PROVE HeldInPhase'
  BY <1>8c DEF SelectNext
<1>9. ASSUME NEW r \in Requests, NEW a \in Accounts, SelectToWait(r, a) PROVE HeldInPhase'
  BY <1>9 DEF SelectToWait, EnterQueue
<1>10. ASSUME NEW r \in Requests, NEW a \in Accounts, AcctQueueFull(r, a) PROVE HeldInPhase'
  BY <1>10 DEF AcctQueueFull
<1>11. ASSUME NEW r \in Requests, TakeAcctSlot(r) PROVE HeldInPhase'
  BY <1>11 DEF TakeAcctSlot
<1>12. ASSUME NEW r \in Requests, RetryAcctSlot(r) PROVE HeldInPhase'
  BY <1>12 DEF RetryAcctSlot
<1>13. ASSUME NEW r \in Requests, GiveUpAcctSlot(r) PROVE HeldInPhase'
  BY <1>13 DEF GiveUpAcctSlot
<1>14. ASSUME NEW r \in Requests, LeaveAcctQueue(r) PROVE HeldInPhase'
  BY <1>14 DEF LeaveAcctQueue
<1>15. ASSUME NEW r \in Requests, Intercept(r) PROVE HeldInPhase'
  BY <1>15 DEF Intercept
<1>16. ASSUME NEW r \in Requests, StartForward(r) PROVE HeldInPhase'
  BY <1>16 DEF StartForward
<1>17. ASSUME NEW r \in Requests, ForwardEnds(r) PROVE HeldInPhase'
  BY <1>17 DEF ForwardEnds, ForwardReturns
<1>18. ASSUME NEW r \in Requests, FailOver(r) PROVE HeldInPhase'
  BY <1>18 DEF FailOver, ForwardReturns
<1>19. ASSUME NEW r \in Requests, ForwardPanics(r) PROVE HeldInPhase'
  BY <1>19 DEF ForwardPanics
<1>20. ASSUME NEW r \in Requests, End(r) PROVE HeldInPhase'
  BY <1>20 DEF End
<1>21. ASSUME NEW r \in Requests, ClientLeaves(r) PROVE HeldInPhase'
  BY <1>21 DEF ClientLeaves
<1>22. ASSUME NEW r \in Requests, ReleaseUserOnDone(r) PROVE HeldInPhase'
  BY <1>22 DEF ReleaseUserOnDone, UserRegistered
<1>23. ASSUME NEW r \in Requests, ReleaseAcctOnDone(r) PROVE HeldInPhase'
  BY <1>23 DEF ReleaseAcctOnDone, AcctRegistered
<1>24. ASSUME NEW a \in Accounts, CleanupAccount(a) PROVE HeldInPhase'
  BY <1>24 DEF CleanupAccount
<1>25. ASSUME NEW k \in Keys, SlotKeyExpires(k) PROVE HeldInPhase'
  BY <1>25 DEF SlotKeyExpires
<1>26. ASSUME NEW k \in Keys, WaitKeyExpires(k) PROVE HeldInPhase'
  BY <1>26 DEF WaitKeyExpires
<1>27. ASSUME Tick PROVE HeldInPhase'
  BY <1>27 DEF Tick
<1>28. ASSUME NEW p \in Procs, Die(p) PROVE HeldInPhase'
  BY <1>28 DEF Die
<1>29. ASSUME NEW p \in Procs, StartupCleanup(p) PROVE HeldInPhase'
  BY <1>29 DEF StartupCleanup
<1> QED
  BY <1>1, <1>2, <1>3, <1>4, <1>5, <1>6, <1>7, <1>8, <1>8a, <1>8b, <1>8c, <1>9, <1>10, <1>11, <1>12, <1>13, <1>14, <1>15, <1>16, <1>17, <1>18, <1>19, <1>20, <1>21, <1>22, <1>23, <1>24, <1>25, <1>26, <1>27, <1>28, <1>29 DEF Next, Handler, Callback

LEMMA OwnStep ==
  ASSUME TypeOK, HeldInPhase, HeldIsOwn, Next
  PROVE  HeldIsOwn'
<1> USE ConcurrencySlotsAssumption DEF TypeOK, PCs, HeldIsOwn, Up, processes, Go, Serving
<1>1. ASSUME NEW r \in Requests, EnterUserQueue(r) PROVE HeldIsOwn'
  BY <1>1 DEF EnterUserQueue, Arrives, EnterQueue, HeldInPhase
<1>2. ASSUME NEW r \in Requests, UserQueueFull(r) PROVE HeldIsOwn'
  BY <1>2 DEF UserQueueFull, Arrives, HeldInPhase
<1>3. ASSUME NEW r \in Requests, TakeUserSlot(r) PROVE HeldIsOwn'
  BY <1>3 DEF TakeUserSlot, FreshIds
<1>4. ASSUME NEW r \in Requests, RetryUserSlot(r) PROVE HeldIsOwn'
  BY <1>4 DEF RetryUserSlot
<1>5. ASSUME NEW r \in Requests, GiveUpUserSlot(r) PROVE HeldIsOwn'
  BY <1>5 DEF GiveUpUserSlot
<1>6. ASSUME NEW r \in Requests, LeaveUserQueue(r) PROVE HeldIsOwn'
  BY <1>6 DEF LeaveUserQueue
<1>7. ASSUME NEW r \in Requests, NoAccount(r) PROVE HeldIsOwn'
  BY <1>7 DEF NoAccount
<1>8. ASSUME NEW r \in Requests, NEW a \in Accounts, SelectWithSlot(r, a) PROVE HeldIsOwn'
  BY <1>8 DEF SelectWithSlot, FreshIds
<1>8a. ASSUME NEW r \in Requests, SessionFull(r) PROVE HeldIsOwn'
  BY <1>8a DEF SessionFull
<1>8b. ASSUME NEW r \in Requests, NotHydrated(r) PROVE HeldIsOwn'
  BY <1>8b DEF NotHydrated
<1>8c. ASSUME NEW r \in Requests, NEW a \in Accounts, SelectNext(r, a) PROVE HeldIsOwn'
  BY <1>8c DEF SelectNext
<1>9. ASSUME NEW r \in Requests, NEW a \in Accounts, SelectToWait(r, a) PROVE HeldIsOwn'
  BY <1>9 DEF SelectToWait, EnterQueue
<1>10. ASSUME NEW r \in Requests, NEW a \in Accounts, AcctQueueFull(r, a) PROVE HeldIsOwn'
  BY <1>10 DEF AcctQueueFull
<1>11. ASSUME NEW r \in Requests, TakeAcctSlot(r) PROVE HeldIsOwn'
  BY <1>11 DEF TakeAcctSlot, FreshIds
<1>12. ASSUME NEW r \in Requests, RetryAcctSlot(r) PROVE HeldIsOwn'
  BY <1>12 DEF RetryAcctSlot
<1>13. ASSUME NEW r \in Requests, GiveUpAcctSlot(r) PROVE HeldIsOwn'
  BY <1>13 DEF GiveUpAcctSlot
<1>14. ASSUME NEW r \in Requests, LeaveAcctQueue(r) PROVE HeldIsOwn'
  BY <1>14 DEF LeaveAcctQueue
<1>15. ASSUME NEW r \in Requests, Intercept(r) PROVE HeldIsOwn'
  BY <1>15 DEF Intercept
<1>16. ASSUME NEW r \in Requests, StartForward(r) PROVE HeldIsOwn'
  BY <1>16 DEF StartForward
<1>17. ASSUME NEW r \in Requests, ForwardEnds(r) PROVE HeldIsOwn'
  BY <1>17 DEF ForwardEnds, ForwardReturns
<1>18. ASSUME NEW r \in Requests, FailOver(r) PROVE HeldIsOwn'
  BY <1>18 DEF FailOver, ForwardReturns
<1>19. ASSUME NEW r \in Requests, ForwardPanics(r) PROVE HeldIsOwn'
  BY <1>19 DEF ForwardPanics
<1>20. ASSUME NEW r \in Requests, End(r) PROVE HeldIsOwn'
  BY <1>20 DEF End
<1>21. ASSUME NEW r \in Requests, ClientLeaves(r) PROVE HeldIsOwn'
  BY <1>21 DEF ClientLeaves
<1>22. ASSUME NEW r \in Requests, ReleaseUserOnDone(r) PROVE HeldIsOwn'
  BY <1>22 DEF ReleaseUserOnDone
<1>23. ASSUME NEW r \in Requests, ReleaseAcctOnDone(r) PROVE HeldIsOwn'
  BY <1>23 DEF ReleaseAcctOnDone
<1>24. ASSUME NEW a \in Accounts, CleanupAccount(a) PROVE HeldIsOwn'
  BY <1>24 DEF CleanupAccount
<1>25. ASSUME NEW k \in Keys, SlotKeyExpires(k) PROVE HeldIsOwn'
  BY <1>25 DEF SlotKeyExpires
<1>26. ASSUME NEW k \in Keys, WaitKeyExpires(k) PROVE HeldIsOwn'
  BY <1>26 DEF WaitKeyExpires
<1>27. ASSUME Tick PROVE HeldIsOwn'
  BY <1>27 DEF Tick
<1>28. ASSUME NEW p \in Procs, Die(p) PROVE HeldIsOwn'
  BY <1>28 DEF Die
<1>29. ASSUME NEW p \in Procs, StartupCleanup(p) PROVE HeldIsOwn'
  BY <1>29 DEF StartupCleanup
<1> QED
  BY <1>1, <1>2, <1>3, <1>4, <1>5, <1>6, <1>7, <1>8, <1>8a, <1>8b, <1>8c, <1>9, <1>10, <1>11, <1>12, <1>13, <1>14, <1>15, <1>16, <1>17, <1>18, <1>19, <1>20, <1>21, <1>22, <1>23, <1>24, <1>25, <1>26, <1>27, <1>28, <1>29 DEF Next, Handler, Callback

LEMMA DistinctStep ==
  ASSUME TypeOK, HeldInPhase, HoldersDistinct, Next
  PROVE  HoldersDistinct'
<1> USE ConcurrencySlotsAssumption DEF TypeOK, HoldersDistinct
<1>1. ASSUME NEW r \in Requests, EnterUserQueue(r) PROVE HoldersDistinct'
  BY <1>1 DEF EnterUserQueue
<1>2. ASSUME NEW r \in Requests, UserQueueFull(r) PROVE HoldersDistinct'
  BY <1>2 DEF UserQueueFull
<1>3. ASSUME NEW r \in Requests, TakeUserSlot(r) PROVE HoldersDistinct'
  BY <1>3 DEF TakeUserSlot, FreshIds, Held
<1>4. ASSUME NEW r \in Requests, RetryUserSlot(r) PROVE HoldersDistinct'
  BY <1>4 DEF RetryUserSlot
<1>5. ASSUME NEW r \in Requests, GiveUpUserSlot(r) PROVE HoldersDistinct'
  BY <1>5 DEF GiveUpUserSlot
<1>6. ASSUME NEW r \in Requests, LeaveUserQueue(r) PROVE HoldersDistinct'
  BY <1>6 DEF LeaveUserQueue
<1>7. ASSUME NEW r \in Requests, NoAccount(r) PROVE HoldersDistinct'
  BY <1>7 DEF NoAccount
<1>8. ASSUME NEW r \in Requests, NEW a \in Accounts, SelectWithSlot(r, a) PROVE HoldersDistinct'
  BY <1>8 DEF SelectWithSlot, FreshIds, Held, HeldInPhase, Serving
<1>8a. ASSUME NEW r \in Requests, SessionFull(r) PROVE HoldersDistinct'
  BY <1>8a DEF SessionFull
<1>8b. ASSUME NEW r \in Requests, NotHydrated(r) PROVE HoldersDistinct'
  BY <1>8b DEF NotHydrated
<1>8c. ASSUME NEW r \in Requests, NEW a \in Accounts, SelectNext(r, a) PROVE HoldersDistinct'
  BY <1>8c DEF SelectNext
<1>9. ASSUME NEW r \in Requests, NEW a \in Accounts, SelectToWait(r, a) PROVE HoldersDistinct'
  BY <1>9 DEF SelectToWait, HeldInPhase, Serving
<1>10. ASSUME NEW r \in Requests, NEW a \in Accounts, AcctQueueFull(r, a) PROVE HoldersDistinct'
  BY <1>10 DEF AcctQueueFull
<1>11. ASSUME NEW r \in Requests, TakeAcctSlot(r) PROVE HoldersDistinct'
  BY <1>11 DEF TakeAcctSlot, FreshIds, Held
<1>12. ASSUME NEW r \in Requests, RetryAcctSlot(r) PROVE HoldersDistinct'
  BY <1>12 DEF RetryAcctSlot
<1>13. ASSUME NEW r \in Requests, GiveUpAcctSlot(r) PROVE HoldersDistinct'
  BY <1>13 DEF GiveUpAcctSlot
<1>14. ASSUME NEW r \in Requests, LeaveAcctQueue(r) PROVE HoldersDistinct'
  BY <1>14 DEF LeaveAcctQueue
<1>15. ASSUME NEW r \in Requests, Intercept(r) PROVE HoldersDistinct'
  BY <1>15 DEF Intercept
<1>16. ASSUME NEW r \in Requests, StartForward(r) PROVE HoldersDistinct'
  BY <1>16 DEF StartForward
<1>17. ASSUME NEW r \in Requests, ForwardEnds(r) PROVE HoldersDistinct'
  BY <1>17 DEF ForwardEnds, ForwardReturns
<1>18. ASSUME NEW r \in Requests, FailOver(r) PROVE HoldersDistinct'
  BY <1>18 DEF FailOver, ForwardReturns
<1>19. ASSUME NEW r \in Requests, ForwardPanics(r) PROVE HoldersDistinct'
  BY <1>19 DEF ForwardPanics
<1>20. ASSUME NEW r \in Requests, End(r) PROVE HoldersDistinct'
  BY <1>20 DEF End
<1>21. ASSUME NEW r \in Requests, ClientLeaves(r) PROVE HoldersDistinct'
  BY <1>21 DEF ClientLeaves
<1>22. ASSUME NEW r \in Requests, ReleaseUserOnDone(r) PROVE HoldersDistinct'
  BY <1>22 DEF ReleaseUserOnDone
<1>23. ASSUME NEW r \in Requests, ReleaseAcctOnDone(r) PROVE HoldersDistinct'
  BY <1>23 DEF ReleaseAcctOnDone
<1>24. ASSUME NEW a \in Accounts, CleanupAccount(a) PROVE HoldersDistinct'
  BY <1>24 DEF CleanupAccount
<1>25. ASSUME NEW k \in Keys, SlotKeyExpires(k) PROVE HoldersDistinct'
  BY <1>25 DEF SlotKeyExpires
<1>26. ASSUME NEW k \in Keys, WaitKeyExpires(k) PROVE HoldersDistinct'
  BY <1>26 DEF WaitKeyExpires
<1>27. ASSUME Tick PROVE HoldersDistinct'
  BY <1>27 DEF Tick
<1>28. ASSUME NEW p \in Procs, Die(p) PROVE HoldersDistinct'
  BY <1>28 DEF Die
<1>29. ASSUME NEW p \in Procs, StartupCleanup(p) PROVE HoldersDistinct'
  BY <1>29 DEF StartupCleanup
<1> QED
  BY <1>1, <1>2, <1>3, <1>4, <1>5, <1>6, <1>7, <1>8, <1>8a, <1>8b, <1>8c, <1>9, <1>10, <1>11, <1>12, <1>13, <1>14, <1>15, <1>16, <1>17, <1>18, <1>19, <1>20, <1>21, <1>22, <1>23, <1>24, <1>25, <1>26, <1>27, <1>28, <1>29 DEF Next, Handler, Callback

-------------------------------------------------------------------------------
(* No step takes a live slot away from its holder.                         *)

LEMMA KeepsSuffices ==
  ASSUME Keeps(zset, zset')
  PROVE  KeepsLiveSlots
BY DEF Keeps, KeepsLiveSlots

LEMMA KeepsUnchanged ==
  ASSUME zset' = zset
  PROVE  KeepsLiveSlots
BY DEF KeepsLiveSlots, Live

\* The release of a request's own slot, which no other request holds.
LEMMA AcctReleaseKeeps ==
  ASSUME TypeOK, StoreOK(zset), HoldersDistinct, HeldInPhase,
         NEW r \in Requests, account[r] \in Accounts, ReleaseSlot(account[r], acctSlot[r]),
         acctSlot' = [acctSlot EXCEPT ![r] = NoId], userSlot' = userSlot,
         \A s \in Requests : s # r => account'[s] = account[s]
  PROVE  KeepsLiveSlots
<1> SUFFICES ASSUME NEW k \in Keys, NEW id \in SlotIds,
                    id \in Live(zset[k]), Held(k, id), Held(k, id)'
             PROVE  zset'[k][id] # Absent
  BY DEF KeepsLiveSlots, Live
<1>1. k # account[r] \/ id # acctSlot[r]
  <2> SUFFICES ASSUME k = account[r], id = acctSlot[r] PROVE FALSE
    OBVIOUS
  <2>1. \A s \in Requests : UserOf[s] # k
    BY ConcurrencySlotsAssumption
  <2>2. PICK s \in Requests : account'[s] = k /\ acctSlot'[s] = id
    BY <2>1 DEF Held
  <2>3. s # r /\ account[s] = account[r] /\ acctSlot[s] = acctSlot[r]
    BY <2>2, ConcurrencySlotsAssumption DEF TypeOK
  <2> QED
    BY <2>3 DEF HoldersDistinct
<1> QED
  BY <1>1, ReleaseEffect, AccountKeys

LEMMA UserReleaseKeeps ==
  ASSUME TypeOK, StoreOK(zset), HoldersDistinct,
         NEW r \in Requests, ReleaseSlot(UserOf[r], userSlot[r]),
         userSlot' = [userSlot EXCEPT ![r] = NoId],
         acctSlot' = acctSlot, account' = account
  PROVE  KeepsLiveSlots
<1> SUFFICES ASSUME NEW k \in Keys, NEW id \in SlotIds,
                    id \in Live(zset[k]), Held(k, id), Held(k, id)'
             PROVE  zset'[k][id] # Absent
  BY DEF KeepsLiveSlots, Live
<1>1. k # UserOf[r] \/ id # userSlot[r]
  <2> SUFFICES ASSUME k = UserOf[r], id = userSlot[r] PROVE FALSE
    OBVIOUS
  <2>1. \A s \in Requests : account[s] # k
    BY ConcurrencySlotsAssumption DEF TypeOK, Keys
  <2>2. PICK s \in Requests : UserOf[s] = k /\ userSlot'[s] = id
    BY <2>1 DEF Held
  <2>3. s # r /\ UserOf[s] = UserOf[r] /\ userSlot[s] = userSlot[r]
    BY <2>2, ConcurrencySlotsAssumption DEF TypeOK
  <2> QED
    BY <2>3 DEF HoldersDistinct
<1> QED
  BY <1>1, ReleaseEffect, RequestKeys

LEMMA KeepsStep ==
  ASSUME TypeOK, StoreOK(zset), HoldersDistinct, HeldInPhase, HeldIsOwn, Next
  PROVE  KeepsLiveSlots
<1>1. ASSUME NEW r \in Requests, EnterUserQueue(r) PROVE KeepsLiveSlots
  BY <1>1, KeepsUnchanged DEF EnterUserQueue
<1>2. ASSUME NEW r \in Requests, UserQueueFull(r) PROVE KeepsLiveSlots
  BY <1>2, KeepsUnchanged DEF UserQueueFull
<1>3. ASSUME NEW r \in Requests, TakeUserSlot(r) PROVE KeepsLiveSlots
  <2>1. Keeps(zset, zset')
    BY <1>3, AcquireOKEffect, RequestKeys DEF TakeUserSlot
  <2> QED
    BY <2>1, KeepsSuffices
<1>4. ASSUME NEW r \in Requests, RetryUserSlot(r) PROVE KeepsLiveSlots
  <2>1. Keeps(zset, zset')
    BY <1>4, AcquireRefusedEffect, RequestKeys DEF RetryUserSlot
  <2> QED
    BY <2>1, KeepsSuffices
<1>5. ASSUME NEW r \in Requests, GiveUpUserSlot(r) PROVE KeepsLiveSlots
  <2>1. Keeps(zset, zset')
    BY <1>5, AcquireLostEffect, StoreKeepsItself, RequestKeys DEF GiveUpUserSlot
  <2> QED
    BY <2>1, KeepsSuffices
<1>6. ASSUME NEW r \in Requests, LeaveUserQueue(r) PROVE KeepsLiveSlots
  BY <1>6, KeepsUnchanged DEF LeaveUserQueue
<1>7. ASSUME NEW r \in Requests, NoAccount(r) PROVE KeepsLiveSlots
  BY <1>7, KeepsUnchanged DEF NoAccount
<1>8. ASSUME NEW r \in Requests, NEW a \in Accounts, SelectWithSlot(r, a) PROVE KeepsLiveSlots
  <2>1. Keeps(zset, zset')
    BY <1>8, AcquireOKEffect, AccountKeys DEF SelectWithSlot
  <2> QED
    BY <2>1, KeepsSuffices
<1>8a. ASSUME NEW r \in Requests, SessionFull(r) PROVE KeepsLiveSlots
  <2>1. account[r] \in Accounts /\ ReleaseSlot(account[r], acctSlot[r])
    BY <1>8a DEF SessionFull, HeldInPhase, Serving
  <2>2. /\ acctSlot' = [acctSlot EXCEPT ![r] = NoId] /\ userSlot' = userSlot
        /\ \A s \in Requests : s # r => account'[s] = account[s]
    BY <1>8a DEF SessionFull, TypeOK
  <2> QED
    BY <2>1, <2>2, AcctReleaseKeeps
<1>8b. ASSUME NEW r \in Requests, NotHydrated(r) PROVE KeepsLiveSlots
  BY <1>8b, KeepsUnchanged DEF NotHydrated
<1>8c. ASSUME NEW r \in Requests, NEW a \in Accounts, SelectNext(r, a) PROVE KeepsLiveSlots
  <2>1. Keeps(zset, zset')
    BY <1>8c, AcquireRefusedEffect, AcquireLostEffect, AccountKeys DEF SelectNext
  <2> QED
    BY <2>1, KeepsSuffices
<1>9. ASSUME NEW r \in Requests, NEW a \in Accounts, SelectToWait(r, a) PROVE KeepsLiveSlots
  BY <1>9, KeepsUnchanged DEF SelectToWait
<1>10. ASSUME NEW r \in Requests, NEW a \in Accounts, AcctQueueFull(r, a) PROVE KeepsLiveSlots
  BY <1>10, KeepsUnchanged DEF AcctQueueFull
<1>11. ASSUME NEW r \in Requests, TakeAcctSlot(r) PROVE KeepsLiveSlots
  <2>1. Keeps(zset, zset')
    BY <1>11, AcquireOKEffect, AccountKeys DEF TakeAcctSlot, HeldInPhase, Serving
  <2> QED
    BY <2>1, KeepsSuffices
<1>12. ASSUME NEW r \in Requests, RetryAcctSlot(r) PROVE KeepsLiveSlots
  <2>1. Keeps(zset, zset')
    BY <1>12, AcquireRefusedEffect, AccountKeys DEF RetryAcctSlot, HeldInPhase, Serving
  <2> QED
    BY <2>1, KeepsSuffices
<1>13. ASSUME NEW r \in Requests, GiveUpAcctSlot(r) PROVE KeepsLiveSlots
  <2>1. Keeps(zset, zset')
    BY <1>13, AcquireLostEffect, StoreKeepsItself, AccountKeys DEF GiveUpAcctSlot, HeldInPhase, Serving
  <2> QED
    BY <2>1, KeepsSuffices
<1>14. ASSUME NEW r \in Requests, LeaveAcctQueue(r) PROVE KeepsLiveSlots
  BY <1>14, KeepsUnchanged DEF LeaveAcctQueue
<1>15. ASSUME NEW r \in Requests, Intercept(r) PROVE KeepsLiveSlots
  BY <1>15, AcctReleaseKeeps DEF Intercept, HeldInPhase, Serving
<1>16. ASSUME NEW r \in Requests, StartForward(r) PROVE KeepsLiveSlots
  BY <1>16, KeepsUnchanged DEF StartForward
<1>17. ASSUME NEW r \in Requests, ForwardEnds(r) PROVE KeepsLiveSlots
  <2>1. account[r] \in Accounts /\ ReleaseSlot(account[r], acctSlot[r])
    BY <1>17 DEF ForwardEnds, ForwardReturns, HeldInPhase, Serving
  <2>2. /\ acctSlot' = [acctSlot EXCEPT ![r] = NoId] /\ userSlot' = userSlot
        /\ \A s \in Requests : s # r => account'[s] = account[s]
    BY <1>17 DEF ForwardEnds, ForwardReturns, TypeOK
  <2> QED
    BY <2>1, <2>2, AcctReleaseKeeps
<1>18. ASSUME NEW r \in Requests, FailOver(r) PROVE KeepsLiveSlots
  <2>1. account[r] \in Accounts /\ ReleaseSlot(account[r], acctSlot[r])
    BY <1>18 DEF FailOver, ForwardReturns, HeldInPhase, Serving
  <2>2. /\ acctSlot' = [acctSlot EXCEPT ![r] = NoId] /\ userSlot' = userSlot
        /\ \A s \in Requests : s # r => account'[s] = account[s]
    BY <1>18 DEF FailOver, ForwardReturns, TypeOK
  <2> QED
    BY <2>1, <2>2, AcctReleaseKeeps
<1>19. ASSUME NEW r \in Requests, ForwardPanics(r) PROVE KeepsLiveSlots
  BY <1>19, KeepsUnchanged DEF ForwardPanics
<1>20. ASSUME NEW r \in Requests, End(r) PROVE KeepsLiveSlots
  BY <1>20, UserReleaseKeeps, KeepsUnchanged DEF End
<1>21. ASSUME NEW r \in Requests, ClientLeaves(r) PROVE KeepsLiveSlots
  BY <1>21, KeepsUnchanged DEF ClientLeaves
<1>22. ASSUME NEW r \in Requests, ReleaseUserOnDone(r) PROVE KeepsLiveSlots
  BY <1>22, UserReleaseKeeps DEF ReleaseUserOnDone
<1>23. ASSUME NEW r \in Requests, ReleaseAcctOnDone(r) PROVE KeepsLiveSlots
  BY <1>23, AcctReleaseKeeps DEF ReleaseAcctOnDone, HeldInPhase
<1>24. ASSUME NEW a \in Accounts, CleanupAccount(a) PROVE KeepsLiveSlots
  <2>1. Keeps(zset, zset')
    BY <1>24, PurgeKeepsLive, AccountKeys, OneSetKeeps DEF CleanupAccount, StoreOK
  <2> QED
    BY <2>1, KeepsSuffices
<1>25. ASSUME NEW k \in Keys, SlotKeyExpires(k) PROVE KeepsLiveSlots
  <2>1. Keeps(zset, zset')
    BY <1>25, OneSetKeeps DEF SlotKeyExpires
  <2> QED
    BY <2>1, KeepsSuffices
<1>26. ASSUME NEW k \in Keys, WaitKeyExpires(k) PROVE KeepsLiveSlots
  BY <1>26, KeepsUnchanged DEF WaitKeyExpires
<1>27. ASSUME Tick PROVE KeepsLiveSlots
  <2>1. Keeps(zset, zset')
    BY <1>27, OlderEffect DEF Tick, StoreOK, Keeps
  <2> QED
    BY <2>1, KeepsSuffices
<1>28. ASSUME NEW p \in Procs, Die(p) PROVE KeepsLiveSlots
  BY <1>28, KeepsUnchanged DEF Die
<1>29. ASSUME NEW p \in Procs, StartupCleanup(p) PROVE KeepsLiveSlots
  <2> SUFFICES ASSUME NEW k \in Keys, NEW id \in Live(zset[k]), p = OwnerOf[id] \/ ~Starts(p)
               PROVE  zset'[k][id] # Absent
    BY DEF KeepsLiveSlots
  <2>1. Starts(p)
    BY <1>29 DEF Starts, StartupCleanup, TypeOK
  <2>2. id \in OwnIds(p) /\ zset[k] \in ZSet
    BY <2>1 DEF Live, OwnIds, StoreOK
  <2>3. zset'[k] = zset[k] \/ zset'[k] = KeepOnly(zset[k], OwnIds(p))
    BY <1>29 DEF StartupCleanup
  <2>4. zset'[k][id] = zset[k][id]
    BY <2>2, <2>3, KeepOnlyEffect DEF OwnIds
  <2> QED
    BY <2>4 DEF Live
<1> QED
  BY <1>1, <1>2, <1>3, <1>4, <1>5, <1>6, <1>7, <1>8, <1>8a, <1>8b, <1>8c, <1>9, <1>10, <1>11, <1>12, <1>13, <1>14, <1>15, <1>16, <1>17, <1>18, <1>19, <1>20, <1>21, <1>22, <1>23, <1>24, <1>25, <1>26, <1>27, <1>28, <1>29 DEF Next, Handler, Callback

-------------------------------------------------------------------------------
(* The theorems.                                                           *)

LEMMA InitInv == Init => SlotsInv
<1> SUFFICES ASSUME Init PROVE SlotsInv
  OBVIOUS
<1> USE ConcurrencySlotsAssumption, RedisSlotsAssumption DEF Init
<1>1. TypeOK
  <2>1. zset \in [Keys -> ZSet]
    BY EmptyEffect
  <2>2. NoWaiters \in Waits
    BY DEF Waits, NoWaiters
  <2>3. wait \in [Keys -> Waits]
    BY <2>2
  <2>4. 0 \in 0..MaxSwitches /\ 0 \in Nat /\ 0 + 0 + 0 <= MaxMishaps
    OBVIOUS
  <2> QED
    BY <2>1, <2>3, <2>4 DEF TypeOK, PCs, Ids
<1>2. StoreWithinLimit
  <2> SUFFICES ASSUME NEW k \in Keys PROVE Cardinality(Present(zset[k])) <= Limit[k]
    BY DEF StoreWithinLimit
  <2>1. Present(zset[k]) = {}
    BY EmptyEffect
  <2>2. Cardinality(Present(zset[k])) = 0
    BY <2>1, FS_EmptySet
  <2> QED
    BY <2>2
<1>3. HoldersDistinct /\ HeldInPhase /\ HeldIsOwn
  BY DEF HoldersDistinct, HeldInPhase, HeldIsOwn
<1> QED
  BY <1>1, <1>2, <1>3 DEF SlotsInv

LEMMA NextInv == SlotsInv /\ [Next]_vars => SlotsInv'
<1> SUFFICES ASSUME SlotsInv, [Next]_vars PROVE SlotsInv'
  OBVIOUS
<1> USE DEF SlotsInv
<1>1. CASE Next
  <2>1. StoreOK(zset)
    BY DEF StoreOK, StoreWithinLimit, TypeOK
  <2>2. TypeOK' /\ StoreOK(zset')
    BY <1>1, <2>1, TypeStep
  <2>3. StoreWithinLimit'
    BY <2>2 DEF StoreOK, StoreWithinLimit
  <2> QED
    BY <1>1, <2>2, <2>3, PhaseStep, OwnStep, DistinctStep
<1>2. CASE UNCHANGED vars
  BY <1>2 DEF vars, processes, mishaps, TypeOK, Up, StoreWithinLimit, HoldersDistinct, HeldInPhase, HeldIsOwn
<1> QED
  BY <1>1, <1>2

\* SlotsInv is an invariant: types, the limit of every stored set, distinct
\* holders, and what each phase of a request may hold.
THEOREM SlotsInvariant == Spec => []SlotsInv
BY InitInv, NextInv, PTL DEF Spec

\* TypeOK holds in every reachable state, for any number of requests, users,
\* accounts, limits and processes.
THEOREM TypeCorrect == Spec => []TypeOK
<1>1. SlotsInv => TypeOK
  BY DEF SlotsInv
<1> QED
  BY <1>1, SlotsInvariant, PTL

\* Requests that run under live slots of one key are no more than its slots.
LEMMA RunningBound == SlotsInv => RunningWithinLimit
<1> SUFFICES ASSUME SlotsInv, NEW k \in Keys PROVE Cardinality(Running(k)) <= Limit[k]
  BY DEF RunningWithinLimit
<1> USE ConcurrencySlotsAssumption DEF SlotsInv, TypeOK
<1> DEFINE slot == [r \in Running(k) |-> IF k \in Users THEN userSlot[r] ELSE acctSlot[r]]
<1>1. \A r \in Running(k) :
        /\ r \in Requests /\ slot[r] \in Live(zset[k])
        /\ k \in Users => UserOf[r] = k
        /\ k \notin Users => account[r] = k
  BY DEF Running, Keys
<1>2. Live(zset[k]) \subseteq Present(zset[k]) /\ Live(zset[k]) \subseteq SlotIds
  BY DEF Live, Present
<1>3. \A r, s \in Running(k) : slot[r] = slot[s] => r = s
  BY <1>1, <1>2 DEF HoldersDistinct
<1>4. slot \in Injection(Running(k), Present(zset[k]))
  BY <1>1, <1>2, <1>3 DEF Injection, IsInjective
<1>5. Cardinality(Running(k)) <= Cardinality(Present(zset[k]))
  BY <1>4, PresentFinite, FS_Injection
<1>6. Cardinality(Running(k)) \in Nat
  BY <1>4, PresentFinite, FS_Injection, FS_CardinalityType
<1> QED
  BY <1>5, <1>6, PresentFinite DEF StoreWithinLimit

\* The concurrency limit of every user and account holds: never more requests
\* run under live slots than allowed, whatever calls fail and whoever dies.
THEOREM WithinLimit == Spec => []RunningWithinLimit
BY RunningBound, SlotsInvariant, PTL

\* Nobody takes a live slot away from the request that holds it, but for the
\* cleanup of another process that starts.
THEOREM SlotsKept == Spec => LiveSlotKept
<1>1. SlotsInv /\ [Next]_vars => [KeepsLiveSlots]_vars
  <2> SUFFICES ASSUME SlotsInv, Next PROVE KeepsLiveSlots
    OBVIOUS
  <2>1. StoreOK(zset)
    BY DEF StoreOK, StoreWithinLimit, TypeOK, SlotsInv
  <2> QED
    BY <2>1, KeepsStep DEF SlotsInv
<1> QED
  BY <1>1, SlotsInvariant, PTL DEF Spec, LiveSlotKept

-------------------------------------------------------------------------------
(* What a step may add to a set, and what it may leave behind.             *)

\* A run of the script adds no member but its own, and no live one at all when
\* it refuses.
LEMMA ScriptAdds ==
  ASSUME NEW z \in ZSet, NEW cap \in Nat, NEW i \in SlotIds
  PROVE  /\ AcquireResult(z, cap, i) \in ZSet
         /\ Present(AcquireResult(z, cap, i)) \subseteq Present(z) \cup {i}
         /\ Live(AcquireResult(z, cap, i)) \subseteq Live(z) \cup {i}
         /\ ~AcquireGrants(z, cap, i) => Live(AcquireResult(z, cap, i)) \subseteq Live(z)
<1>1. Purge(z) \in ZSet
  BY PurgeKeepsLive
<1>2. \A id \in SlotIds : Purge(z)[id] = IF id \in Live(z) THEN z[id] ELSE Absent
  BY RedisSlotsAssumption DEF Purge, Live, ZSet, Age, Absent
<1>3. CASE AcquireGrants(z, cap, i)
  <2>1. AcquireResult(z, cap, i) = [Purge(z) EXCEPT ![i] = 0]
    BY <1>3 DEF AcquireResult
  <2> QED
    BY <2>1, <1>1, <1>2, <1>3, RedisSlotsAssumption DEF ZSet, Age, Present, Live
<1>4. CASE ~AcquireGrants(z, cap, i)
  <2>1. AcquireResult(z, cap, i) = Purge(z)
    BY <1>4 DEF AcquireResult
  <2> QED
    BY <2>1, <1>1, <1>2, <1>4 DEF ZSet, Age, Present, Live
<1> QED
  BY <1>3, <1>4

\* The same of a run that the client may have retried.
LEMMA RunAdds ==
  ASSUME NEW z \in ZSet, NEW cap \in Nat, NEW i \in SlotIds, NEW run \in ScriptRuns(z, cap, i)
  PROVE  /\ Present(run.z) \subseteq Present(z) \cup {i}
         /\ Live(run.z) \subseteq Live(z) \cup {i}
         /\ ~run.granted => Live(run.z) \subseteq Live(z)
<1> DEFINE once == AcquireResult(z, cap, i)
<1>1. CASE run.z = once /\ run.granted = AcquireGrants(z, cap, i)
  BY <1>1, ScriptAdds
<1>2. CASE run.z = AcquireResult(once, cap, i) /\ run.granted = AcquireGrants(once, cap, i)
  <2>1. /\ once \in ZSet
        /\ Present(once) \subseteq Present(z) \cup {i}
        /\ Live(once) \subseteq Live(z) \cup {i}
    BY ScriptAdds
  <2>2. /\ Present(run.z) \subseteq Present(once) \cup {i}
        /\ Live(run.z) \subseteq Live(once) \cup {i}
        /\ ~run.granted => Live(run.z) \subseteq Live(once)
    BY <1>2, <2>1, ScriptAdds
  <2>3. AcquireGrants(z, cap, i) => AcquireGrants(once, cap, i)
    <3>1. SUFFICES ASSUME AcquireGrants(z, cap, i) PROVE i \in Present(Purge(once))
      BY DEF AcquireGrants, AcquireRefreshes
    <3>2. once = [Purge(z) EXCEPT ![i] = 0] /\ Purge(z) \in ZSet
      BY <3>1, PurgeKeepsLive DEF AcquireResult
    <3>3. once[i] = 0
      BY <3>2 DEF ZSet
    <3> QED
      BY <3>3, RedisSlotsAssumption DEF Purge, Live, Present, Absent
  <2>4. ~run.granted => Live(run.z) \subseteq Live(z)
    BY <1>2, <2>2, <2>3, ScriptAdds
  <2> QED
    BY <2>1, <2>2, <2>4
<1>3. \/ run = [granted |-> AcquireGrants(z, cap, i), z |-> once]
      \/ run = [granted |-> AcquireGrants(once, cap, i), z |-> AcquireResult(once, cap, i)]
  BY DEF ScriptRuns
<1> QED
  BY <1>1, <1>2, <1>3

\* The members and the live members y may have beyond those of x.
Adds(x, y, more) == \A k \in Keys : Present(y[k]) \subseteq Present(x[k]) \cup more

AddsLive(x, y, more) ==
    \A k \in Keys : \A id \in Live(y[k]) : id \in Live(x[k]) \/ <<k, id>> \in more

LEMMA OneSetAdds ==
  ASSUME NEW x \in [Keys -> ZSet], NEW k \in Keys, NEW z, NEW i,
         Present(z) \subseteq Present(x[k]) \cup {i}, Live(z) \subseteq Live(x[k]) \cup {i}
  PROVE  /\ Adds(x, [x EXCEPT ![k] = z], {i})
         /\ AddsLive(x, [x EXCEPT ![k] = z], {<<k, i>>})
BY DEF Adds, AddsLive

LEMMA OneSetShrinks ==
  ASSUME NEW x \in [Keys -> ZSet], NEW k \in Keys, NEW z,
         Present(z) \subseteq Present(x[k]), Live(z) \subseteq Live(x[k])
  PROVE  /\ Adds(x, [x EXCEPT ![k] = z], {})
         /\ AddsLive(x, [x EXCEPT ![k] = z], {})
BY DEF Adds, AddsLive

LEMMA AddsNothing ==
  ASSUME NEW x
  PROVE  Adds(x, x, {}) /\ AddsLive(x, x, {})
BY DEF Adds, AddsLive

LEMMA AddsMore ==
  ASSUME NEW x, NEW y, NEW few, NEW more, Adds(x, y, few), few \subseteq more
  PROVE  Adds(x, y, more)
BY DEF Adds

\* The ids of the processes that run; a new id of one of them is such an id.
UpIds == {id \in SlotIds : OwnerOf[id] \in Up}

LEMMA FreshIsOwn ==
  ASSUME NEW p \in Up, NEW k, NEW i \in FreshIds(p, k)
  PROVE  i \in SlotIds /\ i \in UpIds
BY DEF FreshIds, UpIds

LEMMA AcquireOKAdds ==
  ASSUME TypeOK, NEW k \in Keys, NEW p \in Up, NEW got, AcquireOK(p, k, got)
  PROVE  Adds(zset, zset', UpIds) /\ AddsLive(zset, zset', {<<k, got>>})
<1> USE ConcurrencySlotsAssumption DEF TypeOK
<1>1. CASE Limit[k] = 0
  <2>1. zset' = zset
    BY <1>1 DEF AcquireOK
  <2> QED
    BY <2>1 DEF Adds, AddsLive
<1>2. CASE Limit[k] # 0
  <2>1. PICK run \in ScriptRuns(zset[k], Limit[k], got) : zset' = [zset EXCEPT ![k] = run.z]
    BY <1>2 DEF AcquireOK
  <2>2. got \in SlotIds /\ got \in UpIds
    BY <1>2, FreshIsOwn DEF AcquireOK
  <2>3. Present(run.z) \subseteq Present(zset[k]) \cup {got} /\ Live(run.z) \subseteq Live(zset[k]) \cup {got}
    BY <2>2, RunAdds
  <2>4. Adds(zset, zset', {got}) /\ AddsLive(zset, zset', {<<k, got>>})
    BY <2>1, <2>3, OneSetAdds
  <2> QED
    BY <2>2, <2>4, AddsMore
<1> QED
  BY <1>1, <1>2

LEMMA AcquireRefusedAdds ==
  ASSUME TypeOK, NEW k \in Keys, NEW p, AcquireRefused(p, k)
  PROVE  Adds(zset, zset', {}) /\ AddsLive(zset, zset', {})
<1> DEFINE z == Purge(zset[k])
<1>1. zset' = [zset EXCEPT ![k] = z]
  BY RefusedPurges DEF AcquireRefused, FreshIds, TypeOK
<1>2. Present(z) \subseteq Present(zset[k]) /\ Live(z) \subseteq Live(zset[k])
  BY DEF TypeOK, Purge, Present, Live
<1> QED
  BY <1>1, <1>2, OneSetShrinks DEF TypeOK

LEMMA AcquireLostAdds ==
  ASSUME TypeOK, NEW k \in Keys, NEW p \in Up, AcquireLost(p, k)
  PROVE  /\ Adds(zset, zset', UpIds)
         /\ \E i \in SlotIds : AddsLive(zset, zset', {<<k, i>>})
<1> USE ConcurrencySlotsAssumption DEF TypeOK
<1>1. PICK i \in FreshIds(p, k) : zset' = [zset EXCEPT ![k] = AcquireResult(@, Limit[k], i)]
  BY DEF AcquireLost
<1> DEFINE z == AcquireResult(zset[k], Limit[k], i)
<1>2. zset' = [zset EXCEPT ![k] = z]
  BY <1>1
<1>3. i \in SlotIds /\ i \in UpIds
  BY FreshIsOwn
<1>4. Present(z) \subseteq Present(zset[k]) \cup {i} /\ Live(z) \subseteq Live(zset[k]) \cup {i}
  BY <1>3, ScriptAdds
<1>5. Adds(zset, zset', {i}) /\ AddsLive(zset, zset', {<<k, i>>})
  BY <1>2, <1>4, OneSetAdds
<1>6. Adds(zset, zset', UpIds)
  BY <1>3, <1>5, AddsMore
<1> QED
  BY <1>3, <1>5, <1>6

\* The mishaps that lose slots.
Losses == faults + unhydrated

LEMMA FaultLoses ==
  ASSUME MishapsOK
  PROVE  /\ Losses \in Nat
         /\ Fault => Losses' = Losses + 1
         /\ NoFault => Losses' = Losses
BY DEF MishapsOK, Losses, Fault, NoFault, Mishaps, mishaps

\* A release that is answered leaves the slot it names out of the set; one that
\* is not is charged to a mishap.
LEMMA ReleaseLeaves ==
  ASSUME TypeOK, NEW k \in Keys, NEW i, ReleaseSlot(k, i)
  PROVE  /\ Adds(zset, zset', {}) /\ AddsLive(zset, zset', {})
         /\ \/ Losses' = Losses /\ (i \in SlotIds => i \notin Live(zset'[k]))
            \/ Losses' = Losses + 1
<1> USE DEF TypeOK
<1>1. CASE zset' = zset
  <2>1. Adds(zset, zset', {}) /\ AddsLive(zset, zset', {})
    BY <1>1, AddsNothing
  <2>2. (Losses' = Losses /\ i \notin SlotIds) \/ Losses' = Losses + 1
        \/ (i \in SlotIds /\ zset' = [zset EXCEPT ![k] = Remove(@, i)] /\ Losses' = Losses)
    BY FaultLoses DEF ReleaseSlot, MishapsOK
  <2>3. zset' = [zset EXCEPT ![k] = Remove(@, i)] /\ i \in SlotIds => i \notin Live(zset'[k])
    BY DEF Remove, Live, ZSet
  <2> QED
    BY <2>1, <2>2, <2>3
<1>2. CASE i \in SlotIds /\ zset' = [zset EXCEPT ![k] = Remove(@, i)] /\ Losses' = Losses
  <2> DEFINE z == Remove(zset[k], i)
  <2>1. /\ Present(z) \subseteq Present(zset[k]) /\ Live(z) \subseteq Live(zset[k])
        /\ i \notin Live(z)
    BY <1>2 DEF Remove, ZSet, Present, Live
  <2>2. Adds(zset, zset', {}) /\ AddsLive(zset, zset', {})
    BY <1>2, <2>1, OneSetShrinks
  <2>3. zset'[k] = z
    BY <1>2
  <2> QED
    BY <1>2, <2>1, <2>2, <2>3
<1> QED
  BY <1>1, <1>2, FaultLoses DEF ReleaseSlot, MishapsOK

\* The holders a step leaves, but for those in dropped.
StillHeld(dropped) ==
    \A k \in Keys, id \in SlotIds : Held(k, id) => Held(k, id)' \/ <<k, id>> \in dropped

\* What a step adds to the leaked slots, it pays for with a mishap.
Charged ==
    \/ Leaked' \subseteq Leaked /\ Losses' >= Losses
    \/ \E x : Leaked' \subseteq Leaked \cup {x} /\ Losses' = Losses + 1

LEMMA LeakGrows ==
  ASSUME life' = life, NEW more, NEW dropped, NEW n,
         AddsLive(zset, zset', more), StillHeld(dropped),
         \A k \in Keys : \A id \in Live(zset'[k]) :
           <<k, id>> \in more \cup dropped => Held(k, id)' \/ <<k, id>> \in n
  PROVE  Leaked' \subseteq Leaked \cup n
<1> SUFFICES ASSUME NEW k \in Keys, NEW id \in SlotIds, <<k, id>> \notin n,
                    id \in Live(zset'[k]), OwnerOf[id] \in Up', ~Held(k, id)'
             PROVE  id \in Live(zset[k]) /\ OwnerOf[id] \in Up /\ ~Held(k, id)
  BY DEF Leaked
<1>1. <<k, id>> \notin more \cup dropped
  OBVIOUS
<1> QED
  BY <1>1 DEF AddsLive, StillHeld, Up

\* The four kinds of steps: nothing is added and nobody lets go of a slot; the
\* slot that is added is held; it is not; a slot is let go of.
LEMMA NothingLeaks ==
  ASSUME life' = life, Losses' >= Losses, AddsLive(zset, zset', {}), StillHeld({})
  PROVE  Charged
<1>1. Leaked' \subseteq Leaked \cup {}
  BY LeakGrows
<1> QED
  BY <1>1 DEF Charged

LEMMA AcquiredIsHeld ==
  ASSUME life' = life, Losses' = Losses, Losses \in Nat, NEW k \in Keys, NEW i,
         AddsLive(zset, zset', {<<k, i>>}), StillHeld({}), Held(k, i)'
  PROVE  Charged
<1>1. \A j \in Keys : \A id \in Live(zset'[j]) :
        <<j, id>> \in {<<k, i>>} \cup {} => Held(j, id)' \/ <<j, id>> \in {}
  OBVIOUS
<1>2. Leaked' \subseteq Leaked \cup {}
  BY <1>1, LeakGrows
<1> QED
  BY <1>2 DEF Charged

LEMMA AcquiredIsLost ==
  ASSUME life' = life, Losses' = Losses + 1, NEW k \in Keys, NEW i,
         AddsLive(zset, zset', {<<k, i>>}), StillHeld({})
  PROVE  Charged
<1>1. Leaked' \subseteq Leaked \cup {<<k, i>>}
  BY LeakGrows
<1> QED
  BY <1>1 DEF Charged

LEMMA ReleasedIsGone ==
  ASSUME TypeOK, life' = life, NEW k \in Keys, NEW i, ReleaseSlot(k, i), StillHeld({<<k, i>>})
  PROVE  Charged
<1>1. CASE Losses' = Losses /\ (i \in SlotIds => i \notin Live(zset'[k]))
  <2>1. \A j \in Keys : \A id \in Live(zset'[j]) : <<j, id>> \in {} \cup {<<k, i>>} => FALSE
    BY <1>1 DEF Live
  <2>2. Leaked' \subseteq Leaked \cup {}
    BY <2>1, ReleaseLeaves, LeakGrows
  <2> QED
    BY <1>1, <2>2, FaultLoses DEF Charged, TypeOK, MishapsOK
<1>2. CASE Losses' = Losses + 1
  <2>1. Leaked' \subseteq Leaked \cup {<<k, i>>}
    BY ReleaseLeaves, LeakGrows
  <2> QED
    BY <1>2, <2>1 DEF Charged
<1> QED
  BY <1>1, <1>2, ReleaseLeaves

\* Who lets go of a slot without releasing it is charged for it.
LEMMA AbandonedIsLost ==
  ASSUME life' = life, Losses' = Losses + 1, zset' = zset, NEW k \in Keys, NEW i,
         StillHeld({<<k, i>>})
  PROVE  Charged
<1>1. AddsLive(zset, zset', {})
  BY AddsNothing
<1>2. Leaked' \subseteq Leaked \cup {<<k, i>>}
  BY <1>1, LeakGrows
<1> QED
  BY <1>2 DEF Charged

\* What the steps of requests, worker and time do to the stored slots.
SlotEffect == /\ Charged
              /\ Adds(zset, zset', UpIds)
              /\ UNCHANGED processes /\ faults' >= faults

LEMMA HoldersStay ==
  ASSUME UNCHANGED <<account, userSlot, acctSlot>>
  PROVE  StillHeld({})
BY DEF StillHeld, Held

FaultsGrow == Losses' >= Losses /\ faults' >= faults

\* Every call that is not a selection adds to the faults, if to anything.
LEMMA CallGrows ==
  ASSUME MishapsOK
  PROVE  /\ Fault \/ NoFault => FaultsGrow
         /\ \A f \in Nat, g, u \in Nat : Mishaps(f, g, u) => FaultsGrow
BY DEF MishapsOK, FaultsGrow, Losses, Fault, NoFault, Mishaps, mishaps

LEMMA EnterGrows ==
  ASSUME MishapsOK, NEW r, NEW k, NEW next, EnterQueue(r, k, next)
  PROVE  FaultsGrow
<1>1. ASSUME NEW runs \in Runs, NEW failed \in {0, 1}, Mishaps(failed, runs - 1, 0) PROVE FaultsGrow
  <2>1. failed \in Nat /\ runs - 1 \in Nat
    BY ConcurrencySlotsAssumption DEF Runs
  <2> QED
    BY <1>1, <2>1, CallGrows
<1> QED
  BY <1>1, CallGrows DEF EnterQueue

LEMMA FullGrows ==
  ASSUME MishapsOK, NEW k, QueueFull(k)
  PROVE  FaultsGrow
<1>1. ASSUME NEW runs \in Runs, Mishaps(0, runs - 1, 0) PROVE FaultsGrow
  <2>1. runs - 1 \in Nat
    BY ConcurrencySlotsAssumption DEF Runs
  <2> QED
    BY <1>1, <2>1, CallGrows
<1> QED
  BY <1>1 DEF QueueFull

LEMMA LeaveGrows ==
  ASSUME MishapsOK, NEW r, LeaveQueue(r)
  PROVE  FaultsGrow
<1>1. ASSUME NEW runs \in Runs, NEW failed \in {0, 1}, Mishaps(failed, runs - 1, 0) PROVE FaultsGrow
  <2>1. failed \in Nat /\ runs - 1 \in Nat
    BY ConcurrencySlotsAssumption DEF Runs
  <2> QED
    BY <1>1, <2>1, CallGrows
<1> QED
  BY <1>1, CallGrows DEF LeaveQueue

LEMMA ReleaseGrows ==
  ASSUME MishapsOK, NEW k, NEW i, ReleaseSlot(k, i)
  PROVE  FaultsGrow
BY CallGrows DEF ReleaseSlot

LEMMA SameGrows ==
  ASSUME MishapsOK, UNCHANGED mishaps
  PROVE  FaultsGrow
BY DEF MishapsOK, FaultsGrow, Losses, mishaps

LEMMA IdleStep ==
  ASSUME MishapsOK, UNCHANGED <<zset, account, userSlot, acctSlot, processes>>, FaultsGrow
  PROVE  SlotEffect
<1>1. Adds(zset, zset', {}) /\ AddsLive(zset, zset', {})
  BY AddsNothing
<1>2. Adds(zset, zset', UpIds)
  BY <1>1, AddsMore
<1> QED
  BY <1>1, <1>2, HoldersStay, NothingLeaks DEF SlotEffect, FaultsGrow, processes

LEMMA SlotStep ==
  ASSUME TypeOK, HeldInPhase, HeldIsOwn, Next, \A p \in Procs : ~Die(p) /\ ~StartupCleanup(p)
  PROVE  SlotEffect
<1> USE ConcurrencySlotsAssumption DEF TypeOK, SlotEffect
<1>m. MishapsOK
  BY DEF MishapsOK
<1>h. \A r \in Requests : pc[r] # "new" => home[r] \in Up
  BY DEF HeldIsOwn
<1>g. (Fault \/ NoFault => FaultsGrow) /\ (UNCHANGED mishaps => FaultsGrow)
  BY <1>m, CallGrows, SameGrows
<1>1. ASSUME NEW r \in Requests, EnterUserQueue(r) PROVE SlotEffect
  BY <1>1, IdleStep, EnterGrows, <1>m DEF EnterUserQueue
<1>2. ASSUME NEW r \in Requests, UserQueueFull(r) PROVE SlotEffect
  BY <1>2, IdleStep, FullGrows, <1>m DEF UserQueueFull
<1>3. ASSUME NEW r \in Requests, TakeUserSlot(r) PROVE SlotEffect
  <2>1. PICK got : AcquireOK(home[r], UserOf[r], got) /\ userSlot' = [userSlot EXCEPT ![r] = got]
    BY <1>3 DEF TakeUserSlot
  <2>2. UserOf[r] \in Keys /\ home[r] \in Up
    BY <1>3, <1>h, RequestKeys DEF TakeUserSlot, HeldInPhase, Serving
  <2>3. Adds(zset, zset', UpIds) /\ AddsLive(zset, zset', {<<UserOf[r], got>>})
    BY <2>1, <2>2, AcquireOKAdds
  <2>4. Held(UserOf[r], got)' /\ StillHeld({})
    BY <1>3, <2>1 DEF TakeUserSlot, StillHeld, Held, HeldInPhase, Serving
  <2> QED
    BY <1>3, <2>2, <2>3, <2>4, AcquiredIsHeld, <1>g, FaultLoses, <1>m DEF TakeUserSlot, NoFault, FaultsGrow, processes
<1>4. ASSUME NEW r \in Requests, RetryUserSlot(r) PROVE SlotEffect
  <2>1. UserOf[r] \in Keys
    BY <1>4, RequestKeys DEF RetryUserSlot, HeldInPhase, Serving
  <2>2. Adds(zset, zset', {}) /\ AddsLive(zset, zset', {})
    BY <1>4, <2>1, AcquireRefusedAdds DEF RetryUserSlot
  <2> QED
    BY <1>4, <1>g, <2>2, HoldersStay, NothingLeaks, AddsMore DEF RetryUserSlot, FaultsGrow, processes
<1>5. ASSUME NEW r \in Requests, GiveUpUserSlot(r) PROVE SlotEffect
  <2>1. UserOf[r] \in Keys /\ home[r] \in Up
    BY <1>5, <1>h, RequestKeys DEF GiveUpUserSlot, HeldInPhase, Serving
  <2>2. CASE UNCHANGED <<zset, mishaps>>
    BY <1>5, <1>m, <1>g, <2>2, IdleStep DEF GiveUpUserSlot
  <2>3. CASE AcquireLost(home[r], UserOf[r]) /\ Fault
    <3>1. Adds(zset, zset', UpIds)
      BY <2>1, <2>3, AcquireLostAdds
    <3>2. PICK i \in SlotIds : AddsLive(zset, zset', {<<UserOf[r], i>>})
      BY <2>1, <2>3, AcquireLostAdds
    <3>3. StillHeld({}) /\ UNCHANGED processes /\ Losses' = Losses + 1 /\ FaultsGrow
      BY <1>5, <1>m, <1>g, <2>3, HoldersStay, FaultLoses DEF GiveUpUserSlot
    <3>4. Charged
      BY <2>1, <3>2, <3>3, AcquiredIsLost DEF processes
    <3> QED
      BY <3>1, <3>3, <3>4 DEF FaultsGrow
  <2> QED
    BY <1>5, <2>2, <2>3 DEF GiveUpUserSlot
<1>6. ASSUME NEW r \in Requests, LeaveUserQueue(r) PROVE SlotEffect
  BY <1>6, IdleStep, LeaveGrows, <1>m DEF LeaveUserQueue
<1>7. ASSUME NEW r \in Requests, NoAccount(r) PROVE SlotEffect
  BY <1>7, IdleStep, <1>m, <1>g DEF NoAccount
<1>8. ASSUME NEW r \in Requests, NEW a \in Accounts, SelectWithSlot(r, a) PROVE SlotEffect
  <2>1. PICK got : AcquireOK(home[r], a, got) /\ acctSlot' = [acctSlot EXCEPT ![r] = got]
    BY <1>8 DEF SelectWithSlot
  <2>2. a \in Keys /\ home[r] \in Up
    BY <1>8, <1>h, AccountKeys DEF SelectWithSlot, HeldInPhase, Serving
  <2>3. Adds(zset, zset', UpIds) /\ AddsLive(zset, zset', {<<a, got>>})
    BY <2>1, <2>2, AcquireOKAdds
  <2>4. Held(a, got)' /\ StillHeld({})
    BY <1>8, <2>1 DEF SelectWithSlot, StillHeld, Held, HeldInPhase, Serving
  <2> QED
    BY <1>8, <2>2, <2>3, <2>4, AcquiredIsHeld, <1>g, FaultLoses, <1>m DEF SelectWithSlot, NoFault, FaultsGrow, processes
<1>8a. ASSUME NEW r \in Requests, SessionFull(r) PROVE SlotEffect
  <2>1. account[r] \in Keys /\ ReleaseSlot(account[r], acctSlot[r]) /\ UNCHANGED processes
    BY <1>8a, AccountKeys DEF SessionFull, HeldInPhase, Serving
  <2>2. StillHeld({<<account[r], acctSlot[r]>>})
    BY <1>8a DEF SessionFull, StillHeld, Held
  <2> QED
    BY <2>1, <2>2, ReleaseLeaves, AddsMore, ReleasedIsGone, ReleaseGrows, <1>m DEF FaultsGrow, processes
<1>8b. ASSUME NEW r \in Requests, NotHydrated(r) PROVE SlotEffect
  <2>1. account[r] \in Keys /\ zset' = zset /\ UNCHANGED processes
    BY <1>8b, AccountKeys DEF NotHydrated, HeldInPhase, Serving
  <2>2. StillHeld({<<account[r], acctSlot[r]>>})
    BY <1>8b DEF NotHydrated, StillHeld, Held
  <2>3. Losses' = Losses + 1 /\ faults' >= faults
    BY <1>8b, <1>m DEF NotHydrated, Mishaps, MishapsOK, Losses
  <2> QED
    BY <2>1, <2>2, <2>3, AbandonedIsLost, AddsNothing, AddsMore DEF processes
<1>8c. ASSUME NEW r \in Requests, NEW a \in Accounts, SelectNext(r, a) PROVE SlotEffect
  <2>1. a \in Keys /\ home[r] \in Up /\ StillHeld({}) /\ UNCHANGED processes
    BY <1>8c, <1>h, AccountKeys, HoldersStay DEF SelectNext, Serving
  <2>2. CASE AcquireRefused(home[r], a) /\ NoFault
    BY <1>g, <2>1, <2>2, AcquireRefusedAdds, NothingLeaks, AddsMore DEF FaultsGrow, processes
  <2>3. CASE AcquireLost(home[r], a) /\ Fault
    <3>1. Adds(zset, zset', UpIds)
      BY <2>1, <2>3, AcquireLostAdds
    <3>2. PICK i \in SlotIds : AddsLive(zset, zset', {<<a, i>>})
      BY <2>1, <2>3, AcquireLostAdds
    <3>3. Losses' = Losses + 1 /\ FaultsGrow
      BY <1>m, <1>g, <2>3, FaultLoses
    <3>4. Charged
      BY <2>1, <3>2, <3>3, AcquiredIsLost DEF processes
    <3> QED
      BY <2>1, <3>1, <3>3, <3>4 DEF FaultsGrow
  <2> QED
    BY <1>8c, <2>2, <2>3 DEF SelectNext
<1>9. ASSUME NEW r \in Requests, NEW a \in Accounts, SelectToWait(r, a) PROVE SlotEffect
  <2>1. StillHeld({})
    BY <1>9 DEF SelectToWait, StillHeld, Held, HeldInPhase, Serving
  <2>2. zset' = zset /\ UNCHANGED processes /\ FaultsGrow
    BY <1>9, <1>m, EnterGrows DEF SelectToWait
  <2> QED
    BY <2>1, <2>2, AddsNothing, AddsMore, NothingLeaks DEF FaultsGrow, processes
<1>10. ASSUME NEW r \in Requests, NEW a \in Accounts, AcctQueueFull(r, a) PROVE SlotEffect
  BY <1>10, IdleStep, FullGrows, <1>m DEF AcctQueueFull
<1>11. ASSUME NEW r \in Requests, TakeAcctSlot(r) PROVE SlotEffect
  <2>1. PICK got : AcquireOK(home[r], account[r], got) /\ acctSlot' = [acctSlot EXCEPT ![r] = got]
    BY <1>11 DEF TakeAcctSlot
  <2>2. account[r] \in Keys /\ home[r] \in Up
    BY <1>11, <1>h, AccountKeys DEF TakeAcctSlot, HeldInPhase, Serving
  <2>3. Adds(zset, zset', UpIds) /\ AddsLive(zset, zset', {<<account[r], got>>})
    BY <2>1, <2>2, AcquireOKAdds
  <2>4. Held(account[r], got)' /\ StillHeld({})
    BY <1>11, <2>1 DEF TakeAcctSlot, StillHeld, Held, HeldInPhase, Serving
  <2> QED
    BY <1>11, <2>2, <2>3, <2>4, AcquiredIsHeld, <1>g, FaultLoses, <1>m DEF TakeAcctSlot, NoFault, FaultsGrow, processes
<1>12. ASSUME NEW r \in Requests, RetryAcctSlot(r) PROVE SlotEffect
  <2>1. account[r] \in Keys
    BY <1>12, AccountKeys DEF RetryAcctSlot, HeldInPhase, Serving
  <2>2. Adds(zset, zset', {}) /\ AddsLive(zset, zset', {})
    BY <1>12, <2>1, AcquireRefusedAdds DEF RetryAcctSlot
  <2> QED
    BY <1>12, <1>g, <2>2, HoldersStay, NothingLeaks, AddsMore DEF RetryAcctSlot, FaultsGrow, processes
<1>13. ASSUME NEW r \in Requests, GiveUpAcctSlot(r) PROVE SlotEffect
  <2>1. account[r] \in Keys /\ home[r] \in Up
    BY <1>13, <1>h, AccountKeys DEF GiveUpAcctSlot, HeldInPhase, Serving
  <2>2. CASE UNCHANGED <<zset, mishaps>>
    BY <1>13, <1>m, <1>g, <2>2, IdleStep DEF GiveUpAcctSlot
  <2>3. CASE AcquireLost(home[r], account[r]) /\ Fault
    <3>1. Adds(zset, zset', UpIds)
      BY <2>1, <2>3, AcquireLostAdds
    <3>2. PICK i \in SlotIds : AddsLive(zset, zset', {<<account[r], i>>})
      BY <2>1, <2>3, AcquireLostAdds
    <3>3. StillHeld({}) /\ UNCHANGED processes /\ Losses' = Losses + 1 /\ FaultsGrow
      BY <1>13, <1>m, <1>g, <2>3, HoldersStay, FaultLoses DEF GiveUpAcctSlot
    <3>4. Charged
      BY <2>1, <3>2, <3>3, AcquiredIsLost DEF processes
    <3> QED
      BY <3>1, <3>3, <3>4 DEF FaultsGrow
  <2> QED
    BY <1>13, <2>2, <2>3 DEF GiveUpAcctSlot
<1>14. ASSUME NEW r \in Requests, LeaveAcctQueue(r) PROVE SlotEffect
  BY <1>14, IdleStep, LeaveGrows, <1>m DEF LeaveAcctQueue
<1>15. ASSUME NEW r \in Requests, Intercept(r) PROVE SlotEffect
  <2>1. account[r] \in Keys /\ ReleaseSlot(account[r], acctSlot[r]) /\ UNCHANGED processes
    BY <1>15, AccountKeys DEF Intercept, HeldInPhase, Serving
  <2>2. StillHeld({<<account[r], acctSlot[r]>>})
    BY <1>15 DEF Intercept, StillHeld, Held
  <2> QED
    BY <2>1, <2>2, ReleaseLeaves, AddsMore, ReleasedIsGone, ReleaseGrows, <1>m DEF FaultsGrow, processes
<1>16. ASSUME NEW r \in Requests, StartForward(r) PROVE SlotEffect
  BY <1>16, IdleStep, <1>m, <1>g DEF StartForward
<1>17. ASSUME NEW r \in Requests, ForwardEnds(r) PROVE SlotEffect
  <2>1. account[r] \in Keys /\ ReleaseSlot(account[r], acctSlot[r]) /\ UNCHANGED processes
    BY <1>17, AccountKeys DEF ForwardEnds, ForwardReturns, HeldInPhase, Serving
  <2>2. StillHeld({<<account[r], acctSlot[r]>>})
    BY <1>17 DEF ForwardEnds, ForwardReturns, StillHeld, Held
  <2> QED
    BY <2>1, <2>2, ReleaseLeaves, AddsMore, ReleasedIsGone, ReleaseGrows, <1>m DEF FaultsGrow, processes
<1>18. ASSUME NEW r \in Requests, FailOver(r) PROVE SlotEffect
  <2>1. account[r] \in Keys /\ ReleaseSlot(account[r], acctSlot[r]) /\ UNCHANGED processes
    BY <1>18, AccountKeys DEF FailOver, ForwardReturns, HeldInPhase, Serving
  <2>2. StillHeld({<<account[r], acctSlot[r]>>})
    BY <1>18 DEF FailOver, ForwardReturns, StillHeld, Held
  <2> QED
    BY <2>1, <2>2, ReleaseLeaves, AddsMore, ReleasedIsGone, ReleaseGrows, <1>m DEF FaultsGrow, processes
<1>19. ASSUME NEW r \in Requests, ForwardPanics(r) PROVE SlotEffect
  BY <1>19, IdleStep, <1>m, <1>g DEF ForwardPanics
<1>20. ASSUME NEW r \in Requests, End(r) PROVE SlotEffect
  <2>1. CASE LeaveQueue(r) /\ UNCHANGED <<zset, userSlot>>
    BY <1>20, <1>m, <2>1, IdleStep, LeaveGrows DEF End
  <2>2. CASE ReleaseSlot(UserOf[r], userSlot[r]) /\ userSlot' = [userSlot EXCEPT ![r] = NoId]
    <3>1. UserOf[r] \in Keys /\ UNCHANGED processes
      BY <1>20, RequestKeys DEF End
    <3>2. StillHeld({<<UserOf[r], userSlot[r]>>})
      BY <1>20, <2>2 DEF End, StillHeld, Held
    <3> QED
      BY <2>2, <3>1, <3>2, ReleaseLeaves, AddsMore, ReleasedIsGone, ReleaseGrows, <1>m DEF FaultsGrow, processes
  <2> QED
    BY <1>20, <2>1, <2>2 DEF End
<1>21. ASSUME NEW r \in Requests, ClientLeaves(r) PROVE SlotEffect
  BY <1>21, IdleStep, <1>m, <1>g DEF ClientLeaves
<1>22. ASSUME NEW r \in Requests, ReleaseUserOnDone(r) PROVE SlotEffect
  <2>1. UserOf[r] \in Keys /\ ReleaseSlot(UserOf[r], userSlot[r]) /\ UNCHANGED processes
    BY <1>22, RequestKeys DEF ReleaseUserOnDone
  <2>2. StillHeld({<<UserOf[r], userSlot[r]>>})
    BY <1>22 DEF ReleaseUserOnDone, StillHeld, Held
  <2> QED
    BY <2>1, <2>2, ReleaseLeaves, AddsMore, ReleasedIsGone, ReleaseGrows, <1>m DEF FaultsGrow, processes
<1>23. ASSUME NEW r \in Requests, ReleaseAcctOnDone(r) PROVE SlotEffect
  <2>1. account[r] \in Keys /\ ReleaseSlot(account[r], acctSlot[r]) /\ UNCHANGED processes
    BY <1>23, AccountKeys DEF ReleaseAcctOnDone, HeldInPhase, Serving
  <2>2. StillHeld({<<account[r], acctSlot[r]>>})
    BY <1>23 DEF ReleaseAcctOnDone, StillHeld, Held
  <2> QED
    BY <2>1, <2>2, ReleaseLeaves, AddsMore, ReleasedIsGone, ReleaseGrows, <1>m DEF FaultsGrow, processes
<1>24. ASSUME NEW a \in Accounts, CleanupAccount(a) PROVE SlotEffect
  <2>1. a \in Keys /\ zset' = [zset EXCEPT ![a] = Purge(@)]
    BY <1>24, AccountKeys DEF CleanupAccount
  <2>2. Present(Purge(zset[a])) \subseteq Present(zset[a]) /\ Live(Purge(zset[a])) \subseteq Live(zset[a])
    BY <2>1 DEF Purge, Present, Live
  <2>3. Adds(zset, zset', {}) /\ AddsLive(zset, zset', {})
    BY <2>1, <2>2, OneSetShrinks
  <2> QED
    BY <1>24, <1>g, <2>3, HoldersStay, NothingLeaks, AddsMore DEF CleanupAccount, FaultsGrow, processes
<1>25. ASSUME NEW k \in Keys, SlotKeyExpires(k) PROVE SlotEffect
  <2>1. Present(EmptyZSet) \subseteq Present(zset[k]) /\ Live(EmptyZSet) \subseteq Live(zset[k])
    BY DEF EmptyZSet, Present, Live
  <2>2. Adds(zset, zset', {}) /\ AddsLive(zset, zset', {})
    BY <1>25, <2>1, OneSetShrinks DEF SlotKeyExpires
  <2> QED
    BY <1>25, <1>g, <2>2, HoldersStay, NothingLeaks, AddsMore DEF SlotKeyExpires, FaultsGrow, processes
<1>26. ASSUME NEW k \in Keys, WaitKeyExpires(k) PROVE SlotEffect
  BY <1>26, IdleStep, <1>m, <1>g DEF WaitKeyExpires
<1>27. ASSUME Tick PROVE SlotEffect
  <2>1. \A k \in Keys : /\ Present(zset'[k]) \subseteq Present(zset[k])
                        /\ Live(zset'[k]) \subseteq Live(zset[k])
    <3> SUFFICES ASSUME NEW k \in Keys
                 PROVE  /\ Present(zset'[k]) \subseteq Present(zset[k])
                        /\ Live(zset'[k]) \subseteq Live(zset[k])
      OBVIOUS
    <3>1. zset'[k] = Older(zset[k]) /\ zset[k] \in ZSet
      BY <1>27 DEF Tick
    <3> QED
      BY <3>1, RedisSlotsAssumption DEF Older, ZSet, Age, Absent, Present, Live
  <2>2. Adds(zset, zset', {}) /\ AddsLive(zset, zset', {})
    BY <2>1 DEF Adds, AddsLive
  <2> QED
    BY <1>27, <1>g, <2>2, HoldersStay, NothingLeaks, AddsMore DEF Tick, FaultsGrow, processes
<1> QED
  BY <1>1, <1>2, <1>3, <1>4, <1>5, <1>6, <1>7, <1>8, <1>8a, <1>8b, <1>8c, <1>9, <1>10, <1>11, <1>12, <1>13, <1>14, <1>15, <1>16, <1>17, <1>18, <1>19, <1>20, <1>21, <1>22, <1>23, <1>24, <1>25, <1>26, <1>27 DEF Next, Handler, Callback

\* No member carries the prefix of a process still to start, and who was dead
\* when a process started is still dead.
NoFutureSlots == \A k \in Keys : \A id \in Present(zset[k]) : life[OwnerOf[id]] # "off"

OlderDead == \A p \in Procs : older[p] \subseteq Dead

LeaksPaid == IsFiniteSet(Leaked) /\ LeakBound

OwnersInv == NoFutureSlots /\ OlderDead /\ LeaksPaid /\ NoStaleSlots

LEMMA OwnersInit == Init => OwnersInv
<1> SUFFICES ASSUME Init PROVE OwnersInv
  OBVIOUS
<1>1. \A k \in Keys : Present(zset[k]) = {} /\ Live(zset[k]) = {}
  BY DEF Init, EmptyZSet, Present, Live
<1>2. Leaked = {}
  BY <1>1 DEF Leaked
<1>3. LeaksPaid
  BY <1>2, FS_EmptySet DEF Init, LeaksPaid, LeakBound
<1> QED
  BY <1>1, <1>3 DEF Init, OwnersInv, NoFutureSlots, OlderDead, NoStaleSlots

LEMMA SumNat == \A m, n \in Nat : m + n \in Nat
OBVIOUS

LEMMA LossesNat ==
  ASSUME MishapsOK, MishapsOK'
  PROVE  Losses \in Nat /\ Losses' \in Nat
BY SumNat, Zenon DEF MishapsOK, Losses

\* A mishap pays for at most one slot.
LEMMA ChargedPays ==
  ASSUME Charged, LeaksPaid, Losses \in Nat, Losses' \in Nat
  PROVE  LeaksPaid'
<1> USE DEF LeaksPaid, LeakBound, Losses
<1>0. Cardinality(Leaked) \in Nat
  BY FS_CardinalityType
<1>1. CASE Leaked' \subseteq Leaked /\ Losses' >= Losses
  <2>1. IsFiniteSet(Leaked') /\ Cardinality(Leaked') <= Cardinality(Leaked)
    BY <1>1, FS_Subset
  <2>2. Cardinality(Leaked') \in Nat
    BY <2>1, FS_CardinalityType
  <2> QED
    BY <1>0, <1>1, <2>1, <2>2
<1>2. ASSUME NEW x, Leaked' \subseteq Leaked \cup {x}, Losses' = Losses + 1
      PROVE  LeaksPaid'
  <2>1. /\ IsFiniteSet(Leaked \cup {x})
        /\ Cardinality(Leaked \cup {x}) <= Cardinality(Leaked) + 1
    BY <1>0, FS_AddElement
  <2>2. IsFiniteSet(Leaked') /\ Cardinality(Leaked') <= Cardinality(Leaked \cup {x})
    BY <1>2, <2>1, FS_Subset
  <2>3. Cardinality(Leaked') \in Nat /\ Cardinality(Leaked \cup {x}) \in Nat
    BY <2>1, <2>2, FS_CardinalityType
  <2> QED
    BY <1>0, <1>2, <2>1, <2>2, <2>3
<1> QED
  BY <1>1, <1>2 DEF Charged

\* A process that dies leaves its slots behind; none of them was held by a
\* request of another process.
LEMMA DieOwners ==
  ASSUME TypeOK, TypeOK', HeldIsOwn, OwnersInv, NEW p \in Procs, Die(p)
  PROVE  OwnersInv'
<1> USE ConcurrencySlotsAssumption DEF TypeOK, OwnersInv
<1>1. zset' = zset /\ older' = older /\ UNCHANGED mishaps /\ Up' = Up \ {p} /\ Dead' = Dead \cup {p}
  BY DEF Die, Up, Dead
<1>2. Leaked' \subseteq Leaked
  <2> SUFFICES ASSUME NEW k \in Keys, NEW id \in SlotIds, OwnerOf[id] \in Up \ {p},
                      Held(k, id)
               PROVE  Held(k, id)'
    BY <1>1 DEF Leaked
  <2>1. PICK r \in Requests : \/ UserOf[r] = k /\ userSlot[r] = id
                              \/ account[r] = k /\ acctSlot[r] = id
    BY DEF Held
  <2>2. home[r] = OwnerOf[id] /\ home[r] # p
    BY <2>1 DEF HeldIsOwn
  <2>3. UNCHANGED <<account[r], userSlot[r], acctSlot[r]>>
    BY <2>2 DEF Die
  <2> QED
    BY <2>1, <2>3 DEF Held
<1>3. LeaksPaid'
  <2>1. MishapsOK /\ MishapsOK' /\ Losses' = Losses
    BY <1>1 DEF Losses, mishaps, MishapsOK
  <2> QED
    BY <1>2, <2>1, LossesNat, ChargedPays DEF Charged
<1>4. NoFutureSlots'
  BY <1>1 DEF NoFutureSlots, Die, Present
<1>5. OlderDead' /\ NoStaleSlots'
  BY <1>1 DEF OlderDead, NoStaleSlots, mishaps
<1> QED
  BY <1>3, <1>4, <1>5

\* The cleanup of a process that starts only takes slots away; what it leaves are
\* its own, of which there are none yet, unless it fails.
LEMMA StartOwners ==
  ASSUME TypeOK, TypeOK', OwnersInv, NEW p \in Procs, StartupCleanup(p)
  PROVE  OwnersInv'
<1> USE ConcurrencySlotsAssumption DEF TypeOK, OwnersInv
<1>1. /\ life[p] = "off" /\ (life' = [life EXCEPT ![p] = "up"] \/ life' = [life EXCEPT ![p] = "dead"])
      /\ older' = [older EXCEPT ![p] = Dead]
  BY DEF StartupCleanup
<1>2. Up' \subseteq Up \cup {p} /\ Dead \subseteq Dead' /\ p \notin Dead
  BY <1>1 DEF Up, Dead
<1>3. \A k \in Keys : zset'[k] = zset[k] \/ zset'[k] = KeepOnly(zset[k], OwnIds(p))
  BY DEF StartupCleanup
<1>4. \A k \in Keys : /\ Present(zset'[k]) \subseteq Present(zset[k])
                      /\ Live(zset'[k]) \subseteq Live(zset[k])
  <2>1. \A k \in Keys : /\ Present(KeepOnly(zset[k], OwnIds(p))) \subseteq Present(zset[k])
                        /\ Live(KeepOnly(zset[k], OwnIds(p))) \subseteq Live(zset[k])
    BY DEF KeepOnly, Present, Live
  <2> QED
    BY <1>3, <2>1
<1>5. Leaked' \subseteq Leaked
  <2> SUFFICES ASSUME NEW k \in Keys, NEW id \in SlotIds, id \in Live(zset'[k]),
                      OwnerOf[id] \in Up', ~Held(k, id)'
               PROVE  id \in Live(zset[k]) /\ OwnerOf[id] \in Up /\ ~Held(k, id)
    BY DEF Leaked
  <2>1. id \in Live(zset[k]) /\ id \in Present(zset[k])
    BY <1>4 DEF Live, Present
  <2>2. OwnerOf[id] # p
    BY <1>1, <2>1 DEF NoFutureSlots
  <2>3. ~Held(k, id)
    BY DEF Held, StartupCleanup
  <2> QED
    BY <1>2, <2>1, <2>2, <2>3
<1>f. Fault \/ NoFault
  BY DEF StartupCleanup
<1>m. MishapsOK
  BY DEF MishapsOK
<1>6. LeaksPaid'
  <2>1. Losses \in Nat /\ Losses' >= Losses /\ MishapsOK'
    BY <1>f, <1>m, FaultLoses, FaultOK
  <2> QED
    BY <1>5, <1>m, <2>1, LossesNat, ChargedPays DEF Charged
<1>7. NoFutureSlots'
  BY <1>1, <1>4 DEF NoFutureSlots, Present
<1>8. OlderDead'
  BY <1>1, <1>2 DEF OlderDead
<1>9. NoStaleSlots'
  <2> SUFFICES ASSUME faults' = 0, NEW q \in Up', NEW k \in Keys, NEW id \in Present(zset'[k])
               PROVE  OwnerOf[id] \notin older'[q]
    BY DEF NoStaleSlots
  <2>1. ~Fault /\ faults = 0
    <3>1. Fault => faults' # 0
      BY <1>m DEF MishapsOK, Fault, Mishaps
    <3>2. NoFault => faults' = faults
      BY DEF NoFault, mishaps
    <3> QED
      BY <1>f, <3>1, <3>2
  <2>2. CASE q # p
    BY <1>1, <1>2, <1>4, <2>1, <2>2 DEF NoStaleSlots
  <2>3. CASE q = p
    <3>1. life'[p] = "up"
      BY <2>3 DEF Up
    <3>2. zset'[k] = KeepOnly(zset[k], OwnIds(p))
      BY <2>1, <3>1 DEF StartupCleanup
    <3>3. OwnerOf[id] = p
      BY <3>2 DEF KeepOnly, OwnIds, Present
    <3> QED
      BY <1>1, <1>2, <2>3, <3>3
  <2> QED
    BY <2>2, <2>3
<1> QED
  BY <1>6, <1>7, <1>8, <1>9

LEMMA OwnersStep ==
  ASSUME TypeOK, TypeOK', HeldInPhase, HeldIsOwn, OwnersInv, Next
  PROVE  OwnersInv'
<1>1. CASE \A p \in Procs : ~Die(p) /\ ~StartupCleanup(p)
  <2> USE DEF OwnersInv
  <2>1. SlotEffect
    BY <1>1, SlotStep
  <2>2. Losses \in Nat /\ Losses' \in Nat /\ faults \in Nat /\ faults' \in Nat
    <3>1. MishapsOK /\ MishapsOK'
      BY DEF TypeOK, MishapsOK
    <3> QED
      BY <3>1, LossesNat DEF MishapsOK
  <2>3. LeaksPaid'
    BY <2>1, <2>2, ChargedPays DEF SlotEffect
  <2>4. life' = life /\ older' = older /\ faults' >= faults
    BY <2>1 DEF SlotEffect, processes
  <2>5. \A k \in Keys : \A id \in Present(zset'[k]) : id \in Present(zset[k]) \/ OwnerOf[id] \in Up
    BY <2>1 DEF SlotEffect, Adds, UpIds
  <2>6. NoFutureSlots'
    BY <2>4, <2>5 DEF NoFutureSlots, Up
  <2>7. OlderDead'
    BY <2>4 DEF OlderDead, Dead
  <2>8. NoStaleSlots'
    <3> SUFFICES ASSUME faults' = 0, NEW p \in Up', NEW k \in Keys, NEW id \in Present(zset'[k])
                 PROVE  OwnerOf[id] \notin older'[p]
      BY DEF NoStaleSlots
    <3>1. p \in Up /\ faults = 0
      BY <2>2, <2>4 DEF Up
    <3>2. CASE id \in Present(zset[k])
      BY <2>4, <3>1, <3>2 DEF NoStaleSlots
    <3>3. CASE OwnerOf[id] \in Up
      BY <2>4, <3>1, <3>3 DEF OlderDead, Up, Dead
    <3> QED
      BY <2>5, <3>2, <3>3
  <2> QED
    BY <2>3, <2>6, <2>7, <2>8
<1>2. ASSUME NEW p \in Procs, Die(p) PROVE OwnersInv'
  BY <1>2, DieOwners
<1>3. ASSUME NEW p \in Procs, StartupCleanup(p) PROVE OwnersInv'
  BY <1>3, StartOwners
<1> QED
  BY <1>1, <1>2, <1>3

LEMMA OwnersAlways == Spec => []OwnersInv
<1>1. SlotsInv /\ SlotsInv' /\ OwnersInv /\ [Next]_vars => OwnersInv'
  <2> SUFFICES ASSUME SlotsInv, SlotsInv', OwnersInv, [Next]_vars PROVE OwnersInv'
    OBVIOUS
  <2>1. CASE Next
    BY <2>1, OwnersStep DEF SlotsInv
  <2>2. CASE UNCHANGED vars
    BY <2>2 DEF vars, processes, mishaps, OwnersInv, NoFutureSlots, OlderDead, Up, Dead,
                LeaksPaid, LeakBound, Leaked, Held, NoStaleSlots
  <2> QED
    BY <2>1, <2>2
<1> QED
  BY <1>1, OwnersInit, SlotsInvariant, PTL DEF Spec

\* Live slots of running processes that nobody will release are no more than the
\* redis calls that failed and the selections that failed after taking a slot.
THEOREM LeaksAreMishaps == Spec => []LeakBound
<1>1. OwnersInv => LeakBound
  BY DEF OwnersInv, LeaksPaid
<1> QED
  BY <1>1, OwnersAlways, PTL

\* A process that serves finds no slot in any set of a process that was dead when
\* it started, as long as no redis call has failed.
THEOREM StaleSlotsGone == Spec => []NoStaleSlots
<1>1. OwnersInv => NoStaleSlots
  BY DEF OwnersInv
<1> QED
  BY <1>1, OwnersAlways, PTL

-------------------------------------------------------------------------------
(* What the wait counters count.                                           *)

Counted(k) == {r \in Requests : counted[r] = k}

\* A request is counted on a queue only from entering it until it has left.
CountedInPhase ==
    \A r \in Requests : counted[r] # NoKey =>
      pc[r] \in {"userWait", "userGot", "acctWait", "acctGot", "ending"}

\* A counter is no higher than the requests counted on it, the failed calls and
\* the repeated increments: until a process dies always, and then once another
\* has swept.
CountersCovered ==
    Dead = {} \/ (Swept /\ faults = 0) =>
      \A k \in Keys : wait[k].n <= Cardinality(Counted(k)) + faults + resent

LEMMA PhaseOfCounted ==
  ASSUME TypeOK, CountedInPhase, Next
  PROVE  CountedInPhase'
<1> USE ConcurrencySlotsAssumption DEF TypeOK, CountedInPhase, Serving, Go
<1>1. ASSUME NEW r \in Requests, EnterUserQueue(r) PROVE CountedInPhase'
  BY <1>1 DEF EnterUserQueue, EnterQueue
<1>2. ASSUME NEW r \in Requests, UserQueueFull(r) PROVE CountedInPhase'
  BY <1>2 DEF UserQueueFull
<1>3. ASSUME NEW r \in Requests, TakeUserSlot(r) PROVE CountedInPhase'
  BY <1>3 DEF TakeUserSlot
<1>4. ASSUME NEW r \in Requests, RetryUserSlot(r) PROVE CountedInPhase'
  BY <1>4 DEF RetryUserSlot
<1>5. ASSUME NEW r \in Requests, GiveUpUserSlot(r) PROVE CountedInPhase'
  BY <1>5 DEF GiveUpUserSlot
<1>6. ASSUME NEW r \in Requests, LeaveUserQueue(r) PROVE CountedInPhase'
  BY <1>6 DEF LeaveUserQueue, LeaveQueue
<1>7. ASSUME NEW r \in Requests, NoAccount(r) PROVE CountedInPhase'
  BY <1>7 DEF NoAccount
<1>8. ASSUME NEW r \in Requests, NEW a \in Accounts, SelectWithSlot(r, a) PROVE CountedInPhase'
  BY <1>8 DEF SelectWithSlot
<1>8a. ASSUME NEW r \in Requests, SessionFull(r) PROVE CountedInPhase'
  BY <1>8a DEF SessionFull
<1>8b. ASSUME NEW r \in Requests, NotHydrated(r) PROVE CountedInPhase'
  BY <1>8b DEF NotHydrated
<1>8c. ASSUME NEW r \in Requests, NEW a \in Accounts, SelectNext(r, a) PROVE CountedInPhase'
  BY <1>8c DEF SelectNext
<1>9. ASSUME NEW r \in Requests, NEW a \in Accounts, SelectToWait(r, a) PROVE CountedInPhase'
  BY <1>9 DEF SelectToWait, EnterQueue
<1>10. ASSUME NEW r \in Requests, NEW a \in Accounts, AcctQueueFull(r, a) PROVE CountedInPhase'
  BY <1>10 DEF AcctQueueFull
<1>11. ASSUME NEW r \in Requests, TakeAcctSlot(r) PROVE CountedInPhase'
  BY <1>11 DEF TakeAcctSlot
<1>12. ASSUME NEW r \in Requests, RetryAcctSlot(r) PROVE CountedInPhase'
  BY <1>12 DEF RetryAcctSlot
<1>13. ASSUME NEW r \in Requests, GiveUpAcctSlot(r) PROVE CountedInPhase'
  BY <1>13 DEF GiveUpAcctSlot
<1>14. ASSUME NEW r \in Requests, LeaveAcctQueue(r) PROVE CountedInPhase'
  BY <1>14 DEF LeaveAcctQueue, LeaveQueue
<1>15. ASSUME NEW r \in Requests, Intercept(r) PROVE CountedInPhase'
  BY <1>15 DEF Intercept
<1>16. ASSUME NEW r \in Requests, StartForward(r) PROVE CountedInPhase'
  BY <1>16 DEF StartForward
<1>17. ASSUME NEW r \in Requests, ForwardEnds(r) PROVE CountedInPhase'
  BY <1>17 DEF ForwardEnds, ForwardReturns
<1>18. ASSUME NEW r \in Requests, FailOver(r) PROVE CountedInPhase'
  BY <1>18 DEF FailOver, ForwardReturns
<1>19. ASSUME NEW r \in Requests, ForwardPanics(r) PROVE CountedInPhase'
  BY <1>19 DEF ForwardPanics
<1>20. ASSUME NEW r \in Requests, End(r) PROVE CountedInPhase'
  BY <1>20 DEF End, LeaveQueue
<1>21. ASSUME NEW r \in Requests, ClientLeaves(r) PROVE CountedInPhase'
  BY <1>21 DEF ClientLeaves
<1>22. ASSUME NEW r \in Requests, ReleaseUserOnDone(r) PROVE CountedInPhase'
  BY <1>22 DEF ReleaseUserOnDone
<1>23. ASSUME NEW r \in Requests, ReleaseAcctOnDone(r) PROVE CountedInPhase'
  BY <1>23 DEF ReleaseAcctOnDone
<1>24. ASSUME NEW a \in Accounts, CleanupAccount(a) PROVE CountedInPhase'
  BY <1>24 DEF CleanupAccount
<1>25. ASSUME NEW k \in Keys, SlotKeyExpires(k) PROVE CountedInPhase'
  BY <1>25 DEF SlotKeyExpires
<1>26. ASSUME NEW k \in Keys, WaitKeyExpires(k) PROVE CountedInPhase'
  BY <1>26 DEF WaitKeyExpires
<1>27. ASSUME Tick PROVE CountedInPhase'
  BY <1>27 DEF Tick
<1>28. ASSUME NEW p \in Procs, Die(p) PROVE CountedInPhase'
  BY <1>28 DEF Die
<1>29. ASSUME NEW p \in Procs, StartupCleanup(p) PROVE CountedInPhase'
  BY <1>29 DEF StartupCleanup
<1> QED
  BY <1>1, <1>2, <1>3, <1>4, <1>5, <1>6, <1>7, <1>8, <1>8a, <1>8b, <1>8c, <1>9, <1>10, <1>11, <1>12, <1>13, <1>14, <1>15, <1>16, <1>17, <1>18, <1>19, <1>20, <1>21, <1>22, <1>23, <1>24, <1>25, <1>26, <1>27, <1>28, <1>29 DEF Next, Handler, Callback

LEMMA CountedFinite ==
  /\ \A k : IsFiniteSet(Counted(k)) /\ Cardinality(Counted(k)) \in Nat
  /\ (\A k : IsFiniteSet(Counted(k)) /\ Cardinality(Counted(k)) \in Nat)'
<1>1. ASSUME NEW S \in SUBSET Requests PROVE IsFiniteSet(S) /\ Cardinality(S) \in Nat
  BY <1>1, ConcurrencySlotsAssumption, FS_Subset, FS_CardinalityType
<1> QED
  BY <1>1 DEF Counted

\* A step moves a counter up only with the requests counted on it and the mishaps.
Covers(k) ==
    \/ wait'[k].n = 0
    \/ wait'[k].n + Cardinality(Counted(k)) + faults + resent
         <= wait[k].n + Cardinality(Counted(k)') + faults' + resent'

Moves == faults' >= faults /\ \A k \in Keys : Covers(k)

LEMMA MovesCovered ==
  ASSUME TypeOK, TypeOK', CountersCovered, Moves, UNCHANGED processes
  PROVE  CountersCovered'
<1>1. faults \in Nat /\ faults' \in Nat /\ resent \in Nat /\ resent' \in Nat
  BY DEF TypeOK
<1>2. \A k \in Keys : wait[k].n \in Nat /\ wait'[k].n \in Nat
  BY DEF TypeOK, Waits
<1>3. Dead' = Dead /\ (Swept' <=> Swept)
  BY DEF processes, Dead, Swept, Up
<1> SUFFICES ASSUME Dead = {} \/ (Swept /\ faults' = 0), NEW k \in Keys
             PROVE  wait'[k].n <= Cardinality(Counted(k)') + faults' + resent'
  BY <1>3 DEF CountersCovered
<1>4. Dead = {} \/ (Swept /\ faults = 0)
  BY <1>1 DEF Moves
<1>5. wait[k].n <= Cardinality(Counted(k)) + faults + resent
  BY <1>4 DEF CountersCovered
<1>6. Covers(k)
  BY DEF Moves
<1>7. Cardinality(Counted(k)) \in Nat /\ Cardinality(Counted(k)') \in Nat
  BY CountedFinite
<1> QED
  BY <1>1, <1>2, <1>5, <1>6, <1>7 DEF Covers

\* What a call adds to the mishaps.
LEMMA MishapsAdd ==
  ASSUME TypeOK
  PROVE  /\ Fault => faults' = faults + 1 /\ resent' = resent
         /\ NoFault => faults' = faults /\ resent' = resent
         /\ \A f \in {0, 1}, runs \in Runs : Mishaps(f, runs - 1, 0) =>
              faults' = faults + f /\ resent' = resent + runs - 1
<1>1. \A runs \in Runs : runs \in Nat
  BY ConcurrencySlotsAssumption DEF Runs
<1> QED
  BY <1>1 DEF TypeOK, Fault, NoFault, Mishaps, mishaps

\* Steps that leave the counters and who is counted alone.
LEMMA SameMoves ==
  ASSUME TypeOK, UNCHANGED <<wait, counted>>, Fault \/ NoFault \/ UNCHANGED mishaps
  PROVE  Moves
<1>1. faults' >= faults /\ resent' = resent /\ faults' \in Nat
  BY MishapsAdd DEF TypeOK, mishaps, NoFault
<1>2. \A k \in Keys : Counted(k)' = Counted(k) /\ wait'[k].n = wait[k].n /\ wait[k].n \in Nat
  BY DEF Counted, TypeOK, Waits
<1> QED
  BY <1>1, <1>2, CountedFinite DEF Moves, Covers, TypeOK

\* Steps that only lower counters.
LEMMA FewerMoves ==
  ASSUME TypeOK, TypeOK', counted' = counted, faults' >= faults, resent' = resent,
         \A k \in Keys : wait'[k].n <= wait[k].n
  PROVE  Moves
<1>1. \A k \in Keys : Counted(k)' = Counted(k) /\ wait'[k].n \in Nat /\ wait[k].n \in Nat
  BY DEF Counted, TypeOK, Waits
<1> QED
  BY <1>1, CountedFinite DEF Moves, Covers, TypeOK

\* Who enters a queue adds himself to it, and nobody to the others; what further
\* runs of the script add is a mishap each.
LEMMA EnterMoves ==
  ASSUME TypeOK, TypeOK', NEW r \in Requests, NEW k \in Keys, NEW next,
         counted[r] = NoKey, EnterQueue(r, k, next)
  PROVE  Moves
<1> USE ConcurrencySlotsAssumption
<1>1. counted' = [counted EXCEPT ![r] = k]
  BY DEF EnterQueue
<1>2. Counted(k)' = Counted(k) \cup {r} /\ r \notin Counted(k)
  BY <1>1 DEF Counted, TypeOK
<1>3. Cardinality(Counted(k)') = Cardinality(Counted(k)) + 1
  <2>1. IsFiniteSet(Counted(k)) /\ Cardinality(Counted(k)) \in Nat
    BY CountedFinite
  <2>2. Cardinality(Counted(k) \cup {r}) = Cardinality(Counted(k)) + 1
    BY <1>2, <2>1, FS_AddElement
  <2> QED
    BY <1>2, <2>2
<1>4. \A j \in Keys : j # k => Counted(j)' = Counted(j)
  BY <1>1 DEF Counted, TypeOK
<1>5. \A j \in Keys : wait[j].n \in Nat /\ wait'[j].n \in Nat
  BY DEF TypeOK, Waits
<1>6. ASSUME NEW runs \in Runs, NEW f \in {0, 1}, Mishaps(f, runs - 1, 0),
             wait' = [wait EXCEPT ![k] = IncrementResult(@, MaxWait[k], runs)]
      PROVE  Moves
  <2>1. runs \in Nat /\ runs >= 1 /\ faults \in Nat /\ resent \in Nat /\ f \in Nat
    BY DEF Runs, TypeOK
  <2>2. faults' = faults + f /\ resent' = resent + runs - 1
    BY <1>6, MishapsAdd
  <2>3. wait'[k].n <= wait[k].n + runs
    <3>1. wait[k] \in Waits /\ MaxWait[k] \in Nat
      BY DEF TypeOK
    <3>2. IncrementResult(wait[k], MaxWait[k], runs).n <= wait[k].n + runs
      BY <3>1, IncrementOps
    <3> QED
      BY <1>6, <3>2 DEF TypeOK
  <2>4. \A j \in Keys : j # k => wait'[j].n = wait[j].n
    BY <1>6 DEF TypeOK
  <2>5. Covers(k)
    BY <1>3, <1>5, <2>1, <2>2, <2>3, CountedFinite DEF Covers
  <2>6. ASSUME NEW j \in Keys, j # k PROVE Covers(j)
    <3>1. Cardinality(Counted(j)') = Cardinality(Counted(j)) /\ wait'[j].n = wait[j].n
      BY <1>4, <2>4, <2>6
    <3> QED
      BY <1>5, <2>1, <2>2, <3>1, CountedFinite DEF Covers
  <2> QED
    BY <2>1, <2>2, <2>5, <2>6 DEF Moves
<1>7. CASE UNCHANGED wait /\ Fault
  <2>1. faults' = faults + 1 /\ resent' = resent /\ faults \in Nat /\ resent \in Nat
    BY <1>7, MishapsAdd DEF TypeOK
  <2>2. Covers(k)
    BY <1>3, <1>5, <1>7, <2>1, CountedFinite DEF Covers
  <2>3. \A j \in Keys : j # k => Covers(j)
    BY <1>4, <1>5, <1>7, <2>1, CountedFinite DEF Covers
  <2> QED
    BY <2>1, <2>2, <2>3 DEF Moves
<1> QED
  BY <1>6, <1>7 DEF EnterQueue

\* A refused caller is counted by the further runs of his call at most.
LEMMA QueueFullMoves ==
  ASSUME TypeOK, TypeOK', NEW k \in Keys, QueueFull(k), counted' = counted
  PROVE  Moves
<1> USE ConcurrencySlotsAssumption
<1>1. PICK runs \in Runs :
        /\ ~IncrementGrants(wait[k], MaxWait[k], runs)
        /\ wait' = [wait EXCEPT ![k] = IncrementResult(@, MaxWait[k], runs)]
        /\ Mishaps(0, runs - 1, 0)
  BY DEF QueueFull
<1>2. runs \in Nat /\ runs >= 1 /\ faults \in Nat /\ resent \in Nat
  BY DEF Runs, TypeOK
<1>3. faults' = faults /\ resent' = resent + runs - 1
  BY <1>1, <1>2, MishapsAdd
<1>4. wait'[k].n <= wait[k].n + (runs - 1)
  <2>1. wait[k] \in Waits /\ MaxWait[k] \in Nat
    BY DEF TypeOK
  <2>2. IncrementResult(wait[k], MaxWait[k], runs).n <= wait[k].n + (runs - 1)
    BY <1>1, <2>1, IncrementOps
  <2> QED
    BY <1>1, <2>2 DEF TypeOK
<1>5. \A j \in Keys : Counted(j)' = Counted(j) /\ wait[j].n \in Nat /\ wait'[j].n \in Nat
  BY DEF Counted, TypeOK, Waits
<1>6. \A j \in Keys : j # k => wait'[j].n = wait[j].n
  BY <1>1 DEF TypeOK
<1>7. Covers(k)
  BY <1>2, <1>3, <1>4, <1>5, CountedFinite DEF Covers
<1>8. \A j \in Keys : j # k => Covers(j)
  BY <1>2, <1>3, <1>5, <1>6, CountedFinite DEF Covers
<1> QED
  BY <1>2, <1>3, <1>7, <1>8 DEF Moves

\* Who leaves takes himself off, or a fault stands for him.
LEMMA LeaveMoves ==
  ASSUME TypeOK, TypeOK', NEW r \in Requests, LeaveQueue(r)
  PROVE  Moves
<1> USE ConcurrencySlotsAssumption
<1>1. counted' = [counted EXCEPT ![r] = NoKey]
  BY DEF LeaveQueue
<1>2. CASE counted[r] = NoKey
  <2>1. UNCHANGED <<wait, counted>> /\ NoFault
    BY <1>1, <1>2 DEF LeaveQueue, TypeOK
  <2> QED
    BY <2>1, SameMoves
<1>3. CASE counted[r] # NoKey
  <2>1. PICK k \in Keys : k = counted[r]
    BY <1>3 DEF TypeOK
  <2>2. Counted(k)' = Counted(k) \ {r} /\ r \in Counted(k)
    BY <1>1, <2>1 DEF Counted, TypeOK
  <2>3. Cardinality(Counted(k)') = Cardinality(Counted(k)) - 1
    <3>1. IsFiniteSet(Counted(k)) /\ Cardinality(Counted(k)) \in Nat
      BY CountedFinite
    <3> QED
      BY <2>2, <3>1, FS_RemoveElement
  <2>4. \A j \in Keys : j # k => Counted(j)' = Counted(j)
    BY <1>1, <2>1 DEF Counted, TypeOK
  <2>5. \A j \in Keys : wait[j].n \in Nat /\ wait'[j].n \in Nat
    BY DEF TypeOK, Waits
  <2>6. ASSUME NEW runs \in Runs, NEW f \in {0, 1}, Mishaps(f, runs - 1, 0),
               wait' = [wait EXCEPT ![k] = DecrementResult(@, runs)]
        PROVE  Moves
    <3>1. runs \in Nat /\ runs >= 1 /\ faults \in Nat /\ resent \in Nat /\ f \in Nat
      BY DEF Runs, TypeOK
    <3>2. faults' = faults + f /\ resent' = resent + runs - 1
      BY <2>6, MishapsAdd
    <3>3. wait'[k].n = 0 \/ wait'[k].n <= wait[k].n - 1
      <4>1. wait[k] \in Waits /\ wait'[k] = DecrementResult(wait[k], runs)
        BY <2>6 DEF TypeOK
      <4> QED
        BY <4>1, DecrementOps
    <3>4. \A j \in Keys : j # k => wait'[j].n = wait[j].n
      BY <2>6 DEF TypeOK
    <3>c. Cardinality(Counted(k)) \in Nat /\ Cardinality(Counted(k)') \in Nat
      BY CountedFinite
    <3>5. Covers(k)
      BY <2>3, <2>5, <3>1, <3>2, <3>3, <3>c DEF Covers
    <3>6. \A j \in Keys : j # k => Covers(j)
      BY <2>4, <2>5, <3>1, <3>2, <3>4, CountedFinite DEF Covers
    <3> QED
      BY <3>1, <3>2, <3>5, <3>6 DEF Moves
  <2>7. CASE UNCHANGED wait /\ Fault
    <3>1. faults' = faults + 1 /\ resent' = resent /\ faults \in Nat /\ resent \in Nat
      BY <2>7, MishapsAdd DEF TypeOK
    <3>2. Covers(k)
      BY <2>3, <2>5, <2>7, <3>1, CountedFinite DEF Covers
    <3>3. \A j \in Keys : j # k => Covers(j)
      BY <2>4, <2>5, <2>7, <3>1, CountedFinite DEF Covers
    <3> QED
      BY <3>1, <3>2, <3>3 DEF Moves
  <2> QED
    BY <1>3, <2>1, <2>6, <2>7 DEF LeaveQueue
<1> QED
  BY <1>2, <1>3

\* After a death the counters count only for who has swept since.
LEMMA UnsweptCovered ==
  ASSUME OlderDead', NEW p \in Procs, p \in Dead', \A q \in Procs : p \notin older'[q]
  PROVE  CountersCovered'
BY DEF CountersCovered, Swept, Up

LEMMA CoveredStep ==
  ASSUME TypeOK, TypeOK', OlderDead, OlderDead', CountedInPhase, CountersCovered, Next
  PROVE  CountersCovered'
<1>c. Moves /\ UNCHANGED processes => CountersCovered'
  BY MovesCovered
<1>1. ASSUME NEW r \in Requests, EnterUserQueue(r) PROVE CountersCovered'
  <2>1. counted[r] = NoKey /\ UserOf[r] \in Keys /\ EnterQueue(r, UserOf[r], "userWait")
    BY <1>1, RequestKeys DEF EnterUserQueue, Arrives, CountedInPhase, Serving
  <2> QED
    BY <1>1, <1>c, <2>1, EnterMoves DEF EnterUserQueue
<1>2. ASSUME NEW r \in Requests, UserQueueFull(r) PROVE CountersCovered'
  BY <1>2, <1>c, QueueFullMoves, RequestKeys DEF UserQueueFull
<1>3. ASSUME NEW r \in Requests, TakeUserSlot(r) PROVE CountersCovered'
  BY <1>3, <1>c, SameMoves DEF TakeUserSlot
<1>4. ASSUME NEW r \in Requests, RetryUserSlot(r) PROVE CountersCovered'
  BY <1>4, <1>c, SameMoves DEF RetryUserSlot
<1>5. ASSUME NEW r \in Requests, GiveUpUserSlot(r) PROVE CountersCovered'
  BY <1>5, <1>c, SameMoves DEF GiveUpUserSlot
<1>6. ASSUME NEW r \in Requests, LeaveUserQueue(r) PROVE CountersCovered'
  BY <1>6, <1>c, LeaveMoves DEF LeaveUserQueue
<1>7. ASSUME NEW r \in Requests, NoAccount(r) PROVE CountersCovered'
  BY <1>7, <1>c, SameMoves DEF NoAccount
<1>8. ASSUME NEW r \in Requests, NEW a \in Accounts, SelectWithSlot(r, a) PROVE CountersCovered'
  BY <1>8, <1>c, SameMoves DEF SelectWithSlot
<1>8a. ASSUME NEW r \in Requests, SessionFull(r) PROVE CountersCovered'
  BY <1>8a, <1>c, SameMoves DEF SessionFull, ReleaseSlot
<1>8b. ASSUME NEW r \in Requests, NotHydrated(r) PROVE CountersCovered'
  <2>1. counted' = counted /\ wait' = wait /\ faults' = faults /\ resent' = resent
    BY <1>8b DEF NotHydrated, Mishaps, TypeOK
  <2> QED
    BY <1>8b, <1>c, <2>1, FewerMoves DEF NotHydrated, TypeOK, Waits
<1>8c. ASSUME NEW r \in Requests, NEW a \in Accounts, SelectNext(r, a) PROVE CountersCovered'
  BY <1>8c, <1>c, SameMoves DEF SelectNext
<1>9. ASSUME NEW r \in Requests, NEW a \in Accounts, SelectToWait(r, a) PROVE CountersCovered'
  <2>1. counted[r] = NoKey /\ a \in Keys /\ EnterQueue(r, a, "acctWait")
    BY <1>9, AccountKeys DEF SelectToWait, CountedInPhase, Serving
  <2> QED
    BY <1>9, <1>c, <2>1, EnterMoves DEF SelectToWait
<1>10. ASSUME NEW r \in Requests, NEW a \in Accounts, AcctQueueFull(r, a) PROVE CountersCovered'
  BY <1>10, <1>c, QueueFullMoves, AccountKeys DEF AcctQueueFull
<1>11. ASSUME NEW r \in Requests, TakeAcctSlot(r) PROVE CountersCovered'
  BY <1>11, <1>c, SameMoves DEF TakeAcctSlot
<1>12. ASSUME NEW r \in Requests, RetryAcctSlot(r) PROVE CountersCovered'
  BY <1>12, <1>c, SameMoves DEF RetryAcctSlot
<1>13. ASSUME NEW r \in Requests, GiveUpAcctSlot(r) PROVE CountersCovered'
  BY <1>13, <1>c, SameMoves DEF GiveUpAcctSlot
<1>14. ASSUME NEW r \in Requests, LeaveAcctQueue(r) PROVE CountersCovered'
  BY <1>14, <1>c, LeaveMoves DEF LeaveAcctQueue
<1>15. ASSUME NEW r \in Requests, Intercept(r) PROVE CountersCovered'
  BY <1>15, <1>c, SameMoves DEF Intercept, ReleaseSlot
<1>16. ASSUME NEW r \in Requests, StartForward(r) PROVE CountersCovered'
  BY <1>16, <1>c, SameMoves DEF StartForward
<1>17. ASSUME NEW r \in Requests, ForwardEnds(r) PROVE CountersCovered'
  BY <1>17, <1>c, SameMoves DEF ForwardEnds, ForwardReturns, ReleaseSlot
<1>18. ASSUME NEW r \in Requests, FailOver(r) PROVE CountersCovered'
  BY <1>18, <1>c, SameMoves DEF FailOver, ForwardReturns, ReleaseSlot
<1>19. ASSUME NEW r \in Requests, ForwardPanics(r) PROVE CountersCovered'
  BY <1>19, <1>c, SameMoves DEF ForwardPanics
<1>20. ASSUME NEW r \in Requests, End(r) PROVE CountersCovered'
  <2>1. CASE LeaveQueue(r)
    BY <1>20, <1>c, <2>1, LeaveMoves DEF End
  <2>2. CASE ReleaseSlot(UserOf[r], userSlot[r]) /\ UNCHANGED <<wait, counted>>
    BY <1>20, <1>c, <2>2, SameMoves DEF End, ReleaseSlot
  <2> QED
    BY <1>20, <2>1, <2>2 DEF End
<1>21. ASSUME NEW r \in Requests, ClientLeaves(r) PROVE CountersCovered'
  BY <1>21, <1>c, SameMoves DEF ClientLeaves
<1>22. ASSUME NEW r \in Requests, ReleaseUserOnDone(r) PROVE CountersCovered'
  BY <1>22, <1>c, SameMoves DEF ReleaseUserOnDone, ReleaseSlot
<1>23. ASSUME NEW r \in Requests, ReleaseAcctOnDone(r) PROVE CountersCovered'
  BY <1>23, <1>c, SameMoves DEF ReleaseAcctOnDone, ReleaseSlot
<1>24. ASSUME NEW a \in Accounts, CleanupAccount(a) PROVE CountersCovered'
  BY <1>24, <1>c, SameMoves DEF CleanupAccount
<1>25. ASSUME NEW k \in Keys, SlotKeyExpires(k) PROVE CountersCovered'
  BY <1>25, <1>c, SameMoves DEF SlotKeyExpires
<1>26. ASSUME NEW k \in Keys, WaitKeyExpires(k) PROVE CountersCovered'
  <2>1. \A j \in Keys : wait'[j].n <= wait[j].n
    BY <1>26 DEF WaitKeyExpires, NoWaiters, TypeOK, Waits
  <2> QED
    BY <1>26, <1>c, <2>1, FewerMoves DEF WaitKeyExpires, mishaps, TypeOK
<1>27. ASSUME Tick PROVE CountersCovered'
  <2>1. \A j \in Keys : wait'[j].n <= wait[j].n
    BY <1>27 DEF Tick, OlderWait, TypeOK, Waits
  <2> QED
    BY <1>27, <1>c, <2>1, FewerMoves DEF Tick, mishaps, TypeOK
<1>28. ASSUME NEW p \in Procs, Die(p) PROVE CountersCovered'
  <2>1. p \in Dead' /\ p \notin Dead /\ older' = older
    BY <1>28 DEF Die, Dead, TypeOK
  <2> QED
    BY <2>1, UnsweptCovered DEF OlderDead
<1>29. ASSUME NEW p \in Procs, StartupCleanup(p) PROVE CountersCovered'
  <2>1. p \notin Dead /\ older' = [older EXCEPT ![p] = Dead]
    BY <1>29 DEF StartupCleanup, Dead
  <2>2. CASE life' = [life EXCEPT ![p] = "dead"]
    <3>1. p \in Dead'
      BY <2>2 DEF Dead, TypeOK
    <3>2. \A q \in Procs : p \notin older'[q]
      BY <2>1 DEF OlderDead, TypeOK
    <3> QED
      BY <3>1, <3>2, UnsweptCovered
  <2>3. CASE wait' = [j \in Keys |-> NoWaiters]
    <3>1. \A j \in Keys : wait'[j].n = 0
      BY <2>3 DEF NoWaiters
    <3> QED
      BY <3>1, CountedFinite DEF CountersCovered, TypeOK
  <2>4. CASE life' = [life EXCEPT ![p] = "up"] /\ Fault
    <3>1. faults' # 0 /\ faults' >= faults /\ resent' = resent
      BY <2>4, MishapsAdd DEF TypeOK
    <3>2. Dead' = Dead
      BY <1>29, <2>4 DEF StartupCleanup, Dead, TypeOK
    <3>3. Moves
      <4>1. counted' = counted
        BY <1>29 DEF StartupCleanup
      <4>2. \A j \in Keys : wait'[j].n <= wait[j].n
        BY <1>29 DEF StartupCleanup, NoWaiters, TypeOK, Waits
      <4> QED
        BY <3>1, <4>1, <4>2, FewerMoves
    <3> SUFFICES ASSUME Dead = {}, NEW k \in Keys
                 PROVE  wait'[k].n <= Cardinality(Counted(k)') + faults' + resent'
      BY <3>1, <3>2 DEF CountersCovered
    <3>4. wait[k].n <= Cardinality(Counted(k)) + faults + resent /\ Covers(k)
      BY <3>3 DEF CountersCovered, Moves
    <3>5. wait[k].n \in Nat /\ wait'[k].n \in Nat
      BY DEF TypeOK, Waits
    <3>6. faults \in Nat /\ faults' \in Nat /\ resent \in Nat /\ resent' \in Nat
      BY DEF TypeOK
    <3> QED
      BY <3>4, <3>5, <3>6, CountedFinite DEF Covers
  <2> QED
    BY <1>29, <2>2, <2>3, <2>4 DEF StartupCleanup
<1> QED
  BY <1>1, <1>2, <1>3, <1>4, <1>5, <1>6, <1>7, <1>8, <1>8a, <1>8b, <1>8c,
     <1>9, <1>10, <1>11, <1>12, <1>13, <1>14, <1>15, <1>16, <1>17, <1>18,
     <1>19, <1>20, <1>21, <1>22, <1>23, <1>24, <1>25, <1>26, <1>27, <1>28,
     <1>29
     DEF Next, Handler, Callback

\* A counter stands above the requests that have yet to leave its queue only by the
\* calls that failed and the increments sent again, so nothing else makes it refuse
\* requests for waiters that are gone.
THEOREM NoWaiterForgotten == Spec => []NoPhantomWaiters
<1> DEFINE WaitInv == CountedInPhase /\ CountersCovered
<1>1. Init => WaitInv
  <2> SUFFICES ASSUME Init PROVE WaitInv
    OBVIOUS
  <2>1. \A k \in Keys : wait[k].n = 0
    BY DEF Init, NoWaiters
  <2>2. CountersCovered
    BY <2>1, CountedFinite DEF Init, CountersCovered
  <2> QED
    BY <2>2 DEF Init, CountedInPhase
<1>2. SlotsInv /\ SlotsInv' /\ OwnersInv /\ OwnersInv' /\ WaitInv /\ [Next]_vars => WaitInv'
  <2> SUFFICES ASSUME SlotsInv, SlotsInv', OwnersInv, OwnersInv', WaitInv, [Next]_vars
               PROVE  WaitInv'
    OBVIOUS
  <2>1. CASE Next
    BY <2>1, PhaseOfCounted, CoveredStep DEF SlotsInv, OwnersInv
  <2>2. CASE UNCHANGED vars
    BY <2>2 DEF vars, processes, mishaps, CountedInPhase, CountersCovered, Counted, Swept, Up, Dead
  <2> QED
    BY <2>1, <2>2
<1>3. WaitInv => NoPhantomWaiters
  BY DEF CountersCovered, NoPhantomWaiters, Counted
<1> QED
  BY <1>1, <1>2, <1>3, SlotsInvariant, OwnersAlways, PTL DEF Spec
===============================================================================
