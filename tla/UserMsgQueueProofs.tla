-------------------------- MODULE UserMsgQueueProofs --------------------------
(***************************************************************************)
(* What the user message queue promises, for any set of requests, any TTL, *)
(* delay and number of attempts, and any number of faults.                 *)
(*                                                                         *)
(* Serialized is not inductive: it counts holders, and a new one appears   *)
(* whenever the lock is free.  IInv counts the holders that are not, or no *)
(* longer, the lock's owner; each of them has lost the lock by a lapse.    *)
(***************************************************************************)
EXTENDS UserMsgQueue, FiniteSetTheorems, TLAPS

\* A request only ever carries ids of its own.
HeldIsOwn ==
    \A r \in Requests : held[r] # NoId => \E k \in 1..MaxAttempts : held[r] = <<r, k>>

\* The requests that carry an id which is not the lock's.
Ousted == {r \in Requests : held[r] # NoId /\ held[r] # lock}

OustedByLapse == Cardinality(Ousted) <= lapses

IInv == TypeOK /\ HeldIsOwn /\ OustedByLapse

-------------------------------------------------------------------------------

LEMMA SmallerSet ==
  ASSUME NEW S \in SUBSET Requests, NEW T \in SUBSET S, NEW n \in Nat, Cardinality(S) <= n
  PROVE  Cardinality(T) <= n
<1>1. IsFiniteSet(S)
  BY UserMsgQueueAssumption, FS_Subset
<1>2. IsFiniteSet(T) /\ Cardinality(T) <= Cardinality(S)
  BY <1>1, FS_Subset
<1>3. Cardinality(S) \in Nat /\ Cardinality(T) \in Nat
  BY <1>1, <1>2, FS_CardinalityType
<1> QED
  BY <1>2, <1>3

LEMMA OneMore ==
  ASSUME NEW S \in SUBSET Requests, NEW r, NEW T \in SUBSET (S \cup {r}),
         NEW n \in Nat, Cardinality(S) <= n
  PROVE  Cardinality(T) <= n + 1
<1>1. IsFiniteSet(S)
  BY UserMsgQueueAssumption, FS_Subset
<1>2. IsFiniteSet(S \cup {r}) /\ Cardinality(S \cup {r}) \in {Cardinality(S), Cardinality(S) + 1}
  BY <1>1, FS_AddElement
<1>3. IsFiniteSet(T) /\ Cardinality(T) <= Cardinality(S \cup {r})
  BY <1>2, FS_Subset
<1>4. Cardinality(S) \in Nat /\ Cardinality(T) \in Nat
  BY <1>1, <1>3, FS_CardinalityType
<1> QED
  BY <1>2, <1>3, <1>4

\* Two requests never carry the same id.
LEMMA OwnersDistinct ==
  ASSUME HeldIsOwn, NEW r \in Requests, NEW s \in Requests, held[r] # NoId, held[r] = held[s]
  PROVE  r = s
BY DEF HeldIsOwn

\* Most steps oust nobody and change neither held nor lapses.
LEMMA OustedShrinks ==
  ASSUME IInv, lapses' = lapses, Ousted' \subseteq Ousted
  PROVE  OustedByLapse'
<1>1. Ousted \in SUBSET Requests /\ Ousted' \in SUBSET Ousted /\ lapses \in Nat
  BY DEF Ousted, IInv, TypeOK
<1>2. Cardinality(Ousted') <= lapses
  BY <1>1, SmallerSet DEF IInv, OustedByLapse
<1> QED
  BY <1>2 DEF OustedByLapse

\* A lapse ousts at most the lock's owner.
LEMMA LapseOusts ==
  ASSUME IInv, Lapse, UNCHANGED held
  PROVE  OustedByLapse'
<1>1. lapses \in Nat /\ lapses' = lapses + 1 /\ Cardinality(Ousted) <= lapses
  BY DEF IInv, TypeOK, OustedByLapse, Lapse
<1>2. CASE \E r \in Requests : held[r] # NoId /\ held[r] = lock
  <2>1. PICK r \in Requests : held[r] # NoId /\ held[r] = lock
    BY <1>2
  <2>2. Ousted' \in SUBSET (Ousted \cup {r})
    BY <2>1, OwnersDistinct DEF Ousted, IInv
  <2>3. Ousted \in SUBSET Requests
    BY DEF Ousted
  <2>4. Cardinality(Ousted') <= lapses + 1
    BY <1>1, <2>2, <2>3, OneMore
  <2> QED
    BY <1>1, <2>4 DEF OustedByLapse
<1>3. CASE ~ \E r \in Requests : held[r] # NoId /\ held[r] = lock
  <2>1. Ousted' \in SUBSET Ousted /\ Ousted \in SUBSET Requests
    BY <1>3 DEF Ousted
  <2>2. Cardinality(Ousted') <= lapses
    BY <1>1, <2>1, SmallerSet
  <2>3. Cardinality(Ousted') \in Nat
    BY <2>1, UserMsgQueueAssumption, FS_Subset, FS_CardinalityType
  <2> QED
    BY <1>1, <2>2, <2>3 DEF OustedByLapse
<1> QED
  BY <1>2, <1>3

\* The release function clears what its request carries, and the lock only if
\* that was the lock's id.
LEMMA ReleaseEffect ==
  ASSUME IInv, NEW r \in Requests, Release(r)
  PROVE  /\ lock' \in Ids \cup {NoId} /\ left' \in {NoTTL} \cup 0..LockTTL
         /\ lastAge' \in 0..Delay /\ faults' \in 0..MaxFaults
         /\ held' \in [Requests -> Ids \cup {NoId}]
         /\ HeldIsOwn'
         /\ Ousted' \subseteq Ousted
         /\ \A s \in Requests \ {r} : held'[s] = held[s]
         /\ (held[r] # NoId /\ held[r] = lock) \/ lock' = lock
<1>1. held' = [held EXCEPT ![r] = NoId] /\ held \in [Requests -> Ids \cup {NoId}]
  BY DEF Release, IInv, TypeOK
<1>2. held' \in [Requests -> Ids \cup {NoId}] /\ held'[r] = NoId
      /\ \A s \in Requests \ {r} : held'[s] = held[s]
  BY <1>1
<1>3. HeldIsOwn'
  BY <1>2 DEF IInv, HeldIsOwn
<1>4. /\ lock' \in Ids \cup {NoId} /\ left' \in {NoTTL} \cup 0..LockTTL
      /\ lastAge' \in 0..Delay /\ faults' \in 0..MaxFaults
  BY UserMsgQueueAssumption DEF Release, ReleaseScript, Fault, NoFault, IInv, TypeOK
<1>5. (held[r] # NoId /\ held[r] = lock) \/ lock' = lock
  BY DEF Release, ReleaseScript
<1>6. Ousted' \subseteq Ousted
  <2> SUFFICES ASSUME NEW s \in Ousted' PROVE s \in Ousted
    OBVIOUS
  <2>1. s \in Requests /\ s # r /\ held[s] # NoId /\ held[s] # lock' /\ held'[s] = held[s]
    BY <1>2 DEF Ousted
  <2>2. held[s] # lock
    BY <1>5, <2>1, OwnersDistinct DEF IInv
  <2> QED
    BY <2>1, <2>2 DEF Ousted
<1> QED
  BY <1>2, <1>3, <1>4, <1>5, <1>6

-------------------------------------------------------------------------------

LEMMA InitIInv == Init => IInv
<1> SUFFICES ASSUME Init PROVE IInv
  OBVIOUS
<1>1. TypeOK
  <2>1. /\ left \in {NoTTL} \cup 0..LockTTL /\ lastAge \in 0..Delay /\ lapses \in Nat
        /\ faults \in 0..MaxFaults /\ ttlLosses \in 0..MaxTTLLosses
    BY UserMsgQueueAssumption DEF Init
  <2>2. /\ attempt \in [Requests -> 1..MaxAttempts] /\ due \in [Requests -> 0..Delay]
        /\ held \in [Requests -> Ids \cup {NoId}] /\ lock \in Ids \cup {NoId}
    BY UserMsgQueueAssumption DEF Init
  <2>3. /\ pc \in [Requests -> PCs] /\ gone \in [Requests -> BOOLEAN]
        /\ scanned \in BOOLEAN /\ crashed \in BOOLEAN
    BY DEF Init, PCs
  <2> QED
    BY <2>1, <2>2, <2>3 DEF TypeOK
<1>2. HeldIsOwn
  BY DEF Init, HeldIsOwn
<1>3. Ousted = {}
  BY DEF Init, Ousted
<1>4. OustedByLapse
  BY <1>3, FS_EmptySet DEF Init, OustedByLapse
<1> QED
  BY <1>1, <1>2, <1>4 DEF IInv

\* What a step of the release paths leaves to show.
LEMMA ReleasingStep ==
  ASSUME IInv, NEW r \in Requests, Release(r),
         pc' \in [Requests -> PCs], attempt' \in [Requests -> 1..MaxAttempts],
         due' \in [Requests -> 0..Delay],
         UNCHANGED <<gone, scanned, crashed, ttlLosses, lapses>>
  PROVE  IInv'
<1>1. TypeOK'
  BY ReleaseEffect DEF IInv, TypeOK
<1>2. HeldIsOwn' /\ Ousted' \subseteq Ousted
  BY ReleaseEffect
<1>3. OustedByLapse'
  BY <1>2, OustedShrinks
<1> QED
  BY <1>1, <1>2, <1>3 DEF IInv

LEMMA StepIInv == IInv /\ [Next]_vars => IInv'
<1> SUFFICES ASSUME IInv, [Next]_vars PROVE IInv'
  OBVIOUS
<1> USE UserMsgQueueAssumption
<1>1. ASSUME NEW r \in Requests, Acquire(r) PROVE IInv'
  <2>1. MyId(r) \in Ids /\ attempt[r] \in 1..MaxAttempts
    BY DEF MyId, Ids, IInv, TypeOK
  <2>2. TypeOK'
    BY <1>1, <2>1 DEF Acquire, LockBy, Go, IInv, TypeOK, PCs
  <2>3. HeldIsOwn'
    BY <1>1, <2>1 DEF Acquire, MyId, IInv, TypeOK, HeldIsOwn
  <2>4. Ousted' \subseteq Ousted
    BY <1>1 DEF Acquire, LockFree, LockBy, Ousted, IInv, TypeOK
  <2>5. OustedByLapse'
    BY <1>1, <2>4, OustedShrinks DEF Acquire
  <2> QED
    BY <2>2, <2>3, <2>5 DEF IInv
<1>2. ASSUME NEW r \in Requests, AcquireFailsOpen(r) PROVE IInv'
  <2>1. MyId(r) \in Ids
    BY DEF MyId, Ids, IInv, TypeOK
  <2>2. TypeOK'
    BY <1>2, <2>1 DEF AcquireFailsOpen, Fault, LockBy, Go, IInv, TypeOK, PCs
  <2>3. HeldIsOwn'
    BY <1>2 DEF AcquireFailsOpen, IInv, HeldIsOwn
  <2>4. Ousted' \subseteq Ousted
    BY <1>2 DEF AcquireFailsOpen, LockFree, LockBy, Ousted
  <2>5. OustedByLapse'
    BY <1>2, <2>4, OustedShrinks DEF AcquireFailsOpen
  <2> QED
    BY <2>2, <2>3, <2>5 DEF IInv
<1>3. ASSUME NEW r \in Requests,
             \/ GiveUpWaiting(r) \/ ReadDelay(r) \/ DelayOver(r) \/ ForwardPanics(r)
             \/ End(r) \/ ClientLeaves(r)
      PROVE  IInv'
  <2>1. UNCHANGED <<lock, left, lastAge, held, attempt, scanned, crashed, ttlLosses, lapses>>
    BY <1>3 DEF GiveUpWaiting, ReadDelay, DelayOver, ForwardPanics, End, ClientLeaves
  <2>2. /\ pc' \in [Requests -> PCs] /\ due' \in [Requests -> 0..Delay]
        /\ gone' \in [Requests -> BOOLEAN] /\ faults' \in 0..MaxFaults
    <3>1. CASE ReadDelay(r)
      BY <3>1 DEF ReadDelay, Go, Fault, NoFault, IInv, TypeOK, PCs
    <3>2. CASE GiveUpWaiting(r) \/ DelayOver(r) \/ ForwardPanics(r)
      BY <3>2 DEF GiveUpWaiting, DelayOver, ForwardPanics, Go, IInv, TypeOK, PCs
    <3>3. CASE End(r) \/ ClientLeaves(r)
      BY <3>3 DEF End, ClientLeaves, Go, IInv, TypeOK, PCs
    <3> QED
      BY <1>3, <3>1, <3>2, <3>3
  <2>3. TypeOK'
    BY <2>1, <2>2 DEF IInv, TypeOK
  <2>4. HeldIsOwn' /\ OustedByLapse'
    BY <2>1 DEF IInv, HeldIsOwn, OustedByLapse, Ousted
  <2> QED
    BY <2>3, <2>4 DEF IInv
<1>4. ASSUME NEW r \in Requests,
             DelayCanceled(r) \/ Accepted(r) \/ ForwardReturns(r) \/ ReleaseOnDone(r)
      PROVE  IInv'
  <2>1. Release(r) /\ UNCHANGED <<gone, scanned, crashed, ttlLosses, lapses>>
    BY <1>4 DEF DelayCanceled, Accepted, ForwardReturns, ReleaseOnDone
  <2>2. pc' \in [Requests -> PCs] /\ due' \in [Requests -> 0..Delay]
    BY <1>4 DEF DelayCanceled, Accepted, ForwardReturns, ReleaseOnDone, Go, IInv, TypeOK, PCs
  <2>3. attempt' \in [Requests -> 1..MaxAttempts]
    BY <1>4 DEF DelayCanceled, Accepted, ForwardReturns, ReleaseOnDone, IInv, TypeOK
  <2> QED
    BY <2>1, <2>2, <2>3, ReleasingStep
<1>5. CASE Tick
  <2>1. TypeOK'
    <3>1. /\ lock' \in Ids \cup {NoId} /\ left' \in {NoTTL} \cup 0..LockTTL /\ lapses' \in Nat
      BY <1>5 DEF Tick, Lapse, Older, NoTTL, IInv, TypeOK
    <3>2. lastAge' \in 0..Delay
      BY <1>5 DEF Tick, IInv, TypeOK
    <3>3. due' \in [Requests -> 0..Delay]
      BY <1>5 DEF Tick, IInv, TypeOK
    <3> QED
      BY <1>5, <3>1, <3>2, <3>3 DEF Tick, IInv, TypeOK
  <2>2. HeldIsOwn'
    BY <1>5 DEF Tick, IInv, HeldIsOwn
  <2>3. CASE Lapse
    BY <1>5, <2>1, <2>2, <2>3, LapseOusts DEF Tick, IInv
  <2>4. CASE UNCHANGED <<lock, lapses>>
    <3>1. OustedByLapse'
      BY <1>5, <2>4 DEF Tick, IInv, OustedByLapse, Ousted
    <3> QED
      BY <2>1, <2>2, <3>1 DEF IInv
  <2> QED
    BY <1>5, <2>3, <2>4 DEF Tick, Older
<1>6. CASE TTLLost \/ Scan
  <2>1. TypeOK'
    <3>1. left' \in {NoTTL} \cup 0..LockTTL /\ ttlLosses' \in 0..MaxTTLLosses
      BY <1>6 DEF TTLLost, Scan, IInv, TypeOK
    <3>2. scanned' \in BOOLEAN
      BY <1>6 DEF TTLLost, Scan, IInv, TypeOK
    <3>3. UNCHANGED <<lock, lastAge, pc, held, attempt, due, gone, crashed, faults, lapses>>
      BY <1>6 DEF TTLLost, Scan
    <3> QED
      BY <3>1, <3>2, <3>3 DEF IInv, TypeOK
  <2>2. HeldIsOwn' /\ OustedByLapse'
    BY <1>6 DEF TTLLost, Scan, IInv, HeldIsOwn, OustedByLapse, Ousted
  <2> QED
    BY <2>1, <2>2 DEF IInv
<1>7. CASE ForceRelease
  <2>1. TypeOK'
    <3>1. /\ lock' \in Ids \cup {NoId} /\ left' \in {NoTTL} \cup 0..LockTTL /\ lapses' \in Nat
      BY <1>7 DEF ForceRelease, Lapse, IInv, TypeOK
    <3>2. scanned' \in BOOLEAN
      BY <1>7 DEF ForceRelease
    <3>3. UNCHANGED <<lastAge, pc, held, attempt, due, gone, crashed, faults, ttlLosses>>
      BY <1>7 DEF ForceRelease
    <3> QED
      BY <3>1, <3>2, <3>3 DEF IInv, TypeOK
  <2>2. HeldIsOwn'
    BY <1>7 DEF ForceRelease, IInv, HeldIsOwn
  <2>3. CASE Lapse
    BY <1>7, <2>1, <2>2, <2>3, LapseOusts DEF ForceRelease, IInv
  <2>4. CASE UNCHANGED <<lock, lapses>>
    <3>1. OustedByLapse'
      BY <1>7, <2>4 DEF ForceRelease, IInv, OustedByLapse, Ousted
    <3> QED
      BY <2>1, <2>2, <3>1 DEF IInv
  <2> QED
    BY <1>7, <2>3, <2>4 DEF ForceRelease
<1>8. CASE Crash
  <2>1. TypeOK'
    <3>1. /\ pc' \in [Requests -> PCs] /\ held' \in [Requests -> Ids \cup {NoId}]
          /\ due' \in [Requests -> 0..Delay]
      BY <1>8 DEF Crash, IInv, TypeOK, PCs
    <3>2. scanned' \in BOOLEAN /\ crashed' \in BOOLEAN
      BY <1>8 DEF Crash, IInv, TypeOK
    <3>3. UNCHANGED <<lock, left, lastAge, attempt, gone, faults, ttlLosses, lapses>>
      BY <1>8 DEF Crash
    <3> QED
      BY <3>1, <3>2, <3>3 DEF IInv, TypeOK
  <2>2. HeldIsOwn' /\ Ousted' \subseteq Ousted
    <3>1. lock' = lock /\ \A r \in Requests : held'[r] = NoId \/ held'[r] = held[r]
      BY <1>8 DEF Crash
    <3>2. HeldIsOwn'
      BY <1>8, <3>1 DEF HeldIsOwn, IInv
    <3> QED
      BY <3>1, <3>2 DEF Ousted
  <2>3. OustedByLapse'
    BY <1>8, <2>2, OustedShrinks DEF Crash
  <2> QED
    BY <2>1, <2>2, <2>3 DEF IInv
<1>9. CASE UNCHANGED vars
  BY <1>9 DEF vars, IInv, TypeOK, HeldIsOwn, OustedByLapse, Ousted
<1> QED
  BY <1>1, <1>2, <1>3, <1>4, <1>5, <1>6, <1>7, <1>8, <1>9 DEF Next, Handler

\* The inductive invariant: types, requests carry ids of their own, and whoever
\* carries an id that is not the lock's has lost the lock by a lapse
\* (releaseLockScript, forceReleaseLockScript and the key's TTL).
THEOREM QueueInvariant == Spec => []IInv
  BY InitIInv, StepIInv, PTL DEF Spec

\* The types, for any requests and limits of UserMsgQueueService.
THEOREM TypeCorrect == Spec => []TypeOK
  BY QueueInvariant, PTL DEF IInv

-------------------------------------------------------------------------------

LEMMA AtMostOneOwner ==
  ASSUME IInv
  PROVE  Serialized
<1> DEFINE Holders == {r \in Requests : held[r] # NoId}
<1>1. Ousted \in SUBSET Requests /\ lapses \in Nat /\ Cardinality(Ousted) <= lapses
  BY DEF Ousted, IInv, TypeOK, OustedByLapse
<1>2. \E r : Holders \in SUBSET (Ousted \cup {r})
  <2>1. CASE \E r \in Holders : held[r] = lock
    BY <2>1, OwnersDistinct DEF Ousted, IInv
  <2>2. CASE ~ \E r \in Holders : held[r] = lock
    BY <2>2 DEF Ousted
  <2> QED
    BY <2>1, <2>2
<1>3. PICK r : Holders \in SUBSET (Ousted \cup {r})
  BY <1>2
<1>4. Cardinality(Holders) <= lapses + 1
  BY <1>1, <1>3, OneMore
<1>5. Cardinality(Holders) \in Nat
  BY UserMsgQueueAssumption, FS_Subset, FS_CardinalityType
<1> QED
  BY <1>1, <1>4, <1>5 DEF Serialized

\* More than one request is on its way under a lock only as often as a lock has
\* lapsed: acquireLockScript gives a lock to nobody while it has an owner.
THEOREM SerialButForLapses == Spec => []Serialized
  BY QueueInvariant, AtMostOneOwner, PTL

\* Every step keeps the lock of a request that goes on holding it, but for a
\* lapse: late releases compare the id, and the cleanup looks again.
LEMMA StepKeepsLock ==
  ASSUME IInv, [Next]_vars
  PROVE  TakenOnlyByLapse
<1> SUFFICES ASSUME NEW r \in Requests,
                    held[r] # NoId, held[r] = lock, held'[r] = held[r], lock' # lock
             PROVE  left \in {1, NoTTL} /\ lapses' = lapses + 1
  BY DEF TakenOnlyByLapse
<1>1. ASSUME NEW s \in Requests, Release(s) PROVE FALSE
  <2>1. held[s] # NoId /\ held[s] = lock
    BY <1>1, ReleaseEffect
  <2>2. s = r
    BY <2>1, OwnersDistinct DEF IInv
  <2> QED
    BY <1>1, <2>2 DEF Release, IInv, TypeOK
<1>2. ASSUME NEW s \in Requests, Acquire(s) \/ AcquireFailsOpen(s) PROVE FALSE
  BY <1>2 DEF Acquire, AcquireFailsOpen, LockFree
<1>3. ASSUME NEW s \in Requests,
             DelayCanceled(s) \/ Accepted(s) \/ ForwardReturns(s) \/ ReleaseOnDone(s)
      PROVE  FALSE
  BY <1>1, <1>3 DEF DelayCanceled, Accepted, ForwardReturns, ReleaseOnDone
<1>4. ASSUME NEW s \in Requests,
             \/ GiveUpWaiting(s) \/ ReadDelay(s) \/ DelayOver(s) \/ ForwardPanics(s)
             \/ End(s) \/ ClientLeaves(s)
      PROVE  FALSE
  BY <1>4 DEF GiveUpWaiting, ReadDelay, DelayOver, ForwardPanics, End, ClientLeaves
<1>5. CASE Tick
  BY <1>5 DEF Tick, Lapse, Older
<1>6. CASE ForceRelease
  BY <1>6 DEF ForceRelease, Lapse
<1>7. CASE TTLLost \/ Scan \/ Crash \/ UNCHANGED vars
  BY <1>7 DEF TTLLost, Scan, Crash, vars
<1> QED
  BY <1>2, <1>3, <1>4, <1>5, <1>6, <1>7 DEF Next, Handler

\* Nobody takes the lock away from a request that holds it.
THEOREM LockNotStolen == Spec => LockKept
<1>1. IInv /\ [Next]_vars => [TakenOnlyByLapse]_vars
  BY StepKeepsLock
<1> QED
  BY <1>1, QueueInvariant, PTL DEF Spec, LockKept

-------------------------------------------------------------------------------
(***************************************************************************)
(* The delay, and orphans.                                                 *)
(***************************************************************************)
\* A request that waits carries no id; and while the owner of the lock pauses, what
\* is left of its pause makes up for what is missing of the delay.
WaitsEmpty == \A r \in Requests : pc[r] = "wait" => held[r] = NoId

PauseCovers ==
    faults = 0 =>
      \A r \in Requests :
        pc[r] = "pausing" /\ held[r] # NoId /\ held[r] = lock => lastAge + due[r] >= Delay

Spaced == WaitsEmpty /\ PauseCovers /\ SpacedForwards

\* A release that does not fail leaves the lock and the completion time alone, or is
\* the owner's.
LEMMA ReleaseWithoutFault ==
  ASSUME IInv, NEW r \in Requests, Release(r), faults' = 0
  PROVE  /\ faults = 0 /\ held' = [held EXCEPT ![r] = NoId]
         /\ \/ lock' = lock /\ lastAge' = lastAge /\ (held[r] = NoId \/ held[r] # lock)
            \/ lock' = NoId /\ held[r] = lock
BY UserMsgQueueAssumption DEF Release, ReleaseScript, Fault, NoFault, IInv, TypeOK

LEMMA ReleasingIsSpaced ==
  ASSUME IInv, Spaced, NEW r \in Requests,
         DelayCanceled(r) \/ Accepted(r) \/ ForwardReturns(r) \/ ReleaseOnDone(r)
  PROVE  Spaced'
<1> USE DEF IInv, TypeOK
<1>1. /\ Release(r) /\ held'[r] = NoId
      /\ \A s \in Requests \ {r} : held'[s] = held[s] /\ pc'[s] = pc[s] /\ due'[s] = due[s]
  BY DEF DelayCanceled, Accepted, ForwardReturns, ReleaseOnDone, Release, Go
<1>2. WaitsEmpty'
  BY <1>1 DEF Spaced, WaitsEmpty
<1>3. ASSUME faults' = 0, NEW s \in Requests, held'[s] # NoId, held'[s] = lock'
      PROVE  s # r /\ faults = 0 /\ lock' = lock /\ lastAge' = lastAge
  BY <1>1, <1>3, ReleaseWithoutFault
<1>4. PauseCovers' /\ SpacedForwards'
  BY <1>1, <1>3 DEF Spaced, PauseCovers, SpacedForwards
<1> QED
  BY <1>2, <1>4 DEF Spaced

LEMMA StepIsSpaced ==
  ASSUME IInv, Spaced, [Next]_vars
  PROVE  Spaced'
<1> USE UserMsgQueueAssumption DEF IInv, TypeOK, Spaced, WaitsEmpty, PauseCovers, SpacedForwards
<1>1. ASSUME NEW r \in Requests, Acquire(r) PROVE Spaced'
  <2>1. \A s \in Requests \ {r} : held[s] # MyId(r)
    BY DEF HeldIsOwn, MyId, Ids
  <2> QED
    BY <1>1, <2>1 DEF Acquire, Go, LockBy
<1>2. ASSUME NEW r \in Requests, AcquireFailsOpen(r) PROVE Spaced'
  BY <1>2 DEF AcquireFailsOpen, Go, Fault
<1>3. ASSUME NEW r \in Requests, GiveUpWaiting(r) \/ DelayOver(r) PROVE Spaced'
  BY <1>3 DEF GiveUpWaiting, DelayOver, Go
<1>4. ASSUME NEW r \in Requests, ReadDelay(r) PROVE Spaced'
  BY <1>4 DEF ReadDelay, Go, Fault, NoFault
<1>5. ASSUME NEW r \in Requests, ForwardPanics(r) \/ End(r) \/ ClientLeaves(r) PROVE Spaced'
  BY <1>5 DEF ForwardPanics, End, ClientLeaves, Go
<1>6. ASSUME NEW r \in Requests,
             DelayCanceled(r) \/ Accepted(r) \/ ForwardReturns(r) \/ ReleaseOnDone(r)
      PROVE  Spaced'
  BY <1>6, ReleasingIsSpaced
<1>7. CASE Tick
  <2>1. UNCHANGED <<pc, held, faults>> /\ (lock' = lock \/ lock' = NoId)
    BY <1>7 DEF Tick, Lapse, Older
  <2>2. \A r \in Requests : due'[r] = IF due[r] > 0 THEN due[r] - 1 ELSE 0
    BY <1>7 DEF Tick
  <2>3. lastAge' = IF lastAge < Delay THEN lastAge + 1 ELSE Delay
    BY <1>7 DEF Tick
  <2> QED
    BY <2>1, <2>2, <2>3
<1>8. CASE TTLLost \/ Scan \/ ForceRelease
  BY <1>8 DEF TTLLost, Scan, ForceRelease, Lapse
<1>9. CASE Crash
  <2>1. UNCHANGED <<lock, lastAge, faults>>
    BY <1>9 DEF Crash
  <2>2. \A r \in Requests :
          held'[r] = NoId \/ (held'[r] = held[r] /\ pc'[r] = pc[r] /\ due'[r] = due[r])
    BY <1>9 DEF Crash
  <2>3. \A r \in Requests : pc'[r] = "wait" => pc[r] = "wait" /\ held'[r] \in {NoId, held[r]}
    BY <1>9 DEF Crash
  <2> QED
    BY <2>1, <2>2, <2>3
<1>10. CASE UNCHANGED vars
  BY <1>10 DEF vars
<1> QED
  BY <1>1, <1>2, <1>3, <1>4, <1>5, <1>6, <1>7, <1>8, <1>9, <1>10 DEF Next, Handler

\* A message is sent under the lock only when the delay since the last recorded
\* completion is over: for any delay, TTL and number of requests.
THEOREM DelayIsKept == Spec => []SpacedForwards
<1>1. Init => Spaced
  BY DEF Init, Spaced, WaitsEmpty, PauseCovers, SpacedForwards
<1>2. IInv /\ Spaced /\ [Next]_vars => Spaced'
  BY StepIsSpaced
<1>3. Spaced => SpacedForwards
  BY DEF Spaced
<1> QED
  BY <1>1, <1>2, <1>3, QueueInvariant, PTL DEF Spec

LEMMA StepKeepsNoOrphan ==
  ASSUME IInv, NoOrphan, [Next]_vars
  PROVE  NoOrphan'
<1> USE UserMsgQueueAssumption DEF IInv, TypeOK, NoOrphan
<1>1. ASSUME NEW r \in Requests, Acquire(r) PROVE NoOrphan'
  BY <1>1 DEF Acquire, LockBy
<1>2. ASSUME NEW r \in Requests, AcquireFailsOpen(r) PROVE NoOrphan'
  BY <1>2 DEF AcquireFailsOpen, Fault
<1>3. ASSUME NEW r \in Requests,
             \/ GiveUpWaiting(r) \/ ReadDelay(r) \/ DelayOver(r) \/ ForwardPanics(r)
             \/ End(r) \/ ClientLeaves(r)
      PROVE  NoOrphan'
  BY <1>3 DEF GiveUpWaiting, ReadDelay, DelayOver, ForwardPanics, End, ClientLeaves, Fault, NoFault
<1>4. ASSUME NEW r \in Requests,
             DelayCanceled(r) \/ Accepted(r) \/ ForwardReturns(r) \/ ReleaseOnDone(r)
      PROVE  NoOrphan'
  <2>1. Release(r) /\ crashed' = crashed
    BY <1>4 DEF DelayCanceled, Accepted, ForwardReturns, ReleaseOnDone
  <2> SUFFICES ASSUME faults' = 0, ~crashed', lock' # NoId
               PROVE  \E s \in Requests : held'[s] = lock'
    OBVIOUS
  <2>2. faults = 0 /\ lock' = lock /\ held' = [held EXCEPT ![r] = NoId]
        /\ (held[r] = NoId \/ held[r] # lock)
    BY <2>1, ReleaseWithoutFault
  <2>3. PICK s \in Requests : held[s] = lock
    BY <2>1, <2>2
  <2> QED
    BY <2>2, <2>3
<1>5. CASE Tick \/ TTLLost \/ Scan \/ ForceRelease \/ UNCHANGED vars
  BY <1>5 DEF Tick, TTLLost, Scan, ForceRelease, Lapse, Older, vars
<1>6. CASE Crash
  BY <1>6 DEF Crash
<1> QED
  BY <1>1, <1>2, <1>3, <1>4, <1>5, <1>6 DEF Next, Handler

\* While no call has failed and no process has died, every lock has a request that
\* will release it: no exit path forgets it.
THEOREM NoLockForgotten == Spec => []NoOrphan
<1>1. Init => NoOrphan
  BY DEF Init, NoOrphan
<1>2. IInv /\ NoOrphan /\ [Next]_vars => NoOrphan'
  BY StepKeepsNoOrphan
<1> QED
  BY <1>1, <1>2, QueueInvariant, PTL DEF Spec
===============================================================================
