----------------------------- MODULE UserMsgQueue -----------------------------
(***************************************************************************)
(* The serial queue for user messages of one account, in mode "serialize": *)
(* the lock scripts of repository/user_msg_queue_cache.go, the service     *)
(* around them, AcquireWithWait of the handler's helper, and the release   *)
(* paths of GatewayHandler.Messages.  Accounts share nothing, so one is    *)
(* modelled; a failover to another account ends the request here.          *)
(*                                                                         *)
(* The queue is advisory: a request that cannot have the lock in time goes *)
(* on without it.  Each lock attempt has an id of its own.                 *)
(***************************************************************************)
EXTENDS Integers, FiniteSets

CONSTANTS
    Requests,
    LockTTL,      \* lock_ttl_ms, in ticks
    Delay,        \* the RPM-aware delay after the last completion, in ticks
    MaxAttempts,  \* Forward attempts of one request on this account
    MaxFaults,    \* redis calls that fail
    MaxTTLLosses, \* how often redis forgets the TTL of the lock
    KeyTTLRuns,   \* FALSE for the embedded redis, whose key TTLs stand still
    NoId

ASSUME UserMsgQueueAssumption ==
    /\ IsFiniteSet(Requests)
    /\ LockTTL \in Nat \ {0}
    /\ Delay \in Nat
    /\ MaxAttempts \in Nat \ {0}
    /\ MaxFaults \in Nat /\ MaxTTLLosses \in Nat
    /\ KeyTTLRuns \in BOOLEAN
    /\ NoId \notin Requests \X (1..MaxAttempts)

VARIABLES
    lock,      \* umq:{account}:lock, the id of its owner
    left,      \* what is left of its TTL
    lastAge,   \* time since umq:{account}:last, Delay when long ago or never
    pc, held,  \* the request's place and the id its release function carries
    attempt,   \* the number of its current attempt
    due,       \* what is left of the delay it enforces
    gone,      \* its context is done
    scanned,   \* the cleanup worker is about to force the release
    crashed,   \* a process has died
    faults, ttlLosses, lapses

vars == <<lock, left, lastAge, pc, held, attempt, due, gone, scanned, crashed,
          faults, ttlLosses, lapses>>

Ids == Requests \X (1..MaxAttempts)

NoTTL == -1

PCs == {"wait", "delay", "pausing", "forward", "accepted", "ending", "done"}

TypeOK ==
    /\ lock \in Ids \cup {NoId}
    /\ left \in {NoTTL} \cup 0..LockTTL
    /\ lastAge \in 0..Delay
    /\ pc \in [Requests -> PCs]
    /\ held \in [Requests -> Ids \cup {NoId}]
    /\ attempt \in [Requests -> 1..MaxAttempts]
    /\ due \in [Requests -> 0..Delay]
    /\ gone \in [Requests -> BOOLEAN]
    /\ scanned \in BOOLEAN
    /\ crashed \in BOOLEAN
    /\ faults \in 0..MaxFaults
    /\ ttlLosses \in 0..MaxTTLLosses
    /\ lapses \in Nat

Init ==
    /\ lock = NoId /\ left = 0 /\ lastAge = Delay
    /\ pc = [r \in Requests |-> "wait"]
    /\ held = [r \in Requests |-> NoId]
    /\ attempt = [r \in Requests |-> 1]
    /\ due = [r \in Requests |-> 0]
    /\ gone = [r \in Requests |-> FALSE]
    /\ scanned = FALSE /\ crashed = FALSE
    /\ faults = 0 /\ ttlLosses = 0 /\ lapses = 0

-------------------------------------------------------------------------------

Fault == faults < MaxFaults /\ faults' = faults + 1

NoFault == UNCHANGED faults

Go(r, next) == pc' = [pc EXCEPT ![r] = next]

MyId(r) == <<r, attempt[r]>>

\* Mutant: SET without asking who has the lock.
LockFree_Any == TRUE

\* acquireLockScript: SET ... PX when there is no lock.  (An id is its own
\* owner only when the client repeats a call whose reply it lost.)
LockFree == lock = NoId

LockBy(id) == lock' = id /\ left' = LockTTL

\* Mutant: DEL whoever owns the lock.
ReleaseScript_AnyOwner(id) ==
    /\ lock' = NoId /\ left' = 0 /\ lastAge' = 0

\* Mutant: the completion time is written also when the id owns no lock.
ReleaseScript_AlwaysRecords(id) ==
    /\ IF lock = id THEN lock' = NoId /\ left' = 0 ELSE UNCHANGED <<lock, left>>
    /\ lastAge' = 0

\* releaseLockScript: only the owner releases, and records the time.
ReleaseScript(id) ==
    IF lock = id
    THEN lock' = NoId /\ left' = 0 /\ lastAge' = 0
    ELSE UNCHANGED <<lock, left, lastAge>>

\* The release function, behind sync.Once: at most one call to redis.
Release(r) ==
    /\ held' = [held EXCEPT ![r] = NoId]
    /\ IF held[r] = NoId
       THEN UNCHANGED <<lock, left, lastAge>> /\ NoFault
       ELSE \/ ReleaseScript(held[r]) /\ NoFault
            \/ UNCHANGED <<lock, left, lastAge>> /\ Fault

-------------------------------------------------------------------------------
(* The handler of one request.                                             *)

\* TryAcquire succeeds, at once or after a backoff.
Acquire(r) ==
    /\ pc[r] = "wait"
    /\ LockFree
    /\ LockBy(MyId(r))
    /\ held' = [held EXCEPT ![r] = MyId(r)]
    /\ Go(r, "delay")
    /\ UNCHANGED <<lastAge, attempt, due, gone, scanned, crashed, faults,
                   ttlLosses, lapses>>

\* AcquireLock returns an error: "acquired", but without an id to release.
\* Redis may have set the lock before the reply was lost or the wait's context
\* ended.
AcquireFailsOpen(r) ==
    /\ pc[r] = "wait"
    /\ Fault
    /\ \/ UNCHANGED <<lock, left>>
       \/ LockFree /\ LockBy(MyId(r))
    /\ Go(r, "delay")
    /\ UNCHANGED <<lastAge, held, attempt, due, gone, scanned, crashed, ttlLosses,
                   lapses>>

\* The wait times out, the client leaves, or a ping cannot be written: the
\* handler logs it and forwards without the lock.
GiveUpWaiting(r) ==
    /\ pc[r] = "wait"
    /\ Go(r, "forward")
    /\ UNCHANGED <<lock, left, lastAge, held, attempt, due, gone, scanned, crashed,
                   faults, ttlLosses, lapses>>

\* EnforceDelay: read the completion time and the clock, or fail open.
ReadDelay(r) ==
    /\ pc[r] = "delay"
    /\ \/ due' = [due EXCEPT ![r] = Delay - lastAge] /\ NoFault
       \/ due' = [due EXCEPT ![r] = 0] /\ Fault
    /\ Go(r, "pausing")
    /\ UNCHANGED <<lock, left, lastAge, held, attempt, gone, scanned, crashed,
                   ttlLosses, lapses>>

\* Mutant: a timer that is not stopped.
DelayOver_KeepsCounting(r) ==
    /\ pc[r] = "pausing"
    /\ Go(r, "forward")
    /\ due' = [due EXCEPT ![r] = @ - 1]
    /\ UNCHANGED <<lock, left, lastAge, held, attempt, gone, scanned, crashed, faults,
                   ttlLosses, lapses>>

DelayOver(r) ==
    /\ pc[r] = "pausing" /\ due[r] = 0
    /\ Go(r, "forward")
    /\ UNCHANGED <<lock, left, lastAge, held, attempt, due, gone, scanned, crashed,
                   faults, ttlLosses, lapses>>

\* Mutant: the lock is forgotten.
DelayCanceled_KeepsLock(r) ==
    /\ pc[r] = "pausing" /\ due[r] > 0
    /\ held' = [held EXCEPT ![r] = NoId]
    /\ due' = [due EXCEPT ![r] = 0]
    /\ Go(r, "forward")
    /\ UNCHANGED <<lock, left, lastAge, attempt, gone, scanned, crashed, faults,
                   ttlLosses, lapses>>

\* The wait's context ends during the delay: give the lock back, and forward.
DelayCanceled(r) ==
    /\ pc[r] = "pausing" /\ due[r] > 0
    /\ Release(r)
    /\ due' = [due EXCEPT ![r] = 0]
    /\ Go(r, "forward")
    /\ UNCHANGED <<attempt, gone, scanned, crashed, ttlLosses, lapses>>

\* OnUpstreamAccepted: the upstream has taken the message.
Accepted(r) ==
    /\ pc[r] = "forward"
    /\ Release(r)
    /\ Go(r, "accepted")
    /\ UNCHANGED <<attempt, due, gone, scanned, crashed, ttlLosses, lapses>>

\* Forward returns; the lock is released if it still is to be.  The request is
\* over, or fails over and queues again with a new id.
ForwardReturns(r) ==
    /\ pc[r] \in {"forward", "accepted"}
    /\ Release(r)
    /\ \/ Go(r, "ending") /\ UNCHANGED attempt
       \/ /\ attempt[r] < MaxAttempts
          /\ attempt' = [attempt EXCEPT ![r] = @ + 1]
          /\ Go(r, "wait")
    /\ UNCHANGED <<due, gone, scanned, crashed, ttlLosses, lapses>>

ForwardPanics(r) ==
    /\ pc[r] \in {"forward", "accepted"}
    /\ Go(r, "ending")
    /\ UNCHANGED <<lock, left, lastAge, held, attempt, due, gone, scanned, crashed,
                   faults, ttlLosses, lapses>>

\* The server ends the request's context.
End(r) ==
    /\ pc[r] = "ending"
    /\ Go(r, "done")
    /\ gone' = [gone EXCEPT ![r] = TRUE]
    /\ UNCHANGED <<lock, left, lastAge, held, attempt, due, scanned, crashed,
                   faults, ttlLosses, lapses>>

ClientLeaves(r) ==
    /\ pc[r] \notin {"done"} /\ ~gone[r]
    /\ gone' = [gone EXCEPT ![r] = TRUE]
    /\ UNCHANGED <<lock, left, lastAge, pc, held, attempt, due, scanned, crashed,
                   faults, ttlLosses, lapses>>

\* Mutant: no callback on the request's context.
Registered_Never(r) == FALSE

\* wrapReleaseOnDone.
Registered(r) == pc[r] \in {"forward", "accepted", "ending", "done"}

ReleaseOnDone(r) ==
    /\ gone[r] /\ Registered(r) /\ held[r] # NoId
    /\ Release(r)
    /\ UNCHANGED <<pc, attempt, due, gone, scanned, crashed, ttlLosses, lapses>>

-------------------------------------------------------------------------------
(* Redis and the cleanup worker.                                           *)

Older == left' = left - 1 /\ UNCHANGED <<lock, lapses>>

Lapse == lock' = NoId /\ left' = 0 /\ lapses' = lapses + 1

Tick ==
    /\ lastAge' = IF lastAge < Delay THEN lastAge + 1 ELSE Delay
    /\ due' = [r \in Requests |-> IF due[r] > 0 THEN due[r] - 1 ELSE 0]
    /\ IF lock = NoId \/ left = NoTTL \/ ~KeyTTLRuns
       THEN UNCHANGED <<lock, left, lapses>>
       ELSE IF left = 1 THEN Lapse ELSE Older
    /\ UNCHANGED <<pc, held, attempt, gone, scanned, crashed, faults, ttlLosses>>

\* "A lock without a TTL": redis came back from a failure without it.
TTLLost ==
    /\ ttlLosses < MaxTTLLosses
    /\ lock # NoId
    /\ left' = NoTTL
    /\ ttlLosses' = ttlLosses + 1
    /\ UNCHANGED <<lock, lastAge, pc, held, attempt, due, gone, scanned, crashed,
                   faults, lapses>>

\* Mutant: a PTTL of -1 is taken for a missing key.
Scan_Never == scanned /\ UNCHANGED vars

\* ScanLockKeys finds a lock whose PTTL is -1 ...
Scan ==
    /\ ~scanned
    /\ lock # NoId /\ left = NoTTL
    /\ scanned' = TRUE
    /\ UNCHANGED <<lock, left, lastAge, pc, held, attempt, due, gone, crashed,
                   faults, ttlLosses, lapses>>

\* Mutant: what the scan saw is taken to be still so.
ForceRelease_NoRecheck ==
    /\ scanned
    /\ scanned' = FALSE
    /\ IF lock # NoId
       THEN Lapse
       ELSE UNCHANGED <<lock, left, lapses>>
    /\ UNCHANGED <<lastAge, pc, held, attempt, due, gone, crashed, faults,
                   ttlLosses>>

\* ... and ForceReleaseLock, a call later, looks again before it deletes.
ForceRelease ==
    /\ scanned
    /\ scanned' = FALSE
    /\ IF lock # NoId /\ left = NoTTL
       THEN Lapse
       ELSE UNCHANGED <<lock, left, lapses>>
    /\ UNCHANGED <<lastAge, pc, held, attempt, due, gone, crashed, faults,
                   ttlLosses>>

\* A process dies with the requests it serves; those of other processes go on, and
\* those still to come are served by the next one, on the same redis.
Crash ==
    /\ ~crashed
    /\ crashed' = TRUE
    /\ \E served \in SUBSET Requests :
         /\ pc' = [r \in Requests |-> IF r \in served /\ pc[r] # "wait" THEN "done" ELSE pc[r]]
         /\ held' = [r \in Requests |-> IF r \in served THEN NoId ELSE held[r]]
         /\ due' = [r \in Requests |-> IF r \in served THEN 0 ELSE due[r]]
    /\ scanned' \in {FALSE, scanned}
    /\ UNCHANGED <<lock, left, lastAge, attempt, gone, faults, ttlLosses, lapses>>

Handler(r) ==
    \/ Acquire(r) \/ AcquireFailsOpen(r) \/ GiveUpWaiting(r)
    \/ ReadDelay(r) \/ DelayOver(r) \/ DelayCanceled(r)
    \/ Accepted(r) \/ ForwardReturns(r) \/ ForwardPanics(r) \/ End(r)

Next ==
    \/ \E r \in Requests : Handler(r) \/ ClientLeaves(r) \/ ReleaseOnDone(r)
    \/ Tick \/ TTLLost \/ Scan \/ ForceRelease \/ Crash

Spec == Init /\ [][Next]_vars

\* The wait has a timeout, Forward returns, callbacks run, time passes, and the
\* cleanup worker ticks.
Fairness ==
    /\ \A r \in Requests : WF_vars(Handler(r)) /\ WF_vars(ReleaseOnDone(r))
    /\ WF_vars(Tick) /\ WF_vars(Scan) /\ WF_vars(ForceRelease)

FairSpec == Spec /\ Fairness

-------------------------------------------------------------------------------
(* What the queue promises.                                                *)

\* Nobody takes the lock away from a request that holds it, neither another
\* request's late release nor the cleanup worker: it goes only when its TTL
\* runs out or was lost.
TakenOnlyByLapse ==
    \A r \in Requests :
      held[r] # NoId /\ held[r] = lock /\ held'[r] = held[r] /\ lock' # lock
        => left \in {1, NoTTL} /\ lapses' = lapses + 1

LockKept == [][TakenOnlyByLapse]_vars

\* Two requests are on their way to the upstream, both with a lock, only when
\* the lock of one has lapsed.
Serialized ==
    Cardinality({r \in Requests : held[r] # NoId}) <= 1 + lapses

\* A message is sent under the lock only when the delay since the last recorded
\* completion is over, whoever else has tried to release meanwhile.
SpacedForwards ==
    faults = 0 =>
      \A r \in Requests :
        pc[r] = "forward" /\ held[r] # NoId /\ held[r] = lock => lastAge = Delay

\* A lock that no request will release is the mark of a failed redis call or of
\* a crash: no exit path (timeout in the delay, disconnect, panic, failover)
\* forgets it.
NoOrphan ==
    faults = 0 /\ ~crashed /\ lock # NoId => \E r \in Requests : held[r] = lock

\* Every request ends and holds no lock.
EveryRequestEnds ==
    \A r \in Requests : <>(pc[r] = "done" /\ held[r] = NoId)

\* A lock nobody will release does not stay: its TTL, or the cleanup worker when
\* the TTL is lost, removes it.
Orphaned == lock # NoId /\ \A r \in Requests : held[r] # lock

OrphanGoes == Orphaned ~> ~Orphaned
===============================================================================
