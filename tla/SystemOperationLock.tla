------------------------- MODULE SystemOperationLock -------------------------
(***************************************************************************)
(* SystemOperationLockService: the one lock of update, rollback and        *)
(* restart, kept as an idempotency record with a renewed lease.            *)
(*                                                                         *)
(* Clocks as in IdempotencyRecords.  An operation's age counts from the    *)
(* time.Now() of Acquire.                                                  *)
(***************************************************************************)
EXTENDS IdempotencyRecords, FiniteSets

CONSTANTS
    Operations,   \* calls of Acquire
    OperationIds,
    OpId,         \* [Operations -> OperationIds]; a repeated call has the same
    TTL, Lease, RenewInterval,
    MaxClaim,     \* ticks Acquire takes
    MaxFaults, MaxCrashes

Statuses == {"processing", "succeeded", "failed_retryable"}

Deadlines == Past..(IF TTL > Lease THEN TTL ELSE Lease)

Records ==
    [id : Operations, fp : OperationIds, status : Statuses, lock : Deadlines,
     expires : Deadlines, body : Operations]

ASSUME LockAssumption ==
    /\ IsFiniteSet(Operations)
    /\ NoRecord \notin Records
    /\ OpId \in [Operations -> OperationIds]
    /\ TTL \in Nat /\ Lease \in Nat /\ RenewInterval \in Nat \ {0} /\ MaxClaim \in Nat
    /\ MaxFaults \in Nat /\ MaxCrashes \in Nat

VARIABLES
    rec,       \* the lock's record; its id is the operation that inserted it
    pc,
    age,
    recordID,  \* lock.recordID, or that of the existing record
    from,      \* existing.Status
    renewing,  \* renewLoop runs
    ticks,     \* since renewLoop's last tick
    idle,      \* history: ticks since an operation ran or Acquire wrote the record
    faults, crashes

vars == <<rec, pc, age, recordID, from, renewing, ticks, idle, faults, crashes>>

PCs == {"idle", "create", "get", "reclaim", "run", "release", "done"}

TypeOK ==
    /\ rec \in Records \cup {NoRecord}
    /\ pc \in [Operations -> PCs]
    /\ age \in [Operations -> 0..MaxAge]
    /\ recordID \in [Operations -> Operations]
    /\ from \in [Operations -> Statuses]
    /\ renewing \in [Operations -> BOOLEAN]
    /\ ticks \in [Operations -> 0..RenewInterval]
    /\ idle \in 0..Lease
    /\ faults \in 0..MaxFaults
    /\ crashes \in 0..MaxCrashes

Init ==
    /\ rec = NoRecord
    /\ pc = [op \in Operations |-> "idle"]
    /\ age = [op \in Operations |-> 0]
    /\ recordID = [op \in Operations |-> op]
    /\ from = [op \in Operations |-> "processing"]
    /\ renewing = [op \in Operations |-> FALSE]
    /\ ticks = [op \in Operations |-> 0]
    /\ idle = 0
    /\ faults = 0 /\ crashes = 0

-------------------------------------------------------------------------------

Go(op, next) == pc' = [pc EXCEPT ![op] = next]

Fault == faults < MaxFaults /\ faults' = faults + 1

Start(op) ==
    /\ pc[op] = "idle"
    /\ Go(op, "create")
    /\ UNCHANGED <<rec, age, recordID, from, renewing, ticks, idle, faults, crashes>>

\* Acquire has the lock: its renewLoop is started.
Acquired(op) ==
    /\ Go(op, "run")
    /\ renewing' = [renewing EXCEPT ![op] = TRUE]
    /\ ticks' = [ticks EXCEPT ![op] = 0]

\* Acquire returns an error: busy, or the store is unavailable.
Refused(op) == Go(op, "done") /\ UNCHANGED <<renewing, ticks>>

\* A failed statement may have been executed all the same.
Unavailable(op, effect) == Fault /\ (rec' = rec \/ rec' = effect) /\ Refused(op)

\* Mutant: the record expires a TTL after its lease.
NewRecord_TTLAfterLease(op) == Created(op, OpId[op], Lease - age[op], Lease + TTL - age[op])

NewRecord(op) == Created(op, OpId[op], Lease - age[op], TTL - age[op])

CreateProcessing(op) ==
    /\ pc[op] = "create"
    /\ \/ rec = NoRecord /\ rec' = NewRecord(op) /\ Acquired(op) /\ UNCHANGED faults
       \/ rec # NoRecord /\ Go(op, "get") /\ UNCHANGED <<rec, renewing, ticks, faults>>
       \/ Unavailable(op, IF rec = NoRecord THEN NewRecord(op) ELSE rec)
    /\ idle' = 0
    /\ UNCHANGED <<age, recordID, from, crashes>>

\* Mutant: any record in processing is busy.
Busy_Processing(now) == rec.status = "processing"

Busy(now) == rec.status = "processing" /\ rec.lock > now

GetExisting(op) ==
    /\ pc[op] = "get"
    /\ \/ /\ rec # NoRecord /\ ~Busy(-age[op])
          /\ recordID' = [recordID EXCEPT ![op] = rec.id]
          /\ from' = [from EXCEPT ![op] = rec.status]
          /\ Go(op, "reclaim") /\ UNCHANGED <<renewing, ticks, faults>>
       \/ /\ IF rec = NoRecord \/ Busy(-age[op]) THEN UNCHANGED faults ELSE Fault
          /\ Refused(op) /\ UNCHANGED <<recordID, from>>
    /\ UNCHANGED <<rec, age, idle, crashes>>

Reclaimable(op) == CanReclaim(rec, recordID[op], from[op], age[op])

AsMine(op) == Reclaimed(rec, Lease - age[op], TTL - age[op])

TryReclaim(op) ==
    /\ pc[op] = "reclaim"
    /\ \/ Reclaimable(op) /\ rec' = AsMine(op) /\ Acquired(op) /\ UNCHANGED faults
       \/ ~Reclaimable(op) /\ Refused(op) /\ UNCHANGED <<rec, faults>>
       \/ Unavailable(op, IF Reclaimable(op) THEN AsMine(op) ELSE rec)
    /\ idle' = 0
    /\ UNCHANGED <<age, recordID, from, crashes>>

\* The operation ends, in success or not; Release closes stopCh ...
Finish(op) ==
    /\ pc[op] = "run"
    /\ Go(op, "release")
    /\ UNCHANGED <<rec, age, recordID, from, renewing, ticks, idle, faults, crashes>>

\* ... and marks the record, whoever has it now.
Release(op) ==
    /\ pc[op] = "release"
    /\ \/ /\ UNCHANGED faults
          /\ \/ rec' = Succeeded(rec, recordID[op], op, TTL)
             \/ rec' = Failed(rec, recordID[op], 0, TTL)
       \/ Fault /\ UNCHANGED rec
    /\ Go(op, "done")
    /\ UNCHANGED <<age, recordID, from, renewing, ticks, idle, crashes>>

\* Mutant: a failed renewal ends the loop.
AfterFailedRenewal_Stop(op) == FALSE

\* A failed renewal is tried again on the next tick.
AfterFailedRenewal(op) == TRUE

\* renewLoop sees stopCh, which may be after a last renewal.
StopRenewing(op) ==
    /\ renewing[op] /\ pc[op] # "run"
    /\ renewing' = [renewing EXCEPT ![op] = FALSE]
    /\ UNCHANGED <<rec, pc, age, recordID, from, ticks, idle, faults, crashes>>

\* A tick of renewLoop.
Renew(op) ==
    /\ renewing[op] /\ ticks[op] = RenewInterval
    /\ ticks' = [ticks EXCEPT ![op] = 0]
    /\ \/ /\ CanExtend(rec, recordID[op], OpId[op])
          /\ rec' = Extended(rec, Lease, TTL)
          /\ UNCHANGED <<renewing, faults>>
       \/ /\ ~CanExtend(rec, recordID[op], OpId[op])
          /\ renewing' = [renewing EXCEPT ![op] = FALSE]
          /\ UNCHANGED <<rec, faults>>
       \/ /\ Fault
          /\ renewing' = [renewing EXCEPT ![op] = AfterFailedRenewal(op)]
          /\ UNCHANGED rec
    /\ UNCHANGED <<pc, age, recordID, from, idle, crashes>>

-------------------------------------------------------------------------------

\* The process of an operation dies.
Crash(op) ==
    /\ pc[op] \notin {"idle", "done"} /\ crashes < MaxCrashes
    /\ crashes' = crashes + 1
    /\ Go(op, "done")
    /\ renewing' = [renewing EXCEPT ![op] = FALSE]
    /\ UNCHANGED <<rec, age, recordID, from, ticks, idle, faults>>

\* IdempotencyCleanupService.cleanupOnce.
Cleanup ==
    /\ Expired(rec)
    /\ rec' = NoRecord
    /\ UNCHANGED <<pc, age, recordID, from, renewing, ticks, idle, faults, crashes>>

Active == {op \in Operations : pc[op] \notin {"idle", "done"}}

Running == {op \in Operations : pc[op] = "run"}

Acquiring == {op \in Operations : pc[op] \in {"create", "get", "reclaim"}}

\* A renewal, or the end of renewLoop, is not later than the next tick of the clock.
Tick ==
    /\ \A op \in Active : age[op] < MaxAge
    /\ \A op \in Acquiring : age[op] < MaxClaim
    /\ \A op \in Operations : renewing[op] => pc[op] = "run" /\ ticks[op] < RenewInterval
    /\ age' = [op \in Operations |-> IF op \in Active THEN age[op] + 1 ELSE 0]
    /\ ticks' = [op \in Operations |-> IF renewing[op] THEN ticks[op] + 1 ELSE ticks[op]]
    /\ rec' = Aged(rec)
    /\ idle' = IF Running # {} THEN 0 ELSE IF idle < Lease THEN idle + 1 ELSE idle
    /\ UNCHANGED <<pc, recordID, from, renewing, faults, crashes>>

Work(op) ==
    \/ CreateProcessing(op) \/ GetExisting(op) \/ TryReclaim(op)
    \/ Finish(op) \/ Release(op) \/ Renew(op) \/ StopRenewing(op)

Next ==
    \/ \E op \in Operations : Start(op) \/ Work(op) \/ Crash(op)
    \/ Cleanup \/ Tick

Spec == Init /\ [][Next]_vars

-------------------------------------------------------------------------------
(* What the lock promises.                                                 *)

\* As the error "another system operation is in progress" and its test have it:
\* system operations exclude each other.
OneOperation == Cardinality(Running) <= 1

\* The operation that inserted the record runs alone for as long as it runs,
\* however often its lease is due and also when a renewal fails: until then,
\* nobody takes over.
InserterAlone ==
    \A op \in Running : recordID[op] = op => Running = {op}

\* Whatever failed or died, the lock can be had again one lease after the last
\* operation has ended or the last Acquire has failed: a lost release, a renewal
\* that comes late and a crash block others for no longer.
LockRecovers == idle >= Lease => rec = NoRecord \/ ~Busy(0)
===============================================================================
