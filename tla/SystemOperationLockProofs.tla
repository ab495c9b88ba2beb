---------------------- MODULE SystemOperationLockProofs ----------------------
(***************************************************************************)
(* What the lock of system operations promises, for any operations and     *)
(* operation ids.                                                          *)
(*                                                                         *)
(* InserterAlone is not inductive.  While the inserter runs, what excludes *)
(* the others is that the record is there, in processing and locked: its   *)
(* lease is as long as the faults and the ticks since its last renewal     *)
(* leave it, and nobody else knows the record's id, which every statement  *)
(* but TryReclaim takes for a permission.  And before anybody inserts a    *)
(* record, there is none, which is so only while nobody runs.              *)
(***************************************************************************)
EXTENDS SystemOperationLock, FiniteSetTheorems, TLAPS

\* A call that has not acquired the lock yet is within its limit.
Prompt ==
    /\ \A op \in Operations : pc[op] = "idle" => age[op] = 0
    /\ \A op \in Acquiring : age[op] <= MaxClaim

\* Only a call of Acquire that is through with its INSERT has its id in a record, or
\* in the hands of others.
Inserted == {op \in Operations : pc[op] \in {"run", "release", "done"}}

KnownIds ==
    /\ rec # NoRecord => rec.id \in Inserted
    /\ \A op \in Operations : recordID[op] # op => recordID[op] \in Inserted
    /\ \A op \in Operations : pc[op] = "reclaim" => recordID[op] # op

\* For as long as an operation runs there is a record, which does not expire.
Covered == \A op \in Running : rec # NoRecord /\ rec.expires + age[op] >= TTL - MaxClaim

Slack(op) == Lease - MaxClaim - faults * RenewInterval - ticks[op]

\* What the inserter has for as long as it runs.
Owns(op) ==
    /\ rec # NoRecord /\ rec.id = op /\ rec.fp = OpId[op] /\ rec.status = "processing"
    /\ rec.lock >= Slack(op)
    /\ renewing[op]
    /\ \A other \in Operations \ {op} : recordID[other] # op /\ pc[other] # "run"

InserterOwns == \A op \in Running : recordID[op] = op => Owns(op)

Alone == Prompt /\ KnownIds /\ Covered /\ InserterOwns

\* While anybody runs or renews, the clock of the last activity stands at zero; and
\* the lease of the record is no longer than what that clock has left of it.
Recovering ==
    /\ \A op \in Operations : pc[op] = "run" \/ renewing[op] => idle = 0
    /\ rec # NoRecord => rec.lock <= 0 \/ rec.lock <= Lease - idle

-------------------------------------------------------------------------------
(***************************************************************************)
(* The statements on the record.                                           *)
(***************************************************************************)
LEMMA DeadlineFacts ==
  /\ Past \in Deadlines /\ 0 \in Deadlines /\ TTL \in Deadlines /\ Lease \in Deadlines
  /\ \A a \in 0..MaxAge : TTL - a \in Deadlines /\ Lease - a \in Deadlines
  /\ \A d \in Deadlines : /\ Later(d) \in Deadlines /\ Later(d) <= d
                          /\ d > Past => Later(d) = d - 1
BY RecordsAssumption, LockAssumption DEF Deadlines, Past, Later

LEMMA CreatedFacts ==
  ASSUME TypeOK, NEW op \in Operations
  PROVE  /\ NewRecord(op) \in Records /\ NewRecord(op) # NoRecord
         /\ NewRecord(op).id = op /\ NewRecord(op).fp = OpId[op]
         /\ NewRecord(op).status = "processing"
         /\ NewRecord(op).lock = Lease - age[op] /\ NewRecord(op).expires = TTL - age[op]
<1>1. TTL - age[op] \in Deadlines /\ Lease - age[op] \in Deadlines /\ OpId[op] \in OperationIds
  BY DeadlineFacts, LockAssumption DEF TypeOK
<1>2. NewRecord(op) \in Records
  BY <1>1 DEF NewRecord, Created, Records, Statuses
<1> QED
  BY <1>2, LockAssumption DEF NewRecord, Created

LEMMA ReclaimedRecord ==
  ASSUME NEW r \in Records, NEW l \in Deadlines, NEW e \in Deadlines
  PROVE  /\ Reclaimed(r, l, e) \in Records
         /\ Reclaimed(r, l, e).id = r.id
         /\ Reclaimed(r, l, e).lock = l /\ Reclaimed(r, l, e).expires = e
<1>1. "processing" \in Statuses
  BY DEF Statuses
<1> QED
  BY <1>1, Zenon DEF Reclaimed, Records

LEMMA ReclaimedFacts ==
  ASSUME TypeOK, NEW op \in Operations, rec \in Records
  PROVE  /\ AsMine(op) \in Records /\ AsMine(op) # NoRecord /\ AsMine(op).id = rec.id
         /\ AsMine(op).lock = Lease - age[op] /\ AsMine(op).expires = TTL - age[op]
<1>1. TTL - age[op] \in Deadlines /\ Lease - age[op] \in Deadlines
  BY DeadlineFacts DEF TypeOK
<1> QED
  BY <1>1, ReclaimedRecord, LockAssumption DEF AsMine

LEMMA ExtendedRecord ==
  ASSUME NEW r \in Records, NEW l \in Deadlines, NEW e \in Deadlines
  PROVE  /\ Extended(r, l, e) \in Records
         /\ Extended(r, l, e).id = r.id /\ Extended(r, l, e).fp = r.fp
         /\ Extended(r, l, e).status = r.status
         /\ Extended(r, l, e).lock = l /\ Extended(r, l, e).expires = e
BY Zenon DEF Extended, Records

LEMMA ExtendedFacts ==
  ASSUME rec \in Records
  PROVE  LET extended == Extended(rec, Lease, TTL) IN
         /\ extended \in Records /\ extended # NoRecord
         /\ extended.id = rec.id /\ extended.fp = rec.fp /\ extended.status = rec.status
         /\ extended.lock = Lease /\ extended.expires = TTL
BY DeadlineFacts, ExtendedRecord, LockAssumption

LEMMA MarkedRecord ==
  ASSUME NEW r \in Records, NEW op \in Operations
  PROVE  /\ Succeeded(r, r.id, op, TTL) \in Records /\ Failed(r, r.id, 0, TTL) \in Records
         /\ Succeeded(r, r.id, op, TTL).id = r.id /\ Failed(r, r.id, 0, TTL).id = r.id
         /\ Succeeded(r, r.id, op, TTL).lock = Past /\ Failed(r, r.id, 0, TTL).lock = 0
         /\ Succeeded(r, r.id, op, TTL).expires = TTL /\ Failed(r, r.id, 0, TTL).expires = TTL
<1>1. /\ "succeeded" \in Statuses /\ "failed_retryable" \in Statuses /\ r # NoRecord
      /\ Past \in Deadlines /\ 0 \in Deadlines /\ TTL \in Deadlines
  BY DeadlineFacts, LockAssumption DEF Statuses
<1> QED
  BY <1>1, Zenon DEF Succeeded, Failed, IsRecord, Records

\* Release marks the record if it goes by the id that Release has, and leaves it
\* alone otherwise.
LEMMA MarkedFacts ==
  ASSUME TypeOK, NEW op \in Operations,
         NEW marked \in {Succeeded(rec, recordID[op], op, TTL), Failed(rec, recordID[op], 0, TTL)}
  PROVE  \/ marked = rec
         \/ /\ rec \in Records /\ rec.id = recordID[op]
            /\ marked \in Records /\ marked # NoRecord /\ marked.id = rec.id
            /\ marked.lock <= 0 /\ marked.expires = TTL
<1>1. Past <= 0
  BY RecordsAssumption DEF Past
<1>2. CASE IsRecord(rec, recordID[op])
  <2>1. rec \in Records /\ rec.id = recordID[op]
    BY <1>2 DEF IsRecord, TypeOK
  <2> QED
    BY <1>1, <2>1, MarkedRecord, LockAssumption
<1>3. CASE ~ IsRecord(rec, recordID[op])
  BY <1>3 DEF Succeeded, Failed
<1> QED
  BY <1>2, <1>3

LEMMA AgedRecord ==
  ASSUME NEW r \in Records
  PROVE  /\ Aged(r) \in Records
         /\ Aged(r).id = r.id /\ Aged(r).fp = r.fp /\ Aged(r).status = r.status
         /\ Aged(r).lock = Later(r.lock) /\ Aged(r).expires = Later(r.expires)
<1>1. r # NoRecord /\ Later(r.lock) \in Deadlines /\ Later(r.expires) \in Deadlines
  BY DeadlineFacts, LockAssumption DEF Records
<1> QED
  BY <1>1, Zenon DEF Aged, Records

LEMMA AgedFacts ==
  ASSUME TypeOK
  PROVE  \/ rec = NoRecord /\ Aged(rec) = NoRecord
         \/ /\ rec \in Records /\ Aged(rec) \in Records /\ Aged(rec) # NoRecord
            /\ Aged(rec).id = rec.id /\ Aged(rec).fp = rec.fp /\ Aged(rec).status = rec.status
            /\ Aged(rec).lock = Later(rec.lock) /\ Aged(rec).expires = Later(rec.expires)
<1>1. rec \in Records \cup {NoRecord}
  BY DEF TypeOK
<1> QED
  BY <1>1, AgedRecord, LockAssumption DEF Aged

-------------------------------------------------------------------------------
(***************************************************************************)
(* The type invariant, and what becomes of the record in each step.        *)
(***************************************************************************)
\* The record is written by four statements, deleted by the cleanup and aged by time.
LEMMA RecordSteps ==
  ASSUME TypeOK, NEW op \in Operations, Work(op)
  PROVE  \/ rec' = rec
         \/ pc[op] = "create" /\ rec = NoRecord /\ rec' = NewRecord(op)
         \/ pc[op] = "reclaim" /\ Reclaimable(op) /\ rec \in Records /\ rec' = AsMine(op)
         \/ pc[op] = "release" /\ rec' \in {Succeeded(rec, recordID[op], op, TTL),
                                            Failed(rec, recordID[op], 0, TTL)}
         \/ renewing[op] /\ rec \in Records /\ rec' = Extended(rec, Lease, TTL)
<1> USE DEF TypeOK
<1>1. CASE CreateProcessing(op)
  BY <1>1 DEF CreateProcessing, Unavailable
<1>2. CASE TryReclaim(op)
  BY <1>2 DEF TryReclaim, Unavailable, Reclaimable, CanReclaim
<1>3. CASE Release(op)
  BY <1>3 DEF Release
<1>4. CASE Renew(op)
  BY <1>4 DEF Renew, CanExtend, IsRecord
<1>5. CASE GetExisting(op) \/ Finish(op) \/ StopRenewing(op)
  BY <1>5 DEF GetExisting, Finish, StopRenewing
<1> QED
  BY <1>1, <1>2, <1>3, <1>4, <1>5 DEF Work

LEMMA InitTypeOK == Init => TypeOK
BY RecordsAssumption, LockAssumption, DeadlineFacts DEF Init, TypeOK, PCs, Statuses

LEMMA NextKeepsTypeOK ==
  ASSUME TypeOK, [Next]_vars
  PROVE  TypeOK'
<1> USE DEF TypeOK, PCs
<1>1. ASSUME NEW op \in Operations, Work(op) PROVE TypeOK'
  <2>1. rec' \in Records \cup {NoRecord}
    BY <1>1, RecordSteps, CreatedFacts, ReclaimedFacts, MarkedFacts, ExtendedFacts
  <2>2. faults' \in 0..MaxFaults
    <3>1. UNCHANGED faults \/ Fault
      BY <1>1 DEF Work, CreateProcessing, GetExisting, TryReclaim, Finish, Release, Renew,
                  StopRenewing, Unavailable
    <3> QED
      BY <3>1, LockAssumption DEF Fault
  <2>3. pc' \in [Operations -> PCs]
    BY <1>1 DEF Work, CreateProcessing, GetExisting, TryReclaim, Finish, Release, Renew,
                StopRenewing, Unavailable, Acquired, Refused, Go
  <2>4. /\ renewing' \in [Operations -> BOOLEAN]
        /\ ticks' \in [Operations -> 0..RenewInterval]
    <3>1. /\ UNCHANGED renewing \/ \E b \in BOOLEAN : renewing' = [renewing EXCEPT ![op] = b]
          /\ UNCHANGED ticks \/ ticks' = [ticks EXCEPT ![op] = 0]
      BY <1>1 DEF Work, CreateProcessing, GetExisting, TryReclaim, Finish, Release, Renew,
                  StopRenewing, Unavailable, Acquired, Refused, AfterFailedRenewal
    <3> QED
      BY <3>1, LockAssumption
  <2>5. recordID' \in [Operations -> Operations] /\ from' \in [Operations -> Statuses]
    <3>1. rec \in Records => rec.id \in Operations /\ rec.status \in Statuses
      BY DEF Records
    <3> QED
      BY <1>1, <3>1 DEF Work, CreateProcessing, GetExisting, TryReclaim, Finish, Release, Renew,
                        StopRenewing
  <2>6. UNCHANGED <<age, crashes>> /\ idle' \in 0..Lease
    BY <1>1, LockAssumption
       DEF Work, CreateProcessing, GetExisting, TryReclaim, Finish, Release, Renew, StopRenewing
  <2> QED
    BY <2>1, <2>2, <2>3, <2>4, <2>5, <2>6
<1>2. ASSUME NEW op \in Operations, Start(op) PROVE TypeOK'
  BY <1>2 DEF Start, Go
<1>3. ASSUME NEW op \in Operations, Crash(op) PROVE TypeOK'
  BY <1>3, LockAssumption DEF Crash, Go
<1>4. CASE Cleanup
  BY <1>4 DEF Cleanup
<1>5. CASE Tick
  <2>1. rec' \in Records \cup {NoRecord}
    BY <1>5, AgedFacts DEF Tick
  <2>2. age' \in [Operations -> 0..MaxAge]
    BY <1>5, RecordsAssumption DEF Tick
  <2>3. ticks' \in [Operations -> 0..RenewInterval] /\ idle' \in 0..Lease
    BY <1>5, LockAssumption DEF Tick
  <2> QED
    BY <1>5, <2>1, <2>2, <2>3 DEF Tick
<1>6. CASE UNCHANGED vars
  BY <1>6 DEF vars
<1> QED
  BY <1>1, <1>2, <1>3, <1>4, <1>5, <1>6 DEF Next

\* The record, the calls and their clocks have their types, whatever the limits are:
\* no deadline is further ahead than the longer of TTL and lease.
THEOREM TypeCorrect == Spec => []TypeOK
BY InitTypeOK, NextKeepsTypeOK, PTL DEF Spec

-------------------------------------------------------------------------------
(***************************************************************************)
(* Recovery.                                                               *)
(***************************************************************************)
LEMMA InitRecovering == Init => Recovering
BY LockAssumption DEF Init, Recovering

LEMMA WorkKeepsRecovering ==
  ASSUME TypeOK, Recovering, NEW op \in Operations, Work(op)
  PROVE  Recovering'
<1> USE DEF TypeOK
<1>1. \A o \in Operations : pc'[o] = "run" \/ renewing'[o] => idle' = 0
  <2>1. CASE CreateProcessing(op) \/ TryReclaim(op)
    BY <2>1 DEF CreateProcessing, TryReclaim
  <2>2. CASE GetExisting(op) \/ Finish(op) \/ Release(op) \/ StopRenewing(op)
    BY <2>2 DEF GetExisting, Finish, Release, StopRenewing, Refused, Go, Recovering
  <2>3. CASE Renew(op)
    BY <2>3 DEF Renew, Recovering
  <2> QED
    BY <2>1, <2>2, <2>3 DEF Work
<1>2. rec' # NoRecord => rec'.lock <= 0 \/ rec'.lock <= Lease - idle'
  <2>1. idle' \in {0, idle} /\ idle \in Nat
    BY LockAssumption DEF Work, CreateProcessing, GetExisting, TryReclaim, Finish, Release,
                          Renew, StopRenewing
  <2>2. CASE rec' = rec
    <3>1. rec \in Records => rec.lock \in Int
      BY RecordsAssumption, LockAssumption DEF Records, Deadlines, Past
    <3> QED
      BY <2>1, <2>2, <3>1, LockAssumption DEF Recovering
  <2>3. CASE (pc[op] = "create" /\ rec' = NewRecord(op))
             \/ (pc[op] = "reclaim" /\ rec \in Records /\ rec' = AsMine(op))
    <3>1. idle' = 0
      BY <2>3 DEF Work, CreateProcessing, GetExisting, TryReclaim, Finish, Release, Renew,
                  StopRenewing, Recovering
    <3>2. rec'.lock = Lease - age[op]
      BY <2>3, CreatedFacts, ReclaimedFacts
    <3> QED
      BY <3>1, <3>2, RecordsAssumption, LockAssumption
  <2>4. CASE rec' \in {Succeeded(rec, recordID[op], op, TTL), Failed(rec, recordID[op], 0, TTL)}
    BY <2>2, <2>4, MarkedFacts
  <2>5. CASE renewing[op] /\ rec \in Records /\ rec' = Extended(rec, Lease, TTL)
    <3>1. idle' = 0 /\ rec'.lock = Lease
      BY <2>1, <2>5, ExtendedFacts DEF Recovering
    <3> QED
      BY <3>1, LockAssumption
  <2> QED
    BY <2>2, <2>3, <2>4, <2>5, RecordSteps
<1> QED
  BY <1>1, <1>2 DEF Recovering

LEMMA NextKeepsRecovering ==
  ASSUME TypeOK, Recovering, [Next]_vars
  PROVE  Recovering'
<1>1. ASSUME NEW op \in Operations, Start(op) \/ Crash(op) PROVE Recovering'
  BY <1>1 DEF Start, Crash, Go, TypeOK, Recovering
<1>2. CASE Cleanup
  BY <1>2 DEF Cleanup, Recovering
<1>3. CASE Tick
  <2>1. \A op \in Operations : pc'[op] = "run" \/ renewing'[op] => idle' = 0
    BY <1>3 DEF Tick, Running
  <2>2. idle' \in Nat /\ idle' <= idle + 1 /\ idle \in Nat
    BY <1>3, LockAssumption DEF Tick, TypeOK
  <2>3. ASSUME rec' # NoRecord PROVE rec'.lock <= 0 \/ rec'.lock <= Lease - idle'
    <3>1. rec \in Records /\ rec'.lock = Later(rec.lock)
      BY <1>3, <2>3, AgedFacts, LockAssumption DEF Tick
    <3>2. rec.lock \in Int /\ rec.lock \in Deadlines
      BY <3>1, RecordsAssumption, LockAssumption DEF Records, Deadlines, Past
    <3>3. rec.lock <= 0 \/ rec.lock <= Lease - idle
      BY <3>1, LockAssumption DEF Recovering
    <3>4. CASE rec.lock <= 0
      BY <3>1, <3>2, <3>4, DeadlineFacts, RecordsAssumption DEF Later, Past
    <3>5. CASE rec.lock > 0
      <4>1. rec'.lock = rec.lock - 1
        BY <3>1, <3>2, <3>5, RecordsAssumption DEF Later, Past
      <4> QED
        BY <2>2, <3>2, <3>3, <3>5, <4>1, LockAssumption
    <3> QED
      BY <3>2, <3>4, <3>5
  <2> QED
    BY <2>1, <2>3 DEF Recovering
<1>4. CASE UNCHANGED vars
  BY <1>4 DEF vars, Recovering
<1> QED
  BY <1>1, <1>2, <1>3, <1>4, WorkKeepsRecovering DEF Next

\* Whatever fails, dies or comes late: one lease after the last operation has ended
\* and the last Acquire has written, the record is gone or not busy any more.
THEOREM Recovers == Spec => []LockRecovers
<1>1. TypeOK /\ Recovering => LockRecovers
  <2> SUFFICES ASSUME TypeOK, Recovering, idle >= Lease, rec # NoRecord PROVE ~Busy(0)
    BY DEF LockRecovers
  <2>1. idle = Lease /\ Lease \in Nat
    BY LockAssumption DEF TypeOK
  <2>2. rec.lock \in Int
    BY RecordsAssumption, LockAssumption DEF TypeOK, Records, Deadlines, Past
  <2> QED
    BY <2>1, <2>2 DEF Recovering, Busy
<1>2. TypeOK /\ Recovering /\ [Next]_vars => (TypeOK /\ Recovering)'
  BY NextKeepsTypeOK, NextKeepsRecovering
<1> QED
  BY InitTypeOK, InitRecovering, <1>1, <1>2, PTL DEF Spec

-------------------------------------------------------------------------------
(***************************************************************************)
(* The inserter runs alone.                                                *)
(***************************************************************************)
\* No operation outlives the TTL of the record less the time that Acquire takes, no
\* Acquire is as slow as the lease is long, and the lease covers every renewal that
\* fails and the one after.
InTime ==
    /\ Lease <= TTL
    /\ MaxAge + MaxClaim < TTL
    /\ MaxClaim + (MaxFaults + 1) * RenewInterval < Lease

IInv == TypeOK /\ Alone

LEMMA SlackLeft ==
  ASSUME TypeOK, InTime, NEW op \in Operations
  PROVE  Slack(op) \in Int /\ Slack(op) > 0
<1>1. /\ MaxClaim \in Nat /\ Lease \in Nat /\ MaxFaults \in Nat /\ RenewInterval \in Nat
      /\ faults \in 0..MaxFaults /\ ticks[op] \in 0..RenewInterval
  BY LockAssumption DEF TypeOK
<1>2. \A f, m, i \in Nat : f <= m => f * i \in Nat /\ f * i <= m * i
  OBVIOUS
<1>3. (MaxFaults + 1) * RenewInterval = MaxFaults * RenewInterval + RenewInterval
  BY <1>1
<1>4. faults * RenewInterval \in Nat /\ faults * RenewInterval <= MaxFaults * RenewInterval
  BY <1>1, <1>2
<1> QED
  BY <1>1, <1>3, <1>4 DEF Slack, InTime

\* As long as the inserter runs, the record is locked for everybody else, and lives.
LEMMA InserterLocks ==
  ASSUME IInv, InTime, NEW op \in Running, recordID[op] = op
  PROVE  /\ rec \in Records /\ rec.lock > 0 /\ rec.id = op /\ rec.status = "processing"
         /\ \A other \in Operations : ~Reclaimable(other) /\ Busy(-age[other])
<1>1. Owns(op)
  BY DEF IInv, Alone, InserterOwns
<1>2. rec \in Records /\ rec.lock \in Int
  BY <1>1, RecordsAssumption, LockAssumption DEF Owns, IInv, TypeOK, Records, Deadlines, Past
<1>3. rec.lock > 0
  BY <1>1, <1>2, SlackLeft DEF Owns, IInv, Running
<1>4. \A other \in Operations : age[other] \in Nat
  BY RecordsAssumption DEF IInv, TypeOK
<1> QED
  BY <1>1, <1>2, <1>3, <1>4 DEF Owns, Reclaimable, CanReclaim, Busy

\* While anybody runs, the cleanup does not find the record expired.
LEMMA StaysWhileRunning ==
  ASSUME IInv, InTime, NEW op \in Running
  PROVE  rec \in Records /\ rec.expires \in Int /\ rec.expires > 0 /\ ~Expired(rec)
<1>1. rec \in Records /\ rec.expires \in Int /\ rec.expires + age[op] >= TTL - MaxClaim
  BY RecordsAssumption, LockAssumption
     DEF IInv, Alone, Covered, TypeOK, Records, Deadlines, Past
<1>2. age[op] \in Nat /\ age[op] <= MaxAge
  BY RecordsAssumption DEF IInv, TypeOK, Running
<1> QED
  BY <1>1, <1>2, RecordsAssumption, LockAssumption DEF InTime, Expired

LEMMA InitAlone == Init => Alone
BY LockAssumption
   DEF Init, Alone, Prompt, Acquiring, KnownIds, Inserted, Covered, InserterOwns, Running

LEMMA WorkKeepsPrompt ==
  ASSUME IInv, NEW op \in Operations, Work(op)
  PROVE  Prompt'
BY DEF IInv, TypeOK, Alone, Prompt, Acquiring, Work, CreateProcessing, GetExisting, TryReclaim,
       Finish, Release, Renew, StopRenewing, Unavailable, Acquired, Refused, Go

LEMMA WorkKeepsKnownIds ==
  ASSUME IInv, NEW op \in Operations, Work(op)
  PROVE  KnownIds'
<1> USE DEF IInv, TypeOK, Inserted
<1>1. Inserted \subseteq Inserted'
  BY DEF Work, CreateProcessing, GetExisting, TryReclaim, Finish, Release, Renew, StopRenewing,
         Unavailable, Acquired, Refused, Go
<1>2. rec' # NoRecord => rec'.id \in Inserted'
  <2>1. \/ rec' = rec
        \/ rec' # NoRecord /\ rec \in Records /\ rec'.id = rec.id
        \/ rec'.id = op /\ CreateProcessing(op)
    <3>1. pc[op] = "create" /\ rec = NoRecord /\ rec' # rec => CreateProcessing(op)
      BY DEF CanExtend, IsRecord, Work, CreateProcessing, GetExisting, TryReclaim, Finish,
             Release, Renew, StopRenewing
    <3> HIDE DEF IInv, TypeOK, Inserted
    <3>2. TypeOK
      BY DEF IInv
    <3> QED
      BY <3>1, <3>2, RecordSteps, CreatedFacts, ReclaimedFacts, MarkedFacts, ExtendedFacts
  <2>2. rec \in Records => rec.id \in Operations /\ rec # NoRecord
    BY LockAssumption DEF Records
  <2>3. CASE rec' = rec \/ (rec' # NoRecord /\ rec \in Records /\ rec'.id = rec.id)
    BY <1>1, <2>2, <2>3 DEF Alone, KnownIds
  <2>4. CASE CreateProcessing(op) /\ rec'.id = op /\ rec' # rec
    BY <2>4 DEF CreateProcessing, Unavailable, Acquired, Refused, Go
  <2> QED
    BY <2>1, <2>3, <2>4
<1>3. /\ \A o \in Operations : recordID'[o] # o => recordID'[o] \in Inserted'
      /\ \A o \in Operations : pc'[o] = "reclaim" => recordID'[o] # o
  <2>1. CASE GetExisting(op)
    <3>1. rec # NoRecord => rec.id \in Operations /\ rec.id # op /\ rec.id \in Inserted
      BY <2>1 DEF Alone, KnownIds, GetExisting, Records
    <3> QED
      BY <1>1, <2>1, <3>1 DEF Alone, KnownIds, GetExisting, Refused, Go
  <2>2. CASE ~GetExisting(op)
    BY <1>1, <2>2
       DEF Alone, KnownIds, Work, CreateProcessing, TryReclaim, Finish, Release, Renew,
           StopRenewing, Unavailable, Acquired, Refused, Go
  <2> QED
    BY <2>1, <2>2
<1> QED
  BY <1>2, <1>3 DEF KnownIds

LEMMA WorkKeepsCovered ==
  ASSUME IInv, InTime, NEW op \in Operations, Work(op)
  PROVE  Covered'
<1>1. /\ TypeOK /\ Covered /\ age' = age
      /\ MaxClaim \in Nat /\ TTL \in Nat /\ \A o \in Operations : age[o] \in Nat
  BY RecordsAssumption, LockAssumption
     DEF IInv, Alone, TypeOK, Work, CreateProcessing, GetExisting, TryReclaim, Finish, Release,
         Renew, StopRenewing
<1>2. \A o \in Running' : o \in Running \/ (o = op /\ pc[op] \in {"create", "reclaim"})
  BY DEF IInv, TypeOK, Running, Work, CreateProcessing, GetExisting, TryReclaim, Finish, Release,
         Renew, StopRenewing, Unavailable, Acquired, Refused, Go
<1>3. op \in Running' /\ op \notin Running => rec' # NoRecord /\ rec'.expires = TTL - age[op]
  <2>1. op \in Running' /\ op \notin Running =>
          (rec' = NewRecord(op)) \/ (rec' = AsMine(op) /\ rec \in Records)
    BY DEF IInv, TypeOK, Running, Work, CreateProcessing, GetExisting, TryReclaim, Finish, Release,
           Renew, StopRenewing, Unavailable, Acquired, Refused, Go, Reclaimable, CanReclaim
  <2> QED
    BY <1>1, <2>1, CreatedFacts, ReclaimedFacts
<1>4. ASSUME NEW o \in Running
      PROVE  rec' # NoRecord /\ rec'.expires + age[o] >= TTL - MaxClaim
  <2>1. rec \in Records /\ rec # NoRecord /\ rec.expires + age[o] >= TTL - MaxClaim
    BY <1>1, LockAssumption DEF Covered, TypeOK
  <2>2. \/ rec' = rec
        \/ rec' # NoRecord /\ rec'.expires = TTL
        \/ pc[op] = "reclaim" /\ rec' # NoRecord /\ rec'.expires = TTL - age[op]
    BY <1>1, <2>1, RecordSteps, ReclaimedFacts, MarkedFacts, ExtendedFacts
  <2>3. pc[op] = "reclaim" => age[op] <= MaxClaim
    BY DEF IInv, Alone, Prompt, Acquiring
  <2>4. age[o] \in Nat /\ age[op] \in Nat
    BY <1>1 DEF Running
  <2> QED
    BY <1>1, <2>1, <2>2, <2>3, <2>4
<1>5. pc[op] \in {"create", "reclaim"} => age[op] <= MaxClaim
  BY DEF IInv, Alone, Prompt, Acquiring
<1> QED
  BY <1>1, <1>2, <1>3, <1>4 DEF Covered

\* Who begins to run has inserted the record, and nobody else runs or knows it; or has
\* taken over one that it did not insert.
LEMMA WorkKeepsInserterOwns ==
  ASSUME IInv, InTime, NEW op \in Operations, Work(op)
  PROVE  InserterOwns'
<1> USE DEF IInv, TypeOK, Running
<1> SUFFICES ASSUME NEW o \in Running', recordID'[o] = o PROVE Owns(o)'
  BY DEF InserterOwns
<1>1. CASE o \notin Running
  <2>1. o = op /\ pc'[op] = "run" /\ pc[op] # "run"
    BY <1>1 DEF Work, CreateProcessing, GetExisting, TryReclaim, Finish, Release, Renew,
                StopRenewing, Unavailable, Acquired, Refused, Go
  <2>2. pc[op] # "reclaim"
    <3>1. pc[op] = "reclaim" => recordID[op] # op /\ recordID' = recordID
      BY <2>1 DEF Alone, KnownIds, Work, CreateProcessing, GetExisting, TryReclaim, Finish,
                  Release, Renew, StopRenewing, Go
    <3> QED
      BY <2>1, <3>1
  <2>3. /\ pc[op] = "create" /\ rec = NoRecord /\ rec' = NewRecord(op)
        /\ recordID' = recordID /\ ticks'[op] = 0 /\ renewing'[op] /\ faults' = faults
        /\ pc' = [pc EXCEPT ![op] = "run"]
    BY <2>1, <2>2
       DEF Work, CreateProcessing, GetExisting, TryReclaim, Finish, Release, Renew,
           StopRenewing, Unavailable, Acquired, Refused, Go
  <2>4. \A other \in Operations \ {op} : recordID[other] # op /\ pc[other] # "run"
    BY <2>3 DEF Alone, KnownIds, Inserted, Covered
  <2>5. /\ rec' # NoRecord /\ rec'.id = op /\ rec'.fp = OpId[op] /\ rec'.status = "processing"
        /\ rec'.lock = Lease - age[op]
    BY <2>3, CreatedFacts
  <2>6. rec'.lock >= Slack(op)'
    <3>1. age[op] \in Nat /\ age[op] <= MaxClaim
      BY <2>3, RecordsAssumption DEF Alone, Prompt, Acquiring
    <3>2. faults * RenewInterval \in Nat /\ Lease \in Nat /\ MaxClaim \in Nat
      BY LockAssumption
    <3>3. Slack(op)' = Lease - MaxClaim - faults * RenewInterval - 0
      BY <2>3 DEF Slack
    <3> QED
      BY <2>5, <3>1, <3>2, <3>3
  <2> QED
    BY <2>1, <2>3, <2>4, <2>5, <2>6 DEF Owns
<1>2. CASE o \in Running
  <2>1. recordID[o] = o
    <3>1. recordID'[o] = recordID[o]
      BY <1>2 DEF Work, CreateProcessing, GetExisting, TryReclaim, Finish, Release, Renew,
                  StopRenewing
    <3> QED
      BY <3>1
  <2>2. /\ Owns(o) /\ rec \in Records
        /\ \A other \in Operations : ~Reclaimable(other) /\ Busy(-age[other])
    BY <1>2, <2>1, InserterLocks DEF Alone, InserterOwns
  <2>3. \A other \in Operations \ {o} : recordID'[other] # o /\ pc'[other] # "run"
    BY <2>2 DEF Owns, Work, CreateProcessing, GetExisting, TryReclaim, Finish, Release, Renew,
                StopRenewing, Unavailable, Acquired, Refused, Go
  <2>4. CASE Renew(o) /\ op = o
    <3>1. CanExtend(rec, recordID[o], OpId[o])
      BY <2>1, <2>2 DEF Owns, CanExtend, IsRecord
    <3>2. CASE /\ rec' = Extended(rec, Lease, TTL) /\ faults' = faults
               /\ ticks' = [ticks EXCEPT ![o] = 0]
      <4>1. /\ rec'.lock = Lease /\ rec' # NoRecord
            /\ rec'.id = o /\ rec'.fp = OpId[o] /\ rec'.status = "processing"
        BY <2>2, <3>2, ExtendedFacts DEF Owns
      <4>2. Slack(o)' = Lease - MaxClaim - faults * RenewInterval - 0
        BY <3>2 DEF Slack
      <4>3. faults * RenewInterval \in Nat /\ Lease \in Nat /\ MaxClaim \in Nat
        BY LockAssumption
      <4>4. rec'.lock >= Slack(o)'
        BY <4>1, <4>2, <4>3
      <4>5. renewing' = renewing
        BY <2>4, <3>1, <3>2, LockAssumption DEF Renew, Fault
      <4> QED
        BY <2>2, <2>3, <4>1, <4>4, <4>5 DEF Owns
    <3>3. CASE rec' = rec /\ ticks' = [ticks EXCEPT ![o] = 0] /\ faults' = faults + 1
      <4>1. ticks[o] = RenewInterval /\ renewing' = [renewing EXCEPT ![o] = TRUE]
        BY <2>4, <3>1, <3>3 DEF Renew, AfterFailedRenewal
      <4>2. (faults + 1) * RenewInterval = faults * RenewInterval + RenewInterval
        BY LockAssumption
      <4>3. /\ faults * RenewInterval \in Nat /\ RenewInterval \in Nat
            /\ Lease \in Nat /\ MaxClaim \in Nat
        BY LockAssumption
      <4>4. Slack(o)' = Lease - MaxClaim - (faults + 1) * RenewInterval - 0
        BY <3>3 DEF Slack
      <4>5. Slack(o) = Lease - MaxClaim - faults * RenewInterval - RenewInterval
        BY <4>1 DEF Slack
      <4>6. Slack(o)' = Slack(o)
        BY <4>2, <4>3, <4>4, <4>5
      <4> QED
        BY <2>2, <2>3, <3>3, <4>1, <4>6 DEF Owns
    <3> QED
      BY <2>4, <3>1, <3>2, <3>3 DEF Renew, Fault
  <2>5. CASE ~(Renew(o) /\ op = o)
    <3>1. rec' = rec /\ ticks'[o] = ticks[o] /\ renewing'[o] = renewing[o]
      BY <1>2, <2>2, <2>5
         DEF Owns, Work, CreateProcessing, GetExisting, TryReclaim, Finish, Release, Renew,
             StopRenewing, Unavailable, Acquired, Refused, Go, CanExtend, IsRecord, Succeeded,
             Failed
    <3>2. faults' = faults \/ faults' = faults + 1
      BY DEF Work, CreateProcessing, GetExisting, TryReclaim, Finish, Release, Renew,
             StopRenewing, Unavailable, Fault
    <3>3. (faults + 1) * RenewInterval = faults * RenewInterval + RenewInterval
      BY LockAssumption
    <3>4. /\ faults * RenewInterval \in Nat /\ Lease \in Nat /\ MaxClaim \in Nat
          /\ RenewInterval \in Nat /\ ticks[o] \in Nat
      BY LockAssumption
    <3>5. Slack(o)' = Lease - MaxClaim - faults' * RenewInterval - ticks[o]
      BY <3>1 DEF Slack
    <3>6. Slack(o)' <= Slack(o) /\ Slack(o) \in Int /\ Slack(o)' \in Int
      BY <3>2, <3>3, <3>4, <3>5 DEF Slack
    <3>7. rec.lock \in Int
      BY <2>2, RecordsAssumption, LockAssumption DEF Records, Deadlines, Past
    <3> QED
      BY <2>2, <2>3, <3>1, <3>6, <3>7 DEF Owns
  <2> QED
    BY <2>4, <2>5
<1> QED
  BY <1>1, <1>2

LEMMA TickKeepsAlone ==
  ASSUME IInv, InTime, Tick
  PROVE  Alone'
<1> USE DEF IInv, TypeOK
<1>1. /\ UNCHANGED <<pc, recordID, renewing, faults>>
      /\ \A op \in Active : age'[op] = age[op] + 1
      /\ \A op \in Operations : age[op] \in Nat
  BY RecordsAssumption DEF Tick, Active
<1>2. Prompt'
  BY <1>1, LockAssumption DEF Prompt, Acquiring, Active, Tick
<1>3. \/ rec = NoRecord /\ rec' = NoRecord
      \/ /\ rec \in Records /\ rec' # NoRecord
         /\ rec'.id = rec.id /\ rec'.fp = rec.fp /\ rec'.status = rec.status
         /\ rec'.lock = Later(rec.lock) /\ rec'.expires = Later(rec.expires)
  BY AgedFacts DEF Tick
<1>4. KnownIds'
  BY <1>1, <1>3, LockAssumption DEF Alone, KnownIds, Inserted
<1>5. rec \in Records =>
        /\ rec.lock \in Deadlines /\ rec.lock \in Int
        /\ rec.expires \in Deadlines /\ rec.expires \in Int
  BY RecordsAssumption, LockAssumption DEF Records, Deadlines, Past
<1>6. Covered'
  <2> SUFFICES ASSUME NEW op \in Running'
               PROVE  rec' # NoRecord /\ rec'.expires + age'[op] >= TTL - MaxClaim
    BY DEF Covered
  <2>1. op \in Running /\ op \in Active
    BY <1>1 DEF Running, Active
  <2>2. rec \in Records /\ rec.expires > 0
    BY <2>1, StaysWhileRunning
  <2>3. rec'.expires = rec.expires - 1
    BY <1>3, <1>5, <2>2, RecordsAssumption, LockAssumption DEF Later, Past
  <2>4. rec.expires + age[op] >= TTL - MaxClaim
    BY <2>1 DEF Alone, Covered
  <2> QED
    BY <1>1, <1>3, <1>5, <2>1, <2>2, <2>3, <2>4, LockAssumption DEF Active
<1>7. InserterOwns'
  <2> SUFFICES ASSUME NEW op \in Running', recordID'[op] = op PROVE Owns(op)'
    BY DEF InserterOwns
  <2>1. op \in Running /\ op \in Operations /\ recordID[op] = op
    BY <1>1 DEF Running
  <2>2. Owns(op) /\ rec \in Records /\ rec.lock > 0
    BY <2>1, InserterLocks DEF Alone, InserterOwns
  <2>3. rec'.lock = rec.lock - 1
    BY <1>3, <1>5, <2>2, RecordsAssumption, LockAssumption DEF Later, Past
  <2>4. ticks'[op] = ticks[op] + 1
    BY <2>1, <2>2 DEF Tick, Owns
  <2>5. faults * RenewInterval \in Nat /\ Lease \in Nat /\ MaxClaim \in Nat /\ ticks[op] \in Nat
    BY <2>1, LockAssumption
  <2>6. Slack(op)' = Lease - MaxClaim - faults * RenewInterval - (ticks[op] + 1)
    BY <1>1, <2>4 DEF Slack
  <2>7. rec'.lock >= Slack(op)'
    BY <1>5, <2>2, <2>3, <2>5, <2>6 DEF Owns, Slack
  <2> QED
    BY <1>1, <1>3, <2>1, <2>2, <2>7 DEF Owns
<1> QED
  BY <1>2, <1>4, <1>6, <1>7 DEF Alone

LEMMA NextKeepsAlone ==
  ASSUME IInv, InTime, [Next]_vars
  PROVE  Alone'
<1>1. ASSUME NEW op \in Operations, Work(op) PROVE Alone'
  BY <1>1, WorkKeepsPrompt, WorkKeepsKnownIds, WorkKeepsCovered, WorkKeepsInserterOwns DEF Alone
<1>2. ASSUME NEW op \in Operations, Start(op) PROVE Alone'
  BY <1>2, LockAssumption
     DEF IInv, TypeOK, Alone, Prompt, KnownIds, Inserted, Covered, InserterOwns, Owns, Slack,
         Start, Go, Acquiring, Running
<1>3. ASSUME NEW op \in Operations, Crash(op) PROVE Alone'
  BY <1>3 DEF IInv, TypeOK, Alone, Prompt, KnownIds, Inserted, Covered, InserterOwns, Owns, Slack,
         Crash, Go, Acquiring, Running
<1>4. CASE Cleanup
  <2>1. Running = {}
    BY <1>4, StaysWhileRunning DEF Cleanup
  <2>2. Running' = {} /\ Acquiring' = Acquiring /\ Inserted' = Inserted
    BY <1>4, <2>1 DEF Cleanup, Running, Acquiring, Inserted
  <2> QED
    BY <1>4, <2>2 DEF Cleanup, IInv, Alone, Prompt, KnownIds, Covered, InserterOwns
<1>5. CASE Tick
  BY <1>5, TickKeepsAlone
<1>6. CASE UNCHANGED vars
  BY <1>6 DEF vars, IInv, Alone, Prompt, KnownIds, Inserted, Covered, InserterOwns, Owns, Slack,
              Acquiring, Running
<1> QED
  BY <1>1, <1>2, <1>3, <1>4, <1>5, <1>6 DEF Next

\* The operation that inserted the record runs alone for as long as it runs, for any
\* number of others that come, crash and release what is not theirs.
THEOREM InserterRunsAlone ==
  ASSUME InTime
  PROVE  Spec => []InserterAlone
<1>1. IInv => InserterAlone
  <2> SUFFICES ASSUME IInv, NEW op \in Running, recordID[op] = op PROVE Running = {op}
    BY DEF InserterAlone
  <2>1. Owns(op)
    BY DEF IInv, Alone, InserterOwns
  <2> QED
    BY <2>1 DEF Owns, Running
<1>2. Init => IInv
  BY InitTypeOK, InitAlone DEF IInv
<1>3. IInv /\ [Next]_vars => IInv'
  BY NextKeepsTypeOK, NextKeepsAlone DEF IInv
<1> QED
  BY <1>1, <1>2, <1>3, PTL DEF Spec

==============================================================================
