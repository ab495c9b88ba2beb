--------------------------- MODULE IdempotencyProofs ---------------------------
(***************************************************************************)
(* What Execute promises, for any calls with one key, any payloads, and    *)
(* any number of faults and crashes.                                       *)
(*                                                                         *)
(* OneAtATime is not inductive: who may take a record over is decided when *)
(* it is read and asked again by TryReclaim in part only.  IInv says what  *)
(* a call that executes holds, and that a copy of a record in processing   *)
(* that was read as expired either still is expired or cannot be used.     *)
(***************************************************************************)
EXTENDS Idempotency, FiniteSetTheorems, TLAPS

\* A call that executes has the record, which counts its TTL from the call's clock.
Holds ==
    \A c \in Claimed :
        /\ rec # NoRecord /\ rec.id = own[c] /\ rec.status = "processing"
        /\ rec.expires = TTL - age[c]

Alone == \A c, d \in Claimed : c = d

\* Whoever read a record in processing as expired, and finds it in processing, finds
\* it as it was or finds it locked again.
StaleReaders ==
    \A c \in Calls :
        /\ pc[c] = "reclaimExpired" /\ from[c] = "processing"
        /\ rec # NoRecord /\ rec.id = own[c] /\ rec.status = "processing"
        => rec.expires <= -age[c] \/ rec.lock > -age[c]

FailedReaders ==
    \A c \in Calls : pc[c] = "reclaimFailed" => from[c] = "failed_retryable"

\* A record keeps the fingerprint of the call that inserted it, and is only ever
\* taken over by calls that have the same.
SamePayload ==
    /\ rec # NoRecord => rec.fp = payload[rec.id]
    /\ \A c \in Calls : own[c] # NoCall => payload[own[c]] = payload[c]

BodyApplied ==
    /\ rec # NoRecord /\ rec.status = "succeeded" =>
           rec.body \in applied /\ payload[rec.body] = rec.fp
    /\ \A c \in Calls : pc[c] = "markSucceeded" => c \in applied

\* Until the record is overtaken, it remembers the last effect for as long as it
\* must, if the execution that applied it did not return an error.
Remembered ==
    memory > 0 /\ ~halfway /\ ~overtaken =>
        /\ rec # NoRecord /\ rec.expires >= memory
        /\ rec.status \in {"processing", "succeeded"}
        /\ \A c \in Calls : pc[c] \notin {"execute", "markFailed"}

\* A call that is about to claim is within its limit.
Prompt ==
    \A c \in Calls : /\ pc[c] = "idle" => age[c] = 0
                     /\ c \in Claiming => age[c] <= MaxClaim

Exclusive == Holds /\ Alone /\ StaleReaders /\ FailedReaders /\ Remembered /\ Prompt

IInv == TypeOK /\ Exclusive

\* No call outlives the record it claimed, and none is slower to claim one than
\* the processing timeout.
InTime == MaxAge < TTL /\ MaxClaim < Lease

-------------------------------------------------------------------------------
(***************************************************************************)
(* The statements on the record.                                           *)
(***************************************************************************)
LEMMA DeadlineFacts ==
  /\ Past \in Deadlines /\ Backoff \in Deadlines
  /\ \A a \in 0..MaxAge : TTL - a \in Deadlines /\ Lease - a \in Deadlines
  /\ \A d \in Deadlines : /\ Later(d) \in Deadlines
                          /\ d > Past => Later(d) = d - 1
                          /\ d <= Past => Later(d) = Past
BY RecordsAssumption, IdempotencyAssumption DEF Deadlines, Past, Max2, Later

LEMMA CreatedFacts ==
  ASSUME TypeOK, NEW c \in Calls
  PROVE  /\ NewRecord(c) \in Records /\ NewRecord(c) # NoRecord
         /\ NewRecord(c).id = c /\ NewRecord(c).fp = payload[c]
         /\ NewRecord(c).status = "processing"
         /\ NewRecord(c).lock = Lease - age[c] /\ NewRecord(c).expires = TTL - age[c]
<1>1. TTL - age[c] \in Deadlines /\ Lease - age[c] \in Deadlines /\ payload[c] \in Fingerprints
  BY DeadlineFacts DEF TypeOK
<1>2. NewRecord(c) \in Records
  BY <1>1 DEF NewRecord, Created, Records, Statuses
<1> QED
  BY <1>2, IdempotencyAssumption DEF NewRecord, Created

LEMMA ReclaimedRecord ==
  ASSUME NEW r \in Records, NEW l \in Deadlines, NEW e \in Deadlines
  PROVE  /\ Reclaimed(r, l, e) \in Records
         /\ Reclaimed(r, l, e).id = r.id /\ Reclaimed(r, l, e).fp = r.fp
         /\ Reclaimed(r, l, e).body = r.body /\ Reclaimed(r, l, e).status = "processing"
         /\ Reclaimed(r, l, e).lock = l /\ Reclaimed(r, l, e).expires = e
<1>1. "processing" \in Statuses
  BY DEF Statuses
<1> QED
  BY <1>1, Zenon DEF Reclaimed, Records

LEMMA ReclaimedFacts ==
  ASSUME TypeOK, NEW c \in Calls, rec \in Records
  PROVE  /\ AsMine(c) \in Records /\ AsMine(c) # NoRecord
         /\ AsMine(c).id = rec.id /\ AsMine(c).fp = rec.fp /\ AsMine(c).body = rec.body
         /\ AsMine(c).status = "processing"
         /\ AsMine(c).lock = Lease - age[c] /\ AsMine(c).expires = TTL - age[c]
<1>1. TTL - age[c] \in Deadlines /\ Lease - age[c] \in Deadlines
  BY DeadlineFacts DEF TypeOK
<1> QED
  BY <1>1, ReclaimedRecord, IdempotencyAssumption DEF AsMine

LEMMA SucceededRecord ==
  ASSUME NEW r \in Records, NEW b \in Calls, NEW e \in Deadlines
  PROVE  /\ Succeeded(r, r.id, b, e) \in Records
         /\ Succeeded(r, r.id, b, e).id = r.id /\ Succeeded(r, r.id, b, e).fp = r.fp
         /\ Succeeded(r, r.id, b, e).body = b /\ Succeeded(r, r.id, b, e).status = "succeeded"
         /\ Succeeded(r, r.id, b, e).expires = e
<1>1. "succeeded" \in Statuses /\ Past \in Deadlines /\ r # NoRecord
  BY DeadlineFacts, IdempotencyAssumption DEF Statuses
<1> QED
  BY <1>1, Zenon DEF Succeeded, IsRecord, Records

LEMMA SucceededFacts ==
  ASSUME TypeOK, NEW c \in Calls
  PROVE  \/ AsSucceeded(c) = rec
         \/ /\ rec \in Records /\ rec.id = own[c]
            /\ AsSucceeded(c) \in Records /\ AsSucceeded(c) # NoRecord
            /\ AsSucceeded(c).id = rec.id /\ AsSucceeded(c).fp = rec.fp
            /\ AsSucceeded(c).status = "succeeded" /\ AsSucceeded(c).body = c
            /\ AsSucceeded(c).expires = TTL - age[c]
<1>1. TTL - age[c] \in Deadlines
  BY DeadlineFacts DEF TypeOK
<1>2. CASE IsRecord(rec, own[c])
  <2>1. rec \in Records /\ rec.id = own[c]
    BY <1>2 DEF IsRecord, TypeOK
  <2> QED
    BY <1>1, <2>1, SucceededRecord, IdempotencyAssumption DEF AsSucceeded
<1>3. CASE ~ IsRecord(rec, own[c])
  BY <1>3 DEF AsSucceeded, Succeeded
<1> QED
  BY <1>2, <1>3

LEMMA FailedRecord ==
  ASSUME NEW r \in Records, NEW l \in Deadlines, NEW e \in Deadlines
  PROVE  /\ Failed(r, r.id, l, e) \in Records
         /\ Failed(r, r.id, l, e).id = r.id /\ Failed(r, r.id, l, e).fp = r.fp
         /\ Failed(r, r.id, l, e).status = "failed_retryable"
<1>1. "failed_retryable" \in Statuses /\ r # NoRecord
  BY IdempotencyAssumption DEF Statuses
<1> QED
  BY <1>1, Zenon DEF Failed, IsRecord, Records

Marked(c) == Failed(rec, own[c], Backoff, TTL - age[c])

LEMMA FailedFacts ==
  ASSUME TypeOK, NEW c \in Calls
  PROVE  \/ Marked(c) = rec
         \/ /\ rec \in Records /\ rec.id = own[c]
            /\ Marked(c) \in Records /\ Marked(c) # NoRecord
            /\ Marked(c).id = rec.id /\ Marked(c).fp = rec.fp
            /\ Marked(c).status = "failed_retryable"
<1>1. TTL - age[c] \in Deadlines
  BY DeadlineFacts DEF TypeOK
<1>2. CASE IsRecord(rec, own[c])
  <2>1. rec \in Records /\ rec.id = own[c]
    BY <1>2 DEF IsRecord, TypeOK
  <2>2. Backoff \in Deadlines
    BY DeadlineFacts
  <2> DEFINE marked == Failed(rec, rec.id, Backoff, TTL - age[c])
  <2>3. /\ marked \in Records /\ marked.id = rec.id /\ marked.fp = rec.fp
        /\ marked.status = "failed_retryable"
    BY <1>1, <2>1, <2>2, FailedRecord
  <2>4. Marked(c) = marked
    BY <2>1 DEF Marked
  <2> HIDE DEF marked
  <2> QED
    BY <2>1, <2>3, <2>4, IdempotencyAssumption
<1>3. CASE ~ IsRecord(rec, own[c])
  BY <1>3 DEF Marked, Failed
<1> QED
  BY <1>2, <1>3

LEMMA AgedRecord ==
  ASSUME NEW r \in Records
  PROVE  /\ Aged(r) \in Records
         /\ Aged(r).id = r.id /\ Aged(r).fp = r.fp
         /\ Aged(r).status = r.status /\ Aged(r).body = r.body
         /\ Aged(r).lock = Later(r.lock) /\ Aged(r).expires = Later(r.expires)
<1>1. r # NoRecord /\ Later(r.lock) \in Deadlines /\ Later(r.expires) \in Deadlines
  BY DeadlineFacts, IdempotencyAssumption DEF Records
<1> QED
  BY <1>1, Zenon DEF Aged, Records

LEMMA AgedFacts ==
  ASSUME TypeOK
  PROVE  \/ rec = NoRecord /\ Aged(rec) = NoRecord
         \/ /\ rec \in Records /\ Aged(rec) \in Records /\ Aged(rec) # NoRecord
            /\ Aged(rec).id = rec.id /\ Aged(rec).fp = rec.fp
            /\ Aged(rec).status = rec.status /\ Aged(rec).body = rec.body
            /\ Aged(rec).lock = Later(rec.lock) /\ Aged(rec).expires = Later(rec.expires)
<1>1. rec \in Records \cup {NoRecord}
  BY DEF TypeOK
<1> QED
  BY <1>1, AgedRecord, IdempotencyAssumption DEF Aged

\* What a statement that is executed, or not, may leave behind.
LEMMA StatementTypes ==
  ASSUME TypeOK, NEW c \in Calls
  PROVE  /\ NewRecord(c) \in Records
         /\ Taken(c) => AsMine(c) \in Records
         /\ AsSucceeded(c) \in Records \cup {NoRecord}
         /\ Marked(c) \in Records \cup {NoRecord}
<1>1. rec \in Records \cup {NoRecord}
  BY DEF TypeOK
<1>2. Taken(c) => rec \in Records
  BY <1>1 DEF Taken, CanReclaim
<1> QED
  BY <1>1, <1>2, CreatedFacts, ReclaimedFacts, SucceededFacts, FailedFacts

-------------------------------------------------------------------------------
LEMMA InitTypeOK == Init => TypeOK
<1> SUFFICES ASSUME Init PROVE TypeOK
  OBVIOUS
<1>1. /\ age \in [Calls -> 0..MaxAge] /\ faults \in 0..MaxFaults /\ crashes \in 0..MaxCrashes
      /\ memory \in Deadlines
  BY RecordsAssumption, IdempotencyAssumption, DeadlineFacts DEF Init
<1>2. /\ pc \in [Calls -> PCs] /\ from \in [Calls -> Statuses]
      /\ answer \in [Calls -> Answers \cup Calls] /\ own \in [Calls -> Calls \cup {NoCall}]
  BY DEF Init, PCs, Statuses, Answers
<1> QED
  BY <1>1, <1>2 DEF Init, TypeOK

LEMMA WorkKeepsTypeOK ==
  ASSUME TypeOK, NEW c \in Calls, Work(c), UNCHANGED payload
  PROVE  TypeOK'
<1> USE DEF TypeOK, PCs
<1>1. rec' \in Records \cup {NoRecord}
  <2>1. CASE CreateProcessing(c)
    BY <2>1, StatementTypes DEF CreateProcessing, Unavailable
  <2>2. CASE GetExisting(c) \/ GetLatest(c) \/ ExecuteOK(c) \/ ExecuteFails(c)
    BY <2>2 DEF GetExisting, GetLatest, ExecuteOK, ExecuteFails
  <2>3. CASE TryReclaim(c)
    BY <2>3, StatementTypes DEF TryReclaim, Unavailable
  <2>4. CASE MarkSucceeded(c)
    BY <2>4, StatementTypes DEF MarkSucceeded, Unavailable
  <2>5. CASE MarkFailed(c)
    BY <2>5, StatementTypes DEF MarkFailed, Marked
  <2> QED
    BY <2>1, <2>2, <2>3, <2>4, <2>5 DEF Work
<1>2. faults' \in 0..MaxFaults
  <2>1. UNCHANGED faults \/ Fault
    BY DEF Work, CreateProcessing, GetExisting, GetLatest, TryReclaim, ExecuteOK, ExecuteFails,
           MarkSucceeded, MarkFailed, Unavailable, CallOK, CallFails, Judge, Return
  <2> QED
    BY <2>1, IdempotencyAssumption DEF Fault
<1>3. pc' \in [Calls -> PCs] /\ answer' \in [Calls -> Answers \cup Calls]
  <2>1. CASE GetExisting(c) \/ GetLatest(c)
    <3>1. rec \in Records => rec.body \in Calls
      BY DEF Records
    <3> QED
      BY <2>1, <3>1 DEF GetExisting, GetLatest, Judge, TakeOver, Return, Go, Answers
  <2>2. CASE ~ (GetExisting(c) \/ GetLatest(c))
    BY <2>2 DEF Work, CreateProcessing, TryReclaim, ExecuteOK, ExecuteFails,
           MarkSucceeded, MarkFailed, Unavailable, Return, Go, Answers
  <2> QED
    BY <2>1, <2>2
<1>4. own' \in [Calls -> Calls \cup {NoCall}] /\ from' \in [Calls -> Statuses]
  <2>1. rec \in Records => rec.id \in Calls /\ rec.status \in Statuses
    BY DEF Records
  <2> QED
    BY <2>1 DEF Work, CreateProcessing, GetExisting, GetLatest, TryReclaim, ExecuteOK, ExecuteFails,
           MarkSucceeded, MarkFailed, Unavailable, Judge, TakeOver
<1>5. /\ UNCHANGED <<payload, age, gone, crashes>>
      /\ applied' \subseteq Calls /\ memory' \in Deadlines
      /\ halfway' \in BOOLEAN /\ overtaken' \in BOOLEAN
  BY DeadlineFacts
     DEF Work, CreateProcessing, GetExisting, GetLatest, TryReclaim, ExecuteOK, ExecuteFails,
         MarkSucceeded, MarkFailed, Effect, history
<1> QED
  BY <1>1, <1>2, <1>3, <1>4, <1>5

LEMMA NextKeepsTypeOK ==
  ASSUME TypeOK, [Next]_vars
  PROVE  TypeOK'
<1>1. ASSUME NEW c \in Calls, Work(c), UNCHANGED payload PROVE TypeOK'
  BY <1>1, WorkKeepsTypeOK
<1>2. ASSUME NEW c \in Calls, Start(c) \/ ClientLeaves(c) \/ Crash(c), UNCHANGED payload
      PROVE  TypeOK'
  <2>1. pc' \in [Calls -> PCs] /\ gone' \in [Calls -> BOOLEAN]
    BY <1>2 DEF TypeOK, Start, ClientLeaves, Crash, Go, PCs
  <2>2. crashes' \in 0..MaxCrashes
    <3>1. crashes' = crashes \/ (crashes < MaxCrashes /\ crashes' = crashes + 1)
      BY <1>2 DEF Start, ClientLeaves, Crash
    <3> QED
      BY <3>1, IdempotencyAssumption DEF TypeOK
  <2>3. /\ applied' \subseteq Calls /\ memory' \in Deadlines
        /\ halfway' \in BOOLEAN /\ overtaken' \in BOOLEAN
    BY <1>2, DeadlineFacts DEF TypeOK, Start, ClientLeaves, Crash, Effect, history
  <2> QED
    BY <1>2, <2>1, <2>2, <2>3 DEF TypeOK, Start, ClientLeaves, Crash
<1>3. ASSUME Cleanup, UNCHANGED payload PROVE TypeOK'
  BY <1>3 DEF TypeOK, Cleanup, history
<1>4. ASSUME Tick, UNCHANGED payload PROVE TypeOK'
  <2>1. age' \in [Calls -> 0..MaxAge]
    BY <1>4, RecordsAssumption DEF Tick, TypeOK
  <2>2. rec' \in Records \cup {NoRecord} /\ memory' \in Deadlines
    BY <1>4, AgedFacts, DeadlineFacts DEF Tick, TypeOK
  <2> QED
    BY <1>4, <2>1, <2>2 DEF Tick, TypeOK
<1>5. CASE UNCHANGED vars
  BY <1>5 DEF vars, TypeOK
<1> QED
  BY <1>1, <1>2, <1>3, <1>4, <1>5 DEF Next

\* The state stays in its types, whatever the limits are.
THEOREM TypeCorrect == Spec => []TypeOK
BY InitTypeOK, NextKeepsTypeOK, PTL DEF Spec

-------------------------------------------------------------------------------
(***************************************************************************)
(* Replays.                                                                *)
(***************************************************************************)
\* This holds whatever the TTL and the lease are.
Truthful == SamePayload /\ BodyApplied /\ ReplayTruthful

\* The record is inserted or taken over, by a call that goes on to execute or is
\* told that the database is unavailable; or it stays.
LEMMA ClaimKeepsTruthful ==
  ASSUME TypeOK, Truthful, NEW c \in Calls, CreateProcessing(c) \/ TryReclaim(c),
         UNCHANGED payload
  PROVE  Truthful'
<1>1. \/ rec' = rec
      \/ rec' = NewRecord(c) /\ rec = NoRecord
      \/ rec' = AsMine(c) /\ rec \in Records
  BY DEF CreateProcessing, TryReclaim, Unavailable, Taken, CanReclaim, TypeOK
<1>2. own' = own \/ own' = [own EXCEPT ![c] = c]
  BY DEF CreateProcessing, TryReclaim, Unavailable
<1>3. /\ answer' = answer \/ \E a \in {"unavailable", "in_progress"} : answer' = [answer EXCEPT ![c] = a]
      /\ \E p \in {"execute", "get", "getLatest", "done"} : pc' = [pc EXCEPT ![c] = p]
      /\ applied' = applied
  BY DEF CreateProcessing, TryReclaim, Unavailable, Return, Go, history
<1>4. SamePayload'
  <2>1. rec' # NoRecord => rec'.fp = payload[rec'.id]
    <3>1. CASE rec' = NewRecord(c)
      BY <3>1, CreatedFacts
    <3>2. CASE rec' = AsMine(c) /\ rec \in Records
      <4>1. rec'.fp = rec.fp /\ rec'.id = rec.id /\ rec # NoRecord
        BY <3>2, ReclaimedFacts, IdempotencyAssumption
      <4> QED
        BY <4>1 DEF Truthful, SamePayload
    <3>3. CASE rec' = rec
      BY <3>3 DEF Truthful, SamePayload
    <3> QED
      BY <1>1, <3>1, <3>2, <3>3
  <2>2. \A d \in Calls : own'[d] # NoCall => payload[own'[d]] = payload[d]
    BY <1>2 DEF Truthful, SamePayload, TypeOK
  <2> QED
    BY <2>1, <2>2 DEF SamePayload
<1>5. BodyApplied'
  <2>1. rec' = rec \/ rec'.status = "processing"
    BY <1>1, CreatedFacts, ReclaimedFacts
  <2>2. \A d \in Calls : pc'[d] = "markSucceeded" => pc[d] = "markSucceeded"
    BY <1>3 DEF TypeOK
  <2> QED
    BY <1>3, <2>1, <2>2 DEF Truthful, BodyApplied
<1>6. ReplayTruthful'
  BY <1>3, IdempotencyAssumption DEF Truthful, ReplayTruthful, TypeOK, Answers
<1> QED
  BY <1>4, <1>5, <1>6 DEF Truthful

\* A record is read: the call is answered, or takes note of whose record it is.
LEMMA ReadKeepsTruthful ==
  ASSUME TypeOK, Truthful, NEW c \in Calls, GetExisting(c) \/ GetLatest(c), UNCHANGED payload
  PROVE  Truthful'
<1>1. rec' = rec /\ applied' = applied
  BY DEF GetExisting, GetLatest, history
<1>2. \/ UNCHANGED own
      \/ rec # NoRecord /\ rec.fp = payload[c] /\ own' = [own EXCEPT ![c] = rec.id]
  BY DEF GetExisting, GetLatest, Judge, TakeOver, SameRequest
<1>3. \/ UNCHANGED answer
      \/ \E a \in {"conflict", "unavailable", "in_progress", "backoff"} : answer' = [answer EXCEPT ![c] = a]
      \/ /\ rec # NoRecord /\ rec.fp = payload[c] /\ rec.status = "succeeded"
         /\ answer' = [answer EXCEPT ![c] = rec.body]
  BY DEF GetExisting, GetLatest, Judge, TakeOver, Return, SameRequest
<1>4. \E p \in {"done", "reclaimExpired", "reclaimFailed"} : pc' = [pc EXCEPT ![c] = p]
  BY DEF GetExisting, GetLatest, Judge, TakeOver, Return, Go
<1>5. SamePayload'
  BY <1>1, <1>2 DEF Truthful, SamePayload, TypeOK
<1>6. BodyApplied'
  BY <1>1, <1>4 DEF Truthful, BodyApplied, TypeOK
<1>7. ReplayTruthful'
  BY <1>1, <1>3, IdempotencyAssumption DEF Truthful, ReplayTruthful, BodyApplied, TypeOK, Answers
<1> QED
  BY <1>5, <1>6, <1>7 DEF Truthful

LEMMA ExecuteKeepsTruthful ==
  ASSUME TypeOK, Truthful, NEW c \in Calls, ExecuteOK(c) \/ ExecuteFails(c), UNCHANGED payload
  PROVE  Truthful'
<1>1. /\ UNCHANGED <<rec, own>>
      /\ UNCHANGED answer \/ answer' = [answer EXCEPT ![c] = "unavailable"]
      /\ \/ \E p \in {"done", "markFailed"} : pc' = [pc EXCEPT ![c] = p]
         \/ pc' = [pc EXCEPT ![c] = "markSucceeded"] /\ c \in applied'
      /\ applied \subseteq applied'
  BY DEF ExecuteOK, ExecuteFails, Return, Go, history
<1> QED
  BY <1>1, IdempotencyAssumption
     DEF Truthful, SamePayload, BodyApplied, ReplayTruthful, TypeOK, Answers

LEMMA MarkKeepsTruthful ==
  ASSUME TypeOK, Truthful, NEW c \in Calls, MarkSucceeded(c) \/ MarkFailed(c), UNCHANGED payload
  PROVE  Truthful'
<1>1. /\ UNCHANGED <<own, applied>>
      /\ \E a \in {"ok", "unavailable", "failed"} : answer' = [answer EXCEPT ![c] = a]
      /\ pc' = [pc EXCEPT ![c] = "done"]
  BY DEF MarkSucceeded, MarkFailed, Unavailable, Return, Go, history
<1>2. \/ rec' = rec
      \/ rec' = AsSucceeded(c) /\ pc[c] = "markSucceeded"
      \/ rec' = Marked(c)
  BY DEF MarkSucceeded, MarkFailed, Unavailable, Marked
<1>3. rec' = rec \/ /\ rec # NoRecord /\ rec' # NoRecord
                    /\ rec'.id = rec.id /\ rec'.fp = rec.fp
                    /\ \/ rec'.status = "failed_retryable"
                       \/ rec'.body = c /\ c \in applied /\ rec.id = own[c]
  BY <1>2, SucceededFacts, FailedFacts, IdempotencyAssumption DEF Truthful, BodyApplied
<1>4. SamePayload'
  BY <1>1, <1>3 DEF Truthful, SamePayload
<1>5. BodyApplied'
  <2>1. rec' # NoRecord /\ rec'.status = "succeeded" =>
           rec'.body \in applied /\ payload[rec'.body] = rec'.fp
    <3>1. CASE rec' = rec
      BY <3>1 DEF Truthful, BodyApplied
    <3>2. CASE rec' # rec
      <4>1. own[c] \in Calls => payload[own[c]] = payload[c]
        BY IdempotencyAssumption DEF Truthful, SamePayload
      <4>2. rec \in Records => rec.id \in Calls
        BY DEF Records
      <4> QED
        BY <1>3, <3>2, <4>1, <4>2 DEF Truthful, SamePayload, TypeOK
    <3> QED
      BY <3>1, <3>2
  <2>2. \A d \in Calls : pc'[d] = "markSucceeded" => d \in applied
    BY <1>1 DEF Truthful, BodyApplied, TypeOK
  <2> QED
    BY <1>1, <2>1, <2>2 DEF BodyApplied
<1>6. ReplayTruthful'
  BY <1>1, IdempotencyAssumption DEF Truthful, ReplayTruthful, TypeOK, Answers
<1> QED
  BY <1>4, <1>5, <1>6 DEF Truthful

LEMMA NextKeepsTruthful ==
  ASSUME TypeOK, Truthful, [Next]_vars
  PROVE  Truthful'
<1>1. ASSUME NEW c \in Calls, Work(c), UNCHANGED payload PROVE Truthful'
  BY <1>1, ClaimKeepsTruthful, ReadKeepsTruthful, ExecuteKeepsTruthful, MarkKeepsTruthful DEF Work
<1>2. ASSUME NEW c \in Calls, Start(c) \/ ClientLeaves(c) \/ Crash(c), UNCHANGED payload
      PROVE  Truthful'
  <2>1. UNCHANGED <<rec, own, answer, applied>>
    BY <1>2 DEF Start, ClientLeaves, Crash, history
  <2>2. \A d \in Calls : pc'[d] = "markSucceeded" => pc[d] = "markSucceeded"
    BY <1>2 DEF Start, ClientLeaves, Crash, Go, TypeOK
  <2> QED
    BY <1>2, <2>1, <2>2 DEF Truthful, SamePayload, BodyApplied, ReplayTruthful
<1>3. ASSUME Cleanup, UNCHANGED payload PROVE Truthful'
  BY <1>3 DEF Cleanup, history, Truthful, SamePayload, BodyApplied, ReplayTruthful
<1>4. ASSUME Tick, UNCHANGED payload PROVE Truthful'
  <2>1. rec' = Aged(rec) /\ UNCHANGED <<own, answer, applied, pc>>
    BY <1>4 DEF Tick
  <2>2. \/ rec' = NoRecord
        \/ /\ rec # NoRecord /\ rec'.id = rec.id /\ rec'.fp = rec.fp
           /\ rec'.status = rec.status /\ rec'.body = rec.body
    BY <2>1, AgedFacts, IdempotencyAssumption
  <2> QED
    BY <1>4, <2>1, <2>2 DEF Truthful, SamePayload, BodyApplied, ReplayTruthful
<1>5. CASE UNCHANGED vars
  BY <1>5 DEF vars, Truthful, SamePayload, BodyApplied, ReplayTruthful
<1> QED
  BY <1>1, <1>2, <1>3, <1>4, <1>5 DEF Next

\* A call is never answered with the result of a request with another payload, nor
\* with one whose effect was not applied: whatever failed, expired or was taken over.
THEOREM RepliesAreTrue == Spec => []ReplayTruthful
<1>1. Init => Truthful
  BY IdempotencyAssumption
     DEF Init, Truthful, SamePayload, BodyApplied, ReplayTruthful, Answers
<1>2. TypeOK /\ Truthful /\ [Next]_vars => Truthful'
  BY NextKeepsTruthful
<1>3. Truthful => ReplayTruthful
  BY DEF Truthful
<1> QED
  BY <1>1, <1>2, <1>3, TypeCorrect, PTL DEF Spec

-------------------------------------------------------------------------------
(***************************************************************************)
(* One call at a time.                                                     *)
(***************************************************************************)
LEMMA Ages ==
  ASSUME TypeOK
  PROVE  /\ TTL \in Nat /\ Lease \in Nat /\ MaxAge \in Nat /\ MaxClaim \in Nat /\ Past = -MaxAge
         /\ \A c \in Calls : age[c] \in Nat /\ age[c] <= MaxAge /\ -age[c] <= 0
         /\ rec # NoRecord => rec \in Records /\ rec.lock \in Int /\ rec.expires \in Int
         /\ memory \in Int
<1>1. Deadlines \subseteq Int
  BY RecordsAssumption DEF Deadlines
<1>2. rec # NoRecord => rec \in Records /\ rec.lock \in Int /\ rec.expires \in Int
  BY <1>1 DEF TypeOK, Records
<1>3. TTL \in Nat /\ Lease \in Nat /\ MaxAge \in Nat /\ MaxClaim \in Nat /\ Past = -MaxAge
  BY RecordsAssumption, IdempotencyAssumption DEF Past
<1>4. ASSUME NEW c \in Calls PROVE age[c] \in Nat /\ age[c] <= MaxAge /\ -age[c] <= 0
  <2>1. age[c] \in 0..MaxAge
    BY DEF TypeOK
  <2> QED
    BY <1>3, <2>1
<1>5. memory \in Int
  BY <1>1 DEF TypeOK
<1> QED
  BY <1>2, <1>3, <1>4, <1>5

\* Nobody executes while somebody else claims.
LEMMA ClaimerIsAlone ==
  ASSUME IInv, InTime, NEW c \in Calls,
         rec = NoRecord \/ (Taken(c) /\ pc[c] \in {"reclaimExpired", "reclaimFailed"})
  PROVE  Claimed = {}
<1> SUFFICES ASSUME NEW d \in Claimed PROVE FALSE
  OBVIOUS
<1>1. d \in Calls /\ rec # NoRecord /\ rec.status = "processing" /\ rec.expires = TTL - age[d]
  BY DEF IInv, Exclusive, Holds, Claimed
<1>2. Taken(c) /\ from[c] = "processing" /\ rec.id = own[c] /\ rec.lock <= -age[c]
  BY <1>1 DEF Taken, CanReclaim
<1>3. pc[c] = "reclaimExpired"
  BY <1>1, <1>2 DEF IInv, Exclusive, FailedReaders
<1>4. rec.expires <= -age[c] \/ rec.lock > -age[c]
  BY <1>1, <1>2, <1>3 DEF IInv, Exclusive, StaleReaders
<1> QED
  BY <1>1, <1>2, <1>4, Ages DEF InTime, IInv

\* What a claim leaves behind is locked for everybody who read the record before.
LEMMA ClaimLocks ==
  ASSUME IInv, InTime, NEW c \in Calls, c \in Claiming, Lease - age[c] = rec'.lock,
         UNCHANGED age, NEW d \in Calls
  PROVE  rec'.lock > -age'[d]
BY Ages DEF IInv, Exclusive, Prompt, InTime

LEMMA CreateKeepsExclusive ==
  ASSUME IInv, InTime, NEW c \in Calls, CreateProcessing(c)
  PROVE  Exclusive'
<1> USE DEF IInv, Exclusive
<1>1. /\ c \in Claiming /\ c \notin Claimed /\ pc[c] = "create"
      /\ UNCHANGED <<age, from, memory, halfway, overtaken>>
  BY DEF CreateProcessing, Claiming, Claimed, history
<1>2. PICK p \in {"execute", "get", "done"} : pc' = [pc EXCEPT ![c] = p]
  BY DEF CreateProcessing, Unavailable, Return, Go
<1>3. pc'[c] = p /\ \A d \in Calls \ {c} : pc'[d] = pc[d]
  BY <1>2 DEF TypeOK
<1>4. \/ /\ rec = NoRecord /\ rec' = NewRecord(c)
         /\ (p = "execute" /\ own' = [own EXCEPT ![c] = c]) \/ (p = "done" /\ own' = own)
      \/ rec' = rec /\ own' = own /\ p # "execute"
  BY <1>3 DEF CreateProcessing, Unavailable, Return, Go, TypeOK
<1>5. Claimed' = IF p = "execute" THEN Claimed \cup {c} ELSE Claimed
  BY <1>1, <1>3 DEF Claimed
<1>6. FailedReaders' /\ Prompt'
  BY <1>1, <1>3 DEF FailedReaders, Prompt, Claiming
<1>7. Holds' /\ Alone'
  <2>1. CASE rec' = rec /\ own' = own /\ p # "execute"
    BY <1>1, <1>5, <2>1 DEF Holds, Alone
  <2>2. CASE rec = NoRecord /\ rec' = NewRecord(c)
    <3>1. Claimed' \subseteq {c}
      BY <1>5, <2>2, ClaimerIsAlone
    <3>2. c \in Claimed' => own'[c] = c
      BY <1>1, <1>4, <1>5, <2>2, ClaimerIsAlone DEF TypeOK
    <3> QED
      BY <1>1, <2>2, <3>1, <3>2, CreatedFacts DEF Holds, Alone
  <2> QED
    BY <1>4, <2>1, <2>2
<1>8. StaleReaders'
  <2> SUFFICES ASSUME NEW d \in Calls, pc'[d] = "reclaimExpired", from'[d] = "processing",
                      rec' # NoRecord, rec'.id = own'[d], rec'.status = "processing"
               PROVE  rec'.expires <= -age'[d] \/ rec'.lock > -age'[d]
    BY DEF StaleReaders
  <2>1. d # c /\ pc[d] = "reclaimExpired" /\ own'[d] = own[d]
    BY <1>3, <1>4 DEF TypeOK
  <2>2. CASE rec' = rec
    BY <1>1, <2>1, <2>2 DEF StaleReaders
  <2>3. CASE rec' = NewRecord(c)
    BY <1>1, <2>3, CreatedFacts, ClaimLocks
  <2> QED
    BY <1>4, <2>2, <2>3
<1>9. Remembered'
  BY <1>1, <1>3, <1>4 DEF Remembered
<1> QED
  BY <1>6, <1>7, <1>8, <1>9

LEMMA ReadKeepsExclusive ==
  ASSUME IInv, NEW c \in Calls, GetExisting(c) \/ GetLatest(c)
  PROVE  Exclusive'
<1> USE DEF IInv, Exclusive
<1>1. /\ c \in Claiming /\ c \notin Claimed /\ UNCHANGED <<rec, age, memory, halfway, overtaken>>
  BY DEF GetExisting, GetLatest, Claiming, Claimed, history
<1>2. PICK p \in {"done", "reclaimExpired", "reclaimFailed"} : pc' = [pc EXCEPT ![c] = p]
  BY DEF GetExisting, GetLatest, Judge, TakeOver, Return, Go
<1>3. pc'[c] = p /\ \A d \in Calls \ {c} : pc'[d] = pc[d]
  BY <1>2 DEF TypeOK
<1>4. /\ p = "done" => UNCHANGED <<own, from>>
      /\ p # "done" => /\ rec # NoRecord /\ own' = [own EXCEPT ![c] = rec.id]
                       /\ from' = [from EXCEPT ![c] = rec.status]
                       /\ p = "reclaimExpired" => rec.expires <= -age[c]
                       /\ p = "reclaimFailed" => rec.status \notin {"processing", "succeeded"}
  BY <1>3 DEF GetExisting, GetLatest, Judge, TakeOver, Return, Go, Busy, TypeOK
<1>5. \A d \in Calls \ {c} : own'[d] = own[d] /\ from'[d] = from[d]
  BY <1>4 DEF TypeOK
<1>6. Claimed' = Claimed
  BY <1>1, <1>3 DEF Claimed
<1>7. Holds' /\ Alone'
  BY <1>1, <1>5, <1>6 DEF Holds, Alone, Claimed
<1>8. StaleReaders'
  BY <1>1, <1>3, <1>4, <1>5 DEF StaleReaders
<1>9. FailedReaders'
  <2>1. rec # NoRecord => rec.status \in Statuses
    BY DEF TypeOK, Records
  <2>2. p = "reclaimFailed" => from'[c] = "failed_retryable"
    BY <1>4, <2>1 DEF TypeOK, Statuses
  <2> QED
    BY <1>3, <1>5, <2>2 DEF FailedReaders
<1>10. Remembered' /\ Prompt'
  BY <1>1, <1>3 DEF Remembered, Prompt, Claiming
<1> QED
  BY <1>7, <1>8, <1>9, <1>10

LEMMA ReclaimKeepsExclusive ==
  ASSUME IInv, InTime, NEW c \in Calls, TryReclaim(c)
  PROVE  Exclusive'
<1> USE DEF IInv, Exclusive
<1>1. /\ c \in Claiming /\ c \notin Claimed /\ pc[c] \in {"reclaimExpired", "reclaimFailed"}
      /\ UNCHANGED <<own, age, from, memory, halfway>>
  BY DEF TryReclaim, Unavailable, Claiming, Claimed
<1>2. PICK p \in {"execute", "getLatest", "done"} : pc' = [pc EXCEPT ![c] = p]
  BY DEF TryReclaim, Unavailable, Return, Go
<1>3. pc'[c] = p /\ \A d \in Calls \ {c} : pc'[d] = pc[d]
  BY <1>2 DEF TypeOK
<1>4. \/ Taken(c) /\ rec' = AsMine(c)
      \/ rec' = rec /\ p # "execute"
  BY <1>3 DEF TryReclaim, Unavailable, Return, Go, TypeOK
<1>5. Taken(c) => rec # NoRecord /\ rec.id = own[c] /\ rec.status = from[c] /\ rec.lock <= -age[c]
  BY DEF Taken, CanReclaim
<1>6. overtaken' = (overtaken \/ (rec' # rec /\ from[c] = "succeeded" /\ rec.expires > -age[c]))
  BY DEF TryReclaim
<1>7. Claimed' = IF p = "execute" THEN Claimed \cup {c} ELSE Claimed
  BY <1>1, <1>3 DEF Claimed
<1>8. FailedReaders' /\ Prompt'
  BY <1>1, <1>3 DEF FailedReaders, Prompt, Claiming
<1>9. Taken(c) => AsMine(c) # NoRecord /\ AsMine(c).id = own[c] /\ AsMine(c).status = "processing"
                  /\ AsMine(c).lock = Lease - age[c] /\ AsMine(c).expires = TTL - age[c]
  BY <1>5, ReclaimedFacts DEF TypeOK
<1>10. Holds' /\ Alone'
  <2>1. CASE rec' = rec /\ p # "execute"
    BY <1>1, <1>7, <2>1 DEF Holds, Alone
  <2>2. CASE Taken(c) /\ rec' = AsMine(c)
    <3>1. Claimed' \subseteq {c}
      BY <1>1, <1>7, <2>2, ClaimerIsAlone
    <3> QED
      BY <1>1, <1>9, <2>2, <3>1 DEF Holds, Alone
  <2> QED
    BY <1>4, <2>1, <2>2
<1>11. StaleReaders'
  <2> SUFFICES ASSUME NEW d \in Calls, pc'[d] = "reclaimExpired", from'[d] = "processing",
                      rec' # NoRecord, rec'.id = own'[d], rec'.status = "processing"
               PROVE  rec'.expires <= -age'[d] \/ rec'.lock > -age'[d]
    BY DEF StaleReaders
  <2>1. d # c /\ pc[d] = "reclaimExpired"
    BY <1>3
  <2>2. CASE rec' = rec
    BY <1>1, <2>1, <2>2 DEF StaleReaders
  <2>3. CASE Taken(c) /\ rec' = AsMine(c)
    BY <1>1, <1>9, <2>3, ClaimLocks
  <2> QED
    BY <1>4, <2>2, <2>3
<1>12. Remembered'
  <2> SUFFICES ASSUME memory > 0, ~halfway, ~overtaken'
               PROVE  /\ rec' # NoRecord /\ rec'.expires >= memory
                      /\ rec'.status \in {"processing", "succeeded"}
                      /\ \A d \in Calls : pc'[d] \notin {"execute", "markFailed"}
    BY <1>1 DEF Remembered
  <2>1. /\ ~overtaken /\ rec # NoRecord /\ rec.expires >= memory
        /\ rec.status \in {"processing", "succeeded"}
        /\ \A d \in Calls : pc[d] \notin {"execute", "markFailed"}
    BY <1>6 DEF Remembered
  <2>2. rec.expires > -age[c] /\ ~(rec.expires <= -age[c])
    BY <2>1, Ages
  <2>3. ASSUME Taken(c), rec' = AsMine(c) PROVE FALSE
    <3>1. CASE rec.status = "succeeded"
      <4>1. rec' # rec
        BY <1>9, <2>3, <3>1
      <4> QED
        BY <1>5, <1>6, <2>2, <2>3, <3>1, <4>1
    <3>2. CASE rec.status = "processing"
      <4>1. pc[c] = "reclaimExpired"
        BY <1>1, <1>5, <2>3, <3>2 DEF FailedReaders
      <4>2. rec.lock > -age[c]
        BY <1>5, <2>1, <2>2, <2>3, <3>2, <4>1 DEF StaleReaders
      <4> QED
        BY <1>5, <2>1, <2>3, <4>2, Ages
    <3> QED
      BY <2>1, <3>1, <3>2
  <2>4. rec' = rec /\ p # "execute"
    BY <1>4, <2>3
  <2> QED
    BY <1>3, <2>1, <2>4
<1> QED
  BY <1>8, <1>10, <1>11, <1>12

LEMMA ExecuteKeepsExclusive ==
  ASSUME IInv, NEW c \in Calls, ExecuteOK(c) \/ ExecuteFails(c)
  PROVE  Exclusive'
<1> USE DEF IInv, Exclusive
<1>1. c \in Claimed /\ pc[c] = "execute" /\ UNCHANGED <<rec, own, age, from>>
  BY DEF ExecuteOK, ExecuteFails, Claimed
<1>2. PICK p \in {"markSucceeded", "markFailed", "done"} : pc' = [pc EXCEPT ![c] = p]
  BY DEF ExecuteOK, ExecuteFails, Return, Go
<1>3. pc'[c] = p /\ \A d \in Calls \ {c} : pc'[d] = pc[d]
  BY <1>2 DEF TypeOK
<1>4. \/ p = "markFailed" /\ (UNCHANGED <<memory, halfway, overtaken>> \/ halfway')
      \/ p # "markFailed" /\ memory' = TTL - age[c]
  BY <1>3 DEF ExecuteOK, ExecuteFails, Effect, Return, Go, history, TypeOK
<1>5. Claimed' \subseteq Claimed
  BY <1>1, <1>3 DEF Claimed
<1>6. Holds' /\ Alone'
  BY <1>1, <1>5 DEF Holds, Alone, Claimed
<1>7. StaleReaders' /\ FailedReaders' /\ Prompt'
  BY <1>1, <1>3 DEF StaleReaders, FailedReaders, Prompt, Claiming
<1>8. Remembered'
  <2>1. CASE p = "markFailed" /\ (UNCHANGED <<memory, halfway, overtaken>> \/ halfway')
    BY <1>1, <2>1 DEF Remembered
  <2>2. CASE p # "markFailed" /\ memory' = TTL - age[c]
    <3>1. rec # NoRecord /\ rec.status = "processing" /\ rec.expires = TTL - age[c]
      BY <1>1 DEF Holds
    <3>2. \A d \in Calls : pc[d] \in {"execute", "markFailed"} => d = c
      BY <1>1 DEF Alone, Claimed
    <3>3. \A d \in Calls : pc'[d] \notin {"execute", "markFailed"}
      BY <1>3, <2>2, <3>2
    <3> QED
      BY <1>1, <2>2, <3>1, <3>3, Ages DEF Remembered
  <2> QED
    BY <1>4, <2>1, <2>2
<1> QED
  BY <1>6, <1>7, <1>8

LEMMA MarkKeepsExclusive ==
  ASSUME IInv, NEW c \in Calls, MarkSucceeded(c) \/ MarkFailed(c)
  PROVE  Exclusive'
<1> USE DEF IInv, Exclusive
<1>1. /\ c \in Claimed /\ UNCHANGED <<own, age, from, memory, halfway, overtaken>>
      /\ pc' = [pc EXCEPT ![c] = "done"]
  BY DEF MarkSucceeded, MarkFailed, Unavailable, Return, Go, Claimed, history
<1>2. pc'[c] = "done" /\ \A d \in Calls \ {c} : pc'[d] = pc[d]
  BY <1>1 DEF TypeOK
<1>3. Claimed' = {}
  BY <1>1, <1>2 DEF Claimed, Alone
<1>4. rec' = rec \/ (rec' = AsSucceeded(c) /\ pc[c] = "markSucceeded")
                 \/ (rec' = Marked(c) /\ pc[c] = "markFailed")
  BY DEF MarkSucceeded, MarkFailed, Unavailable, Marked
<1>5. Holds' /\ Alone'
  BY <1>3 DEF Holds, Alone
<1>6. FailedReaders' /\ Prompt'
  BY <1>1, <1>2 DEF FailedReaders, Prompt, Claiming, Claimed
<1>7. rec' = rec \/ rec'.status # "processing"
  BY <1>4, SucceededFacts, FailedFacts
<1>8. StaleReaders'
  BY <1>1, <1>2, <1>7 DEF StaleReaders
<1>9. Remembered'
  <2> SUFFICES ASSUME memory > 0, ~halfway, ~overtaken
               PROVE  /\ rec' # NoRecord /\ rec'.expires >= memory
                      /\ rec'.status \in {"processing", "succeeded"}
                      /\ \A d \in Calls : pc'[d] \notin {"execute", "markFailed"}
    BY <1>1 DEF Remembered
  <2>1. /\ rec # NoRecord /\ rec.expires >= memory /\ rec.status \in {"processing", "succeeded"}
        /\ \A d \in Calls : pc[d] \notin {"execute", "markFailed"}
    BY DEF Remembered
  <2>2. rec.expires = TTL - age[c]
    BY <1>1 DEF Holds
  <2>3. rec' = rec \/ rec' = AsSucceeded(c)
    BY <1>4, <2>1
  <2>4. rec' # NoRecord /\ rec'.expires = rec.expires /\ rec'.status \in {"processing", "succeeded"}
    BY <2>1, <2>2, <2>3, SucceededFacts
  <2> QED
    BY <1>2, <2>1, <2>4
<1> QED
  BY <1>5, <1>6, <1>8, <1>9

LEMMA TickKeepsExclusive ==
  ASSUME IInv, InTime, Tick
  PROVE  Exclusive'
<1> USE DEF IInv, Exclusive
<1>1. /\ \A c \in Active : age[c] < MaxAge
      /\ \A c \in Claiming : age[c] < MaxClaim
      /\ \A c \in Calls : age'[c] = IF c \in Active THEN age[c] + 1 ELSE age[c]
      /\ rec' = Aged(rec) /\ memory' = Later(memory)
      /\ UNCHANGED <<pc, own, from, halfway, overtaken>>
  BY DEF Tick
<1>2. Claimed' = Claimed /\ Claiming' = Claiming /\ Claimed \subseteq Active /\ Claiming \subseteq Active
  BY <1>1 DEF Claimed, Claiming, Active
<1>3. \/ rec = NoRecord /\ rec' = NoRecord
      \/ /\ rec # NoRecord /\ rec' # NoRecord /\ rec'.id = rec.id /\ rec'.status = rec.status
         /\ rec.lock \in Deadlines /\ rec.expires \in Deadlines
         /\ rec'.lock = Later(rec.lock) /\ rec'.expires = Later(rec.expires)
  BY <1>1, AgedFacts, IdempotencyAssumption DEF Records
<1>4. \A d \in Deadlines : d > Past => Later(d) = d - 1
  BY DeadlineFacts
<1>5. Holds' /\ Alone'
  <2>1. ASSUME NEW c \in Claimed
        PROVE  /\ rec' # NoRecord /\ rec'.id = own[c] /\ rec'.status = "processing"
               /\ rec'.expires = TTL - age'[c]
    <3>1. c \in Calls /\ rec # NoRecord /\ rec.id = own[c] /\ rec.status = "processing"
          /\ rec.expires = TTL - age[c]
      BY DEF Holds, Claimed
    <3>2. age'[c] = age[c] + 1
      BY <1>1, <1>2, <3>1
    <3>3. rec.expires > Past
      BY <3>1, Ages DEF InTime
    <3>4. rec'.expires = rec.expires - 1
      BY <1>3, <1>4, <3>1, <3>3
    <3> QED
      BY <1>3, <3>1, <3>2, <3>4, Ages
  <2> QED
    BY <1>1, <1>2, <2>1 DEF Holds, Alone
<1>6. StaleReaders'
  <2> SUFFICES ASSUME NEW d \in Calls, pc[d] = "reclaimExpired", from[d] = "processing",
                      rec' # NoRecord, rec'.id = own[d], rec'.status = "processing"
               PROVE  rec'.expires <= -age'[d] \/ rec'.lock > -age'[d]
    BY <1>1 DEF StaleReaders
  <2>1. age'[d] = age[d] + 1 /\ age[d] + 1 <= MaxAge
    BY <1>1, Ages DEF Active
  <2>2. rec.expires <= -age[d] \/ rec.lock > -age[d]
    BY <1>3 DEF StaleReaders
  <2>3. CASE rec.lock > -age[d]
    <3>1. rec.lock > Past
      BY <1>3, <2>3, Ages
    <3> QED
      BY <1>3, <1>4, <2>1, <2>3, <3>1, Ages
  <2>4. CASE rec.expires <= -age[d]
    <3>1. rec.expires > Past => rec'.expires = rec.expires - 1
      BY <1>3, <1>4
    <3>2. rec.expires <= Past => rec'.expires = Past
      BY <1>3, DeadlineFacts
    <3> QED
      BY <1>3, <2>1, <2>4, <3>1, <3>2, Ages
  <2> QED
    BY <2>2, <2>3, <2>4
<1>7. FailedReaders'
  BY <1>1 DEF FailedReaders
<1>8. Prompt'
  <2>1. ASSUME NEW c \in Calls, pc[c] = "idle" PROVE age'[c] = 0
    BY <1>1, <2>1 DEF Prompt, Active
  <2>2. ASSUME NEW c \in Calls, c \in Claiming PROVE age'[c] <= MaxClaim
    BY <1>1, <1>2, <2>2, Ages
  <2> QED
    BY <1>1, <1>2, <2>1, <2>2 DEF Prompt
<1>9. Remembered'
  <2> SUFFICES ASSUME Later(memory) > 0, ~halfway, ~overtaken
               PROVE  /\ rec' # NoRecord /\ rec'.expires >= Later(memory)
                      /\ rec'.status \in {"processing", "succeeded"}
                      /\ \A d \in Calls : pc[d] \notin {"execute", "markFailed"}
    BY <1>1 DEF Remembered
  <2>1. memory > 0 /\ memory > Past /\ Later(memory) = memory - 1
    BY Ages, DeadlineFacts DEF TypeOK
  <2>2. /\ rec # NoRecord /\ rec.expires >= memory /\ rec.status \in {"processing", "succeeded"}
        /\ \A d \in Calls : pc[d] \notin {"execute", "markFailed"}
    BY <2>1 DEF Remembered
  <2>3. rec'.expires = rec.expires - 1
    BY <1>3, <1>4, <2>1, <2>2, Ages
  <2> QED
    BY <1>3, <2>1, <2>2, <2>3, Ages
<1> QED
  BY <1>5, <1>6, <1>7, <1>8, <1>9

LEMMA NextKeepsExclusive ==
  ASSUME IInv, InTime, [Next]_vars
  PROVE  Exclusive'
<1>1. ASSUME NEW c \in Calls, Work(c) PROVE Exclusive'
  BY <1>1, CreateKeepsExclusive, ReadKeepsExclusive, ReclaimKeepsExclusive, ExecuteKeepsExclusive,
     MarkKeepsExclusive DEF Work
<1>2. ASSUME NEW c \in Calls, Start(c) PROVE Exclusive'
  <2>1. UNCHANGED <<rec, own, age, from, memory, halfway, overtaken>> /\ pc[c] = "idle"
        /\ pc' = [pc EXCEPT ![c] = "create"]
    BY <1>2 DEF Start, Go, history
  <2>2. pc'[c] = "create" /\ \A d \in Calls \ {c} : pc'[d] = pc[d]
    BY <2>1 DEF IInv, TypeOK
  <2>3. Claimed' = Claimed
    BY <2>1, <2>2 DEF Claimed
  <2>4. Prompt'
    BY <2>1, <2>2, Ages DEF IInv, Exclusive, Prompt, Claiming
  <2> QED
    BY <2>1, <2>2, <2>3, <2>4 DEF IInv, Exclusive, Holds, Alone, StaleReaders, FailedReaders, Remembered
<1>3. ASSUME NEW c \in Calls, ClientLeaves(c) PROVE Exclusive'
  BY <1>3 DEF ClientLeaves, history, IInv, Exclusive, Holds, Alone, StaleReaders, FailedReaders,
     Remembered, Prompt, Claimed, Claiming
<1>4. ASSUME NEW c \in Calls, Crash(c) PROVE Exclusive'
  <2>1. UNCHANGED <<rec, own, age, from>> /\ pc' = [pc EXCEPT ![c] = "done"]
    BY <1>4 DEF Crash, Go
  <2>2. pc'[c] = "done" /\ \A d \in Calls \ {c} : pc'[d] = pc[d]
    BY <2>1 DEF IInv, TypeOK
  <2>3. Claimed' \subseteq Claimed /\ Claiming' \subseteq Claiming
    BY <2>1, <2>2 DEF Claimed, Claiming
  <2>4. Remembered'
    <3>1. CASE UNCHANGED <<memory, halfway, overtaken>>
      BY <2>1, <2>2, <3>1 DEF IInv, Exclusive, Remembered
    <3>2. CASE pc[c] = "execute" /\ memory' = TTL - age[c]
      <4>1. c \in Claimed
        BY <3>2 DEF Claimed
      <4>2. rec # NoRecord /\ rec.status = "processing" /\ rec.expires = TTL - age[c]
        BY <4>1 DEF IInv, Exclusive, Holds
      <4>3. \A d \in Calls : pc'[d] \notin {"execute", "markFailed"}
        BY <2>2, <4>1 DEF IInv, Exclusive, Alone, Claimed
      <4> QED
        BY <2>1, <3>2, <4>2, <4>3, Ages DEF IInv, Remembered
    <3> QED
      BY <1>4, <3>1, <3>2 DEF Crash, Effect, history
  <2> QED
    BY <2>1, <2>2, <2>3, <2>4
       DEF IInv, Exclusive, Holds, Alone, StaleReaders, FailedReaders, Prompt, Claimed
<1>5. ASSUME Cleanup PROVE Exclusive'
  <2>1. rec # NoRecord /\ rec.expires <= 0 /\ rec' = NoRecord
        /\ UNCHANGED <<pc, own, age, from, memory, halfway, overtaken>>
    BY <1>5 DEF Cleanup, Expired, history
  <2>2. Claimed = {}
    BY <2>1, Ages DEF IInv, Exclusive, Holds, Claimed, InTime
  <2>3. ~(memory > 0 /\ ~halfway /\ ~overtaken)
    BY <2>1, Ages DEF IInv, Exclusive, Remembered
  <2> QED
    BY <2>1, <2>2, <2>3
       DEF IInv, Exclusive, Holds, Alone, StaleReaders, FailedReaders, Remembered, Prompt, Claimed, Claiming
<1>6. ASSUME Tick PROVE Exclusive'
  BY <1>6, TickKeepsExclusive
<1>7. CASE UNCHANGED vars
  BY <1>7 DEF vars, IInv, Exclusive, Holds, Alone, StaleReaders, FailedReaders, Remembered, Prompt,
     Claimed, Claiming
<1> QED
  BY <1>1, <1>2, <1>3, <1>4, <1>5, <1>6, <1>7 DEF Next

LEMMA AlwaysIInv ==
  ASSUME InTime
  PROVE  Spec => []IInv
<1>1. Init => Exclusive
  BY RecordsAssumption, IdempotencyAssumption
     DEF Init, Exclusive, Holds, Alone, StaleReaders, FailedReaders, Remembered, Prompt,
         Claimed, Claiming, Past
<1>2. IInv /\ [Next]_vars => Exclusive'
  BY NextKeepsExclusive
<1> QED
  BY <1>1, <1>2, InitTypeOK, NextKeepsTypeOK, PTL DEF Spec, IInv

\* However many calls with one key race, fail, crash or come back late, two of them
\* never execute at the same time.
THEOREM ExecutesAlone ==
  ASSUME MaxAge < TTL, MaxClaim < Lease
  PROVE  Spec => []OneAtATime
<1>1. IInv => OneAtATime
  <2> SUFFICES ASSUME Alone PROVE OneAtATime
    BY DEF IInv, Exclusive
  <2>1. CASE Claimed = {}
    BY <2>1, FS_EmptySet DEF OneAtATime
  <2>2. ASSUME NEW c \in Claimed PROVE OneAtATime
    <3>1. Claimed = {c}
      BY DEF Alone
    <3>2. Cardinality(Claimed) = 1
      BY <3>1, FS_Singleton
    <3> QED
      BY <3>2 DEF OneAtATime
  <2> QED
    BY <2>1, <2>2
<1>2. InTime
  BY DEF InTime
<1> QED
  BY <1>1, <1>2, AlwaysIInv, PTL

\* The request is executed again within the TTL for two reasons only: the execution
\* that applied the last effect returned an error, or two calls read the record of
\* that effect as expired and the second takes over what the first renewed.
THEOREM RepeatsHaveCause ==
  ASSUME MaxAge < TTL, MaxClaim < Lease
  PROVE  Spec => []RepeatHasCause
<1>1. IInv => RepeatHasCause
  BY DEF IInv, Exclusive, Remembered, RepeatHasCause
<1>2. InTime
  BY DEF InTime
<1> QED
  BY <1>1, <1>2, AlwaysIInv, PTL
===============================================================================
