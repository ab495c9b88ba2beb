-------------------------- MODULE IdempotencyRecords --------------------------
(***************************************************************************)
(* The table idempotency_records, as far as one (scope, key hash) goes: at *)
(* most one record, and the statements of idempotencyRepository on it.     *)
(*                                                                         *)
(* Points in time are relative to the present: a deadline d > 0 is d ticks *)
(* ahead, one d <= 0 has passed.  A caller that read the clock `age' ticks *)
(* ago takes -age for the present.  Nobody's age exceeds MaxAge, so        *)
(* deadlines that are further back are all alike, and so is a NULL: Past.  *)
(***************************************************************************)
EXTENDS Integers

CONSTANTS
    MaxAge,      \* ticks from a caller's reading of the clock to its end
    NoRecord

ASSUME RecordsAssumption == MaxAge \in Nat

Past == -MaxAge

Later(deadline) == IF deadline > Past THEN deadline - 1 ELSE Past

\* CreateProcessing: INSERT ... ON CONFLICT DO NOTHING.
Created(id, fp, lock, expires) ==
    [id |-> id, fp |-> fp, status |-> "processing", lock |-> lock,
     expires |-> expires, body |-> id]

\* TryReclaim's WHERE clause.
CanReclaim(rec, id, from, age) ==
    rec # NoRecord /\ rec.id = id /\ rec.status = from /\ rec.lock <= -age

\* TryReclaim's SET clause: the fingerprint stays.
Reclaimed(rec, lock, expires) ==
    [rec EXCEPT !.status = "processing", !.lock = lock, !.expires = expires]

IsRecord(rec, id) == rec # NoRecord /\ rec.id = id

\* ExtendProcessingLock.
CanExtend(rec, id, fp) == IsRecord(rec, id) /\ rec.status = "processing" /\ rec.fp = fp

Extended(rec, lock, expires) == [rec EXCEPT !.lock = lock, !.expires = expires]

\* MarkSucceeded and MarkFailedRetryable: by id, whoever has it now.
Succeeded(rec, id, body, expires) ==
    IF IsRecord(rec, id)
    THEN [rec EXCEPT !.status = "succeeded", !.body = body, !.lock = Past, !.expires = expires]
    ELSE rec

Failed(rec, id, lock, expires) ==
    IF IsRecord(rec, id)
    THEN [rec EXCEPT !.status = "failed_retryable", !.lock = lock, !.expires = expires]
    ELSE rec

\* DeleteExpired's WHERE clause.
Expired(rec) == rec # NoRecord /\ rec.expires <= 0

Aged(rec) ==
    IF rec = NoRecord THEN rec
    ELSE [rec EXCEPT !.lock = Later(@), !.expires = Later(@)]
===============================================================================
