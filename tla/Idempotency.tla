----------------------------- MODULE Idempotency -----------------------------
(***************************************************************************)
(* IdempotencyCoordinator.Execute: calls that carry one idempotency key,   *)
(* racing for its record, and the cleanup of expired records.              *)
(***************************************************************************)
EXTENDS IdempotencyRecords, FiniteSets

CONSTANTS
    Calls,
    Fingerprints,
    TTL,         \* of a record
    Lease,       \* ProcessingTimeout
    Backoff,     \* FailedRetryBackoff
    MaxClaim,    \* ticks from a call's reading of the clock to execute(ctx)
    MaxFaults,   \* database calls that fail, results that cannot be stored
    MaxCrashes,  \* calls whose process dies
    NoCall

Statuses == {"processing", "succeeded", "failed_retryable"}

Answers == {"none", "ok", "failed", "unavailable", "conflict", "in_progress", "backoff"}

Max2(a, b) == IF a > b THEN a ELSE b

Deadlines == Past..Max2(TTL, Max2(Lease, Backoff))

Records ==
    [id : Calls, fp : Fingerprints, status : Statuses, lock : Deadlines,
     expires : Deadlines, body : Calls]

ASSUME IdempotencyAssumption ==
    /\ IsFiniteSet(Calls) /\ Calls \cap Answers = {}
    /\ TTL \in Nat /\ Lease \in Nat /\ Backoff \in Nat /\ MaxClaim \in Nat
    /\ MaxFaults \in Nat /\ MaxCrashes \in Nat
    /\ NoCall \notin Calls /\ NoRecord \notin Records

VARIABLES
    payload,  \* what each call sends, as its fingerprint; it never changes
    rec,      \* the key's record; its id is the call that inserted it
    pc,
    age,      \* ticks since the call read the clock
    own,      \* record.ID: the record the call reclaims or has claimed
    from,     \* existing.Status when the call decided to reclaim
    answer,   \* what Execute returned; for a replay, of which call
    gone,     \* the request's context is done
    applied,  \* history: the calls whose execute(ctx) succeeded
    memory,   \* history: when the effect that was applied last may be forgotten
    halfway,  \* history: it was applied by an execution that returned an error
    overtaken,  \* history: since then, a call took over a record it had read as
                \* succeeded and expired, and that had been renewed meanwhile
    faults, crashes

vars == <<payload, rec, pc, age, own, from, answer, gone, applied, memory, halfway,
          overtaken, faults, crashes>>

PCs == {"idle", "create", "get", "reclaimExpired", "getLatest", "reclaimFailed",
        "execute", "markSucceeded", "markFailed", "done"}

TypeOK ==
    /\ payload \in [Calls -> Fingerprints]
    /\ rec \in Records \cup {NoRecord}
    /\ pc \in [Calls -> PCs]
    /\ age \in [Calls -> 0..MaxAge]
    /\ own \in [Calls -> Calls \cup {NoCall}]
    /\ from \in [Calls -> Statuses]
    /\ answer \in [Calls -> Answers \cup Calls]
    /\ gone \in [Calls -> BOOLEAN]
    /\ applied \subseteq Calls
    /\ memory \in Deadlines
    /\ halfway \in BOOLEAN /\ overtaken \in BOOLEAN
    /\ faults \in 0..MaxFaults
    /\ crashes \in 0..MaxCrashes

Init ==
    /\ payload \in [Calls -> Fingerprints]
    /\ rec = NoRecord
    /\ pc = [c \in Calls |-> "idle"]
    /\ age = [c \in Calls |-> 0]
    /\ own = [c \in Calls |-> NoCall]
    /\ from = [c \in Calls |-> "processing"]
    /\ answer = [c \in Calls |-> "none"]
    /\ gone = [c \in Calls |-> FALSE]
    /\ applied = {} /\ memory = Past /\ halfway = FALSE /\ overtaken = FALSE
    /\ faults = 0 /\ crashes = 0

-------------------------------------------------------------------------------

history == <<applied, memory, halfway, overtaken>>

Go(c, next) == pc' = [pc EXCEPT ![c] = next]

Return(c, what) == answer' = [answer EXCEPT ![c] = what] /\ Go(c, "done")

Fault == faults < MaxFaults /\ faults' = faults + 1

\* Every database call takes the request's context.
CallOK(c) == ~gone[c] /\ UNCHANGED faults

CallFails(c) == IF gone[c] THEN UNCHANGED faults ELSE Fault

\* A failed statement may have been executed: only the reply is lost.
Unavailable(c, effect) ==
    /\ CallFails(c)
    /\ rec' = rec \/ (~gone[c] /\ rec' = effect)
    /\ Return(c, "unavailable")
    /\ UNCHANGED own

Start(c) ==
    /\ pc[c] = "idle"
    /\ Go(c, "create")
    /\ UNCHANGED <<rec, age, own, from, answer, gone, history, faults, crashes>>

\* Mutant: the record expires a TTL after its lock.
NewRecord_TTLAfterLock(c) == Created(c, payload[c], Lease - age[c], Lease + TTL - age[c])

NewRecord(c) == Created(c, payload[c], Lease - age[c], TTL - age[c])

CreateProcessing(c) ==
    /\ pc[c] = "create"
    /\ \/ /\ CallOK(c) /\ rec = NoRecord
          /\ rec' = NewRecord(c)
          /\ own' = [own EXCEPT ![c] = c]
          /\ Go(c, "execute") /\ UNCHANGED answer
       \/ CallOK(c) /\ rec # NoRecord /\ Go(c, "get") /\ UNCHANGED <<rec, own, answer>>
       \/ Unavailable(c, IF rec = NoRecord THEN NewRecord(c) ELSE rec)
    /\ UNCHANGED <<age, from, gone, history, crashes>>

\* Mutant: a key is a key, whatever the request says.
SameRequest_Any(c) == TRUE

SameRequest(c) == rec.fp = payload[c]

\* Mutant: a record that is being processed may be taken over once its lock has lapsed.
Busy_WhileLocked(c) == rec.status = "processing" /\ rec.lock > -age[c]

\* A record in processing is never taken over before it expires, also when its
\* lock has lapsed.
Busy(c) == rec.status = "processing"

BackingOff(c) == rec.status = "failed_retryable" /\ rec.lock > -age[c]

TakeOver(c, next) ==
    /\ own' = [own EXCEPT ![c] = rec.id]
    /\ from' = [from EXCEPT ![c] = rec.status]
    /\ Go(c, next)
    /\ UNCHANGED answer

\* The decision on the status of the record as read.
Judge(c) ==
    \/ rec.status = "succeeded" /\ Return(c, rec.body) /\ UNCHANGED <<own, from>>
    \/ Busy(c) /\ Return(c, "in_progress") /\ UNCHANGED <<own, from>>
    \/ BackingOff(c) /\ Return(c, "backoff") /\ UNCHANGED <<own, from>>
    \/ ~Busy(c) /\ ~BackingOff(c) /\ rec.status # "succeeded" /\ TakeOver(c, "reclaimFailed")

\* GetByScopeAndKeyHash, after the insertion ...
GetExisting(c) ==
    /\ pc[c] = "get"
    /\ \/ /\ CallOK(c) /\ rec # NoRecord
          /\ \/ ~SameRequest(c) /\ Return(c, "conflict") /\ UNCHANGED <<own, from>>
             \/ SameRequest(c) /\ rec.expires <= -age[c] /\ TakeOver(c, "reclaimExpired")
             \/ SameRequest(c) /\ rec.expires > -age[c] /\ Judge(c)
       \/ (CallFails(c) \/ (CallOK(c) /\ rec = NoRecord)) /\ Return(c, "unavailable") /\ UNCHANGED <<own, from>>
    /\ UNCHANGED <<rec, age, gone, history, crashes>>

\* ... and after a lost race for an expired record, which is not asked again
\* whether it has expired.
GetLatest(c) ==
    /\ pc[c] = "getLatest"
    /\ \/ /\ CallOK(c) /\ rec # NoRecord
          /\ \/ ~SameRequest(c) /\ Return(c, "conflict") /\ UNCHANGED <<own, from>>
             \/ SameRequest(c) /\ Judge(c)
       \/ (CallFails(c) \/ (CallOK(c) /\ rec = NoRecord)) /\ Return(c, "unavailable") /\ UNCHANGED <<own, from>>
    /\ UNCHANGED <<rec, age, gone, history, crashes>>

Taken(c) == CanReclaim(rec, own[c], from[c], age[c])

AsMine(c) == Reclaimed(rec, Lease - age[c], TTL - age[c])

TryReclaim(c) ==
    /\ pc[c] \in {"reclaimExpired", "reclaimFailed"}
    /\ \/ /\ CallOK(c) /\ Taken(c)
          /\ rec' = AsMine(c)
          /\ Go(c, "execute") /\ UNCHANGED <<own, answer>>
       \/ /\ CallOK(c) /\ ~Taken(c) /\ UNCHANGED <<rec, own>>
          /\ IF pc[c] = "reclaimFailed" THEN Return(c, "in_progress")
             ELSE Go(c, "getLatest") /\ UNCHANGED answer
       \/ Unavailable(c, IF Taken(c) THEN AsMine(c) ELSE rec)
    /\ overtaken' = (overtaken \/ (/\ rec' # rec /\ from[c] = "succeeded"
                                   /\ rec.expires > -age[c]))
    /\ UNCHANGED <<age, from, gone, applied, memory, halfway, crashes>>

\* What execute(ctx) does outside the record.
Effect(c, failed) == memory' = TTL - age[c] /\ halfway' = failed /\ overtaken' = FALSE

\* execute(ctx).  The result may be impossible to store.
ExecuteOK(c) ==
    /\ pc[c] = "execute"
    /\ applied' = applied \cup {c}
    /\ Effect(c, FALSE)
    /\ \/ Go(c, "markSucceeded") /\ UNCHANGED <<answer, faults>>
       \/ Fault /\ Return(c, "unavailable")
    /\ UNCHANGED <<rec, age, own, from, gone, crashes>>

\* It returns an error and has done nothing, or a part of its work (a loop that
\* fails midway), or all of it (a commit that was not answered).
ExecuteFails(c) ==
    /\ pc[c] = "execute"
    /\ Go(c, "markFailed")
    /\ UNCHANGED history \/ (UNCHANGED applied /\ Effect(c, TRUE))
    /\ UNCHANGED <<rec, age, own, from, answer, gone, faults, crashes>>

\* Mutant: the record expires with the processing lock.
AsSucceeded_Short(c) == Succeeded(rec, own[c], c, Lease - age[c])

AsSucceeded(c) == Succeeded(rec, own[c], c, TTL - age[c])

MarkSucceeded(c) ==
    /\ pc[c] = "markSucceeded"
    /\ \/ CallOK(c) /\ rec' = AsSucceeded(c) /\ Return(c, "ok") /\ UNCHANGED own
       \/ Unavailable(c, AsSucceeded(c))
    /\ UNCHANGED <<age, from, gone, history, crashes>>

\* The backoff counts from now; a failure to mark is only logged.
MarkFailed(c) ==
    /\ pc[c] = "markFailed"
    /\ LET marked == Failed(rec, own[c], Backoff, TTL - age[c]) IN
         \/ CallOK(c) /\ rec' = marked
         \/ CallFails(c) /\ (rec' = rec \/ (~gone[c] /\ rec' = marked))
    /\ Return(c, "failed")
    /\ UNCHANGED <<age, own, from, gone, history, crashes>>

-------------------------------------------------------------------------------

ClientLeaves(c) ==
    /\ pc[c] \notin {"idle", "done"} /\ ~gone[c]
    /\ gone' = [gone EXCEPT ![c] = TRUE]
    /\ UNCHANGED <<rec, pc, age, own, from, answer, history, faults, crashes>>

Crash(c) ==
    /\ pc[c] \notin {"idle", "done"} /\ crashes < MaxCrashes
    /\ crashes' = crashes + 1
    /\ Go(c, "done")
    /\ UNCHANGED history \/ (pc[c] = "execute" /\ UNCHANGED applied /\ Effect(c, FALSE))
    /\ UNCHANGED <<rec, age, own, from, answer, gone, faults>>

\* IdempotencyCleanupService.cleanupOnce.
Cleanup ==
    /\ Expired(rec)
    /\ rec' = NoRecord
    /\ UNCHANGED <<pc, age, own, from, answer, gone, history, faults, crashes>>

Active == {c \in Calls : pc[c] \notin {"idle", "done"}}

Claiming == {c \in Calls : pc[c] \in {"create", "get", "reclaimExpired", "getLatest", "reclaimFailed"}}

Tick ==
    /\ \A c \in Active : age[c] < MaxAge
    /\ \A c \in Claiming : age[c] < MaxClaim
    /\ age' = [c \in Calls |-> IF c \in Active THEN age[c] + 1 ELSE age[c]]
    /\ rec' = Aged(rec)
    /\ memory' = Later(memory)
    /\ UNCHANGED <<pc, own, from, answer, gone, applied, halfway, overtaken, faults,
                   crashes>>

Work(c) ==
    \/ CreateProcessing(c) \/ GetExisting(c) \/ GetLatest(c) \/ TryReclaim(c)
    \/ ExecuteOK(c) \/ ExecuteFails(c) \/ MarkSucceeded(c) \/ MarkFailed(c)

Next ==
    /\ \/ \E c \in Calls : Start(c) \/ Work(c) \/ ClientLeaves(c) \/ Crash(c)
       \/ Cleanup \/ Tick
    /\ UNCHANGED payload

Spec == Init /\ [][Next]_vars

-------------------------------------------------------------------------------
(* What the component promises, as long as no call outlives the record it  *)
(* claimed (MaxAge < TTL) and none is slower to claim one than the         *)
(* processing timeout (MaxClaim < Lease): a slower one leaves a lock that  *)
(* has lapsed already, and the next call takes the record over as well.    *)

Claimed == {c \in Calls : pc[c] \in {"execute", "markSucceeded", "markFailed"}}

\* Two calls with one key never execute at the same time, whatever they raced
\* for, whoever failed or crashed before, and however late a call that lost a
\* race comes back.
OneAtATime == Cardinality(Claimed) <= 1

\* Within the TTL, counted from the claim of the call that applied an effect last,
\* the request is executed again for two reasons only.  Either that execution
\* returned an error after it had applied some of its effect: the record may then
\* be taken over after the backoff.  Or two calls have read one succeeded record
\* as expired, and the second has taken over what the first had renewed.  Nothing
\* else leads to it: not a lost reply, a result that was not stored, a crash in
\* the middle of the effect, or a record that was deleted.
RepeatHasCause ==
    \A c \in Calls : pc[c] = "execute" /\ memory > 0 => halfway \/ overtaken

\* A replayed answer is that of a call with the same payload whose effect was
\* applied.
ReplayTruthful ==
    \A c \in Calls : answer[c] \in Calls =>
        answer[c] \in applied /\ payload[answer[c]] = payload[c]
===============================================================================
