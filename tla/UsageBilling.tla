------------------------------ MODULE UsageBilling ------------------------------
(***************************************************************************)
(* How the usage of a request is billed: UsageRecordWorkerPool takes the   *)
(* record, GatewayService.recordUsageCore hands it to the transaction of   *)
(* repository/usage_billing_repo.go, and the deduction goes on to the      *)
(* cached balance of BalanceCache.  The process may die, and may be shut   *)
(* down: serverapp/wire.go stops the pool and the cache side by side.      *)
(***************************************************************************)
EXTENDS BalanceCache

CONSTANTS
    Records, Prints,
    Asks,                     \* the ids and fingerprints a record may come with
    QueueSize, WorkerCount,   \* of the pool
    NoRecord, NoBill

ASSUME UsageBillingAssumption ==
    /\ QueueSize \in Nat /\ WorkerCount \in Nat \ {0}
    /\ IsFiniteSet(Records) /\ NoRecord \notin Records
    /\ Asks \in [Records -> SUBSET [id : Ids, print : Prints]]
    /\ NoBill \notin [id : Ids, print : Prints]

VARIABLES
    rec,       \* how far each record is, and where it runs
    bill,      \* its request id and fingerprint
    answer,    \* what its transaction came to
    dedup,     \* usage_billing_dedup: the record that claimed an id
    archive,   \* usage_billing_dedup_archive
    spent,     \* what the database has taken off the balance
    pool,
    down       \* the shutdown has begun

billVars == <<rec, bill, answer, dedup, archive, spent, pool, down>>
vars == <<cacheVars, billVars>>

Places == {"new", "queued", "start", "archive", "commit", "look", "send", "fallback", "done"}

TypeOK ==
    /\ CacheTypeOK
    /\ rec \in [Records -> [at : Places, pooled : BOOLEAN]]
    /\ bill \in [Records -> {NoBill} \cup [id : Ids, print : Prints]]
    /\ \A r \in Records : rec[r].at = "new" <=> bill[r] = NoBill
    /\ answer \in [Records -> {"none", "applied", "duplicate", "conflict", "failed", "dropped"}]
    /\ \A r \in Records : rec[r].at \in {"look", "send", "fallback"} => answer[r] = "applied"
    /\ dedup \in [Ids -> Records \cup {NoRecord}]
    /\ archive \in [Ids -> Records \cup {NoRecord}]
    /\ \A i \in Ids : NoRecord \in {dedup[i], archive[i]}
    /\ spent \in 0..Cardinality(Records)
    /\ pool \in {"open", "stopping", "stopped"}
    /\ down \in BOOLEAN

Init ==
    /\ CacheInit
    /\ rec = [r \in Records |-> [at |-> "new", pooled |-> FALSE]]
    /\ bill = [r \in Records |-> NoBill]
    /\ answer = [r \in Records |-> "none"]
    /\ dedup = [i \in Ids |-> NoRecord] /\ archive = [i \in Ids |-> NoRecord]
    /\ spent = 0
    /\ pool = "open" /\ down = FALSE

At(r, p) == rec' = [rec EXCEPT ![r].at = p]

Ends(r, a) == At(r, "done") /\ answer' = [answer EXCEPT ![r] = a]

(***************************************************************************)
(* The pool.                                                               *)
(***************************************************************************)
Waiting == {r \in Records : rec[r].at = "queued"}
Working == {r \in Records : rec[r].pooled /\ rec[r].at \notin {"new", "queued", "done"}}

\* Submit.  With the queue full the record is dropped or, as the overflow policy
\* has it for all or a sample of them, runs in its caller.
Submit(r, ask) ==
    /\ rec[r].at = "new"
    /\ bill' = [bill EXCEPT ![r] = ask]
    /\ \/ /\ pool = "open" /\ Cardinality(Waiting) < QueueSize
          /\ rec' = [rec EXCEPT ![r] = [at |-> "queued", pooled |-> TRUE]]
          /\ UNCHANGED answer
       \/ /\ pool = "open" /\ Cardinality(Waiting) = QueueSize
          /\ At(r, "start") /\ UNCHANGED answer
       \/ /\ pool # "open" \/ Cardinality(Waiting) = QueueSize
          /\ Ends(r, "dropped")
    /\ UNCHANGED <<cacheVars, dedup, archive, spent, pool, down>>

Start(r) ==
    /\ rec[r].at = "queued" /\ Cardinality(Working) < WorkerCount
    /\ At(r, "start")
    /\ UNCHANGED <<cacheVars, bill, answer, dedup, archive, spent, pool, down>>

(***************************************************************************)
(* The transaction of Apply.  A claim that is not committed holds up the   *)
(* other claims of its id.                                                 *)
(***************************************************************************)
Claiming(i) == {r \in Records : rec[r].at \in {"archive", "commit"} /\ bill[r].id = i}

\* A record has claimed the id before.
Claimed(r, by) ==
    Ends(r, IF bill[by].print = bill[r].print THEN "duplicate" ELSE "conflict")

\* The context ends or the database fails: the transaction is rolled back, and
\* nobody tries again.
Rollback(r) ==
    /\ rec[r].at \in {"start", "archive", "commit"} /\ Upset
    /\ Ends(r, "failed")
    /\ UNCHANGED <<cached, deducts, load, channel, drifted, bill, dedup, archive, spent, pool, down>>

Claim(r) ==
    LET i == bill[r].id IN
    /\ rec[r].at = "start" /\ Claiming(i) = {}
    /\ IF dedup[i] = NoRecord THEN At(r, "archive") /\ UNCHANGED answer
       ELSE Claimed(r, dedup[i])
    /\ UNCHANGED <<cacheVars, bill, dedup, archive, spent, pool, down>>

\* Mutant: only the table of recent claims is asked.
CheckArchive_No(r) ==
    /\ rec[r].at = "archive" /\ At(r, "commit")
    /\ UNCHANGED <<cacheVars, bill, answer, dedup, archive, spent, pool, down>>

CheckArchive(r) ==
    LET i == bill[r].id IN
    /\ rec[r].at = "archive"
    /\ IF archive[i] = NoRecord THEN At(r, "commit") /\ UNCHANGED answer
       ELSE Claimed(r, archive[i])
    /\ UNCHANGED <<cacheVars, bill, dedup, archive, spent, pool, down>>

\* The effects and the commit, whose reply may be lost: then the cached balance
\* is not told.
Commit(r) ==
    LET i == bill[r].id IN
    /\ rec[r].at = "commit"
    /\ dedup' = [dedup EXCEPT ![i] = r]
    /\ spent' = spent + 1
    /\ \/ /\ At(r, "look") /\ answer' = [answer EXCEPT ![r] = "applied"]
          /\ drifted' = IF Outstanding = {} THEN drifted ELSE drifted \cup {i}
          /\ UNCHANGED upsets
       \/ Upset /\ Ends(r, "failed") /\ drifted' = drifted \cup {i}
    /\ UNCHANGED <<cached, deducts, load, channel, bill, archive, pool, down>>

\* CleanupUsageBillingDedup moves old claims in one statement.
\* Mutant: the claims are copied and stay.
MoveToArchive_Copies(i) ==
    /\ dedup[i] # NoRecord
    /\ archive' = [archive EXCEPT ![i] = dedup[i]]
    /\ UNCHANGED <<cacheVars, rec, bill, answer, dedup, spent, pool, down>>

MoveToArchive(i) ==
    /\ dedup[i] # NoRecord
    /\ archive' = [archive EXCEPT ![i] = dedup[i]]
    /\ dedup' = [dedup EXCEPT ![i] = NoRecord]
    /\ UNCHANGED <<cacheVars, rec, bill, answer, spent, pool, down>>

(***************************************************************************)
(* QueueDeductBalance.                                                     *)
(***************************************************************************)
Looks(r) ==
    /\ rec[r].at = "look"
    /\ At(r, IF channel = "open" THEN "send" ELSE "fallback")
    /\ UNCHANGED <<cacheVars, bill, answer, dedup, archive, spent, pool, down>>

\* Mutant: a full queue drops the deduction.
Sends_Drops(r) ==
    LET i == bill[r].id IN
    /\ rec[r].at = "send" /\ At(r, "done")
    /\ deducts' = IF CanSend THEN deducts \cup {i} ELSE deducts
    /\ drifted' = IF channel = "closed" THEN drifted \cup {i} ELSE drifted
    /\ UNCHANGED <<cached, load, channel, upsets, bill, answer, dedup, archive, spent, pool, down>>

\* A full queue, or none, sends the deduction to redis at once.  The send on a
\* closed channel panics, which the pool recovers: the record ends here.
Sends(r) ==
    LET i == bill[r].id IN
    /\ rec[r].at = "send"
    /\ CASE CanSend -> At(r, "done") /\ deducts' = deducts \cup {i} /\ UNCHANGED drifted
         [] channel = "closed" -> At(r, "done") /\ drifted' = drifted \cup {i} /\ UNCHANGED deducts
         [] OTHER -> At(r, "fallback") /\ UNCHANGED <<deducts, drifted>>
    /\ UNCHANGED <<cached, load, channel, upsets, bill, answer, dedup, archive, spent, pool, down>>

FallsBack(r) ==
    /\ rec[r].at = "fallback"
    /\ DeductCall(bill[r].id)
    /\ At(r, "done")
    /\ UNCHANGED <<deducts, load, channel, bill, answer, dedup, archive, spent, pool, down>>

FallsBackAgain(r) ==
    /\ rec[r].at = "fallback"
    /\ DeductUnheard(bill[r].id)
    /\ UNCHANGED <<deducts, load, channel, billVars>>

(***************************************************************************)
(* Loads, shutdown and crash.                                              *)
(***************************************************************************)
Charged == {i \in Ids : dedup[i] # NoRecord \/ archive[i] # NoRecord}

Pending == deducts \cup {bill[r].id : r \in {s \in Records : rec[s].at \in {"look", "send", "fallback"}}}

LoadStep(l) ==
    /\ ReadBalance(l, Charged, Pending) \/ LoadLooks(l) \/ LoadSends(l)
    /\ UNCHANGED billVars

\* Requests go on asking for the balance.
CheckBalance(l) == Miss(l) /\ UNCHANGED billVars

CacheStep == (CacheWorker \/ Expire) /\ UNCHANGED billVars

CacheIsInvalidated == Invalidate /\ UNCHANGED billVars

Shutdown ==
    /\ ~down /\ down' = TRUE
    /\ UNCHANGED <<cacheVars, rec, bill, answer, dedup, archive, spent, pool>>

StopCache == down /\ (StopFlags \/ StopCloses \/ StopEnds) /\ UNCHANGED billVars

\* StopAndWait: new records are refused, the ones in the pool run to their end.
StopPool ==
    /\ down
    /\ \/ pool = "open" /\ pool' = "stopping"
       \/ pool = "stopping" /\ Waiting = {} /\ Working = {} /\ pool' = "stopped"
    /\ UNCHANGED <<cacheVars, rec, bill, answer, dedup, archive, spent, down>>

\* The process dies and starts again.
Crash ==
    /\ ~down /\ Upset
    /\ rec' = [r \in Records |-> IF rec[r].at = "new" THEN rec[r] ELSE [rec[r] EXCEPT !.at = "done"]]
    /\ answer' = [r \in Records |-> IF rec[r].at # "new" /\ answer[r] = "none"
                                    THEN "failed" ELSE answer[r]]
    /\ deducts' = {} /\ load' = [l \in Loads |-> NoLoad]
    /\ drifted' = drifted \cup Pending
    /\ UNCHANGED <<cached, channel, bill, dedup, archive, spent, pool, down>>

RecordStep(r) ==
    \/ Start(r) \/ Claim(r) \/ CheckArchive(r) \/ Commit(r) \/ Rollback(r)
    \/ Looks(r) \/ Sends(r) \/ FallsBack(r)

Next ==
    \/ \E r \in Records : RecordStep(r) \/ FallsBackAgain(r) \/ \E ask \in Asks[r] : Submit(r, ask)
    \/ \E i \in Ids : MoveToArchive(i)
    \/ \E l \in Loads : CheckBalance(l) \/ LoadStep(l)
    \/ CacheStep \/ CacheIsInvalidated
    \/ Shutdown \/ StopCache \/ StopPool \/ Crash

Spec == Init /\ [][Next]_vars

\* Calls return, workers run, and the TTL runs out; records, requests and the
\* shutdown need not come.
Fairness ==
    /\ \A r \in Records : WF_vars(RecordStep(r))
    /\ \A l \in Loads : WF_vars(LoadStep(l)) /\ WF_vars(WorkerSets(l) /\ UNCHANGED billVars)
    /\ \A i \in Ids : WF_vars(WorkerDeducts(i) /\ UNCHANGED billVars)
    /\ WF_vars(Expire /\ UNCHANGED billVars)
    /\ WF_vars(StopCache) /\ WF_vars(StopPool)

FairSpec == Spec /\ Fairness

-------------------------------------------------------------------------------
\* Whatever is queued, repeated, archived, rolled back or answered to nobody,
\* the transactions keep the promise of UsageLedger: an id is paid once, by a
\* record that is told so unless the reply was lost, and the others are told
\* truly whether they repeat it.
Ledger == INSTANCE UsageLedger WITH
    payer <- [i \in Ids |-> IF dedup[i] = NoRecord THEN archive[i] ELSE dedup[i]]

BilledAsLedger == Ledger!Spec

\* A charge is counted once in the cached balance, through the queue or beside
\* it, as soon as its deduction is through, unless a load from the database
\* overlapped it or its deduction failed or was sent again.
CountedOnce ==
    cached # NoEntry =>
        \A i \in Ids \ drifted : cached[i] = IF i \in Charged \ Pending THEN 1 ELSE 0

\* A wrong cached balance does not stay: when no more records come, it agrees with
\* the database in the end.
CacheSettles == <>[](cached # NoEntry => cached = [i \in Ids |-> IF i \in Charged THEN 1 ELSE 0])

\* A shutdown ends, with every record the pool had accepted run to its end and no
\* deduction left in the queue, in whatever order pool and cache stop.
Drained ==
    /\ pool = "stopped" /\ channel = "gone" /\ deducts = {}
    /\ \A r \in Records : rec[r].pooled => rec[r].at = "done"

StopDrains == down ~> Drained
================================================================================
