------------------------------ MODULE BalanceCache ------------------------------
(***************************************************************************)
(* The cached balance of one user: BillingCacheService with its queue of   *)
(* cache writes and its workers, and repository/billing_cache.go.          *)
(*                                                                         *)
(* A balance is what has been taken off it.  The model keeps how often     *)
(* each charge is counted in the cached value, so that 1 for every charge  *)
(* in the database is right, and top-ups need no numbers.                  *)
(***************************************************************************)
EXTENDS Integers, FiniteSets

CONSTANTS
    Ids,          \* request ids, each charged once
    Loads,        \* loads of the balance on their way to the cache
    CacheRoom,    \* cacheWriteBufferSize
    MaxUpsets,    \* calls that fail, invalidations and crashes, taken together
    NoEntry

ASSUME BalanceCacheAssumption ==
    /\ CacheRoom \in Nat /\ MaxUpsets \in Nat
    /\ IsFiniteSet(Loads)
    /\ NoEntry \notin [Ids -> 0..(2 + MaxUpsets)]

VARIABLES
    cached,    \* the entry in redis
    deducts,   \* the deductions in the queue or with a worker
    load,      \* each load, and its write once that is in the queue
    channel,   \* cacheWriteChan, and stopped
    upsets,
    drifted    \* history: the charges a load overlapped, or whose deduction
               \* failed or was sent again

cacheVars == <<cached, deducts, load, channel, upsets, drifted>>

\* "flagged": stopped is set; "closed": the channel is closed; "gone": nil.
Channels == {"open", "flagged", "closed", "gone"}

NoLoad == [at |-> "idle", counts |-> NoEntry]

CacheTypeOK ==
    /\ cached \in {NoEntry} \cup [Ids -> 0..(2 + MaxUpsets)]
    /\ deducts \subseteq Ids
    /\ load \in [Loads -> [at : {"idle", "miss", "look", "send", "queued"},
                           counts : {NoEntry} \cup [Ids -> 0..1]]]
    /\ \A l \in Loads : load[l].at \in {"idle", "miss"} <=> load[l].counts = NoEntry
    /\ channel \in Channels
    /\ channel = "gone" => deducts = {} /\ \A l \in Loads : load[l].at # "queued"
    /\ upsets \in 0..MaxUpsets
    /\ drifted \subseteq Ids

CacheInit ==
    /\ cached = NoEntry
    /\ deducts = {}
    /\ load = [l \in Loads |-> NoLoad]
    /\ channel = "open"
    /\ upsets = 0
    /\ drifted = {}

Upset == upsets < MaxUpsets /\ upsets' = upsets + 1

Queued == Cardinality(deducts) + Cardinality({l \in Loads : load[l].at = "queued"})

Outstanding == {l \in Loads : load[l].at \in {"look", "send", "queued"}}

\* deductBalanceScript: without an entry nothing is done.
Deducted(i) == IF cached = NoEntry THEN NoEntry ELSE [cached EXCEPT ![i] = @ + 1]

\* A call that fails may have reached redis.
DeductCall(i) ==
    \/ cached' = Deducted(i) /\ UNCHANGED <<upsets, drifted>>
    \/ Upset /\ cached' \in {cached, Deducted(i)} /\ drifted' = drifted \cup {i}

\* The script runs and its reply is lost: the redis client sends the call again,
\* and the script takes the amount off each time.
DeductUnheard(i) ==
    /\ Upset
    /\ cached' = Deducted(i) /\ drifted' = drifted \cup {i}

-------------------------------------------------------------------------------
\* GetUserBalance misses, or redis fails; one load of a user runs at a time.
Miss(l) ==
    /\ load[l].at = "idle"
    /\ \A m \in Loads : load[m].at \in {"idle", "queued"}
    /\ (cached = NoEntry /\ UNCHANGED upsets) \/ Upset
    /\ load' = [load EXCEPT ![l].at = "miss"]
    /\ UNCHANGED <<cached, deducts, channel, drifted>>

\* charged is what the database has, pending those of them whose deduction has
\* not reached the cache.
ReadBalance(l, charged, pending) ==
    /\ load[l].at = "miss"
    /\ \/ /\ load' = [load EXCEPT ![l] = [at |-> "look",
                                counts |-> [i \in Ids |-> IF i \in charged THEN 1 ELSE 0]]]
          /\ drifted' = drifted \cup pending
          /\ UNCHANGED upsets
       \/ Upset /\ load' = [load EXCEPT ![l] = NoLoad] /\ UNCHANGED drifted
    /\ UNCHANGED <<cached, deducts, channel>>

\* enqueueCacheWrite: first it looks at stopped, ...
LoadLooks(l) ==
    /\ load[l].at = "look"
    /\ load' = [load EXCEPT ![l] = IF channel = "open" THEN [load[l] EXCEPT !.at = "send"] ELSE NoLoad]
    /\ UNCHANGED <<cached, deducts, channel, upsets, drifted>>

\* ... then it sends.  The write is dropped when the queue is full; a send on
\* the closed channel panics.
CanSend == channel \in {"open", "flagged"} /\ Queued < CacheRoom

LoadSends(l) ==
    /\ load[l].at = "send"
    /\ load' = [load EXCEPT ![l] = IF CanSend THEN [load[l] EXCEPT !.at = "queued"] ELSE NoLoad]
    /\ UNCHANGED <<cached, deducts, channel, upsets, drifted>>

\* The workers of cacheWriteWorker take their tasks in the order of the queue
\* and finish them in any.  CacheRoom counts the tasks they have in hand too.
\* A SET that is not answered may be sent again, later.
WorkerSets(l) ==
    /\ load[l].at = "queued"
    /\ \/ /\ cached' = load[l].counts /\ UNCHANGED upsets
          /\ load' = [load EXCEPT ![l] = NoLoad]
       \/ /\ Upset /\ cached' \in {cached, load[l].counts}
          /\ load' \in {load, [load EXCEPT ![l] = NoLoad]}
    /\ UNCHANGED <<deducts, channel, drifted>>

\* Mutant: a worker quits when it sees stopped, whatever the queue holds.
WorkerDeducts_Quits(i) ==
    /\ i \in deducts /\ channel = "open"
    /\ DeductCall(i)
    /\ deducts' = deducts \ {i}
    /\ UNCHANGED <<load, channel>>

WorkerDeducts(i) ==
    /\ i \in deducts
    /\ DeductCall(i)
    /\ deducts' = deducts \ {i}
    /\ UNCHANGED <<load, channel>>

WorkerDeductsAgain(i) ==
    /\ i \in deducts
    /\ DeductUnheard(i)
    /\ UNCHANGED <<deducts, load, channel>>

\* Mutant: deductBalanceScript sets what it changes without a TTL.
Expire_Untouched ==
    /\ cached # NoEntry
    /\ cached' = IF \A i \in Ids : cached[i] < 2 THEN NoEntry ELSE cached
    /\ UNCHANGED <<deducts, load, channel, upsets, drifted>>

\* The TTL, which every deduction starts again.
Expire ==
    /\ cached # NoEntry /\ cached' = NoEntry
    /\ UNCHANGED <<deducts, load, channel, upsets, drifted>>

\* InvalidateUserBalance, after a top-up or an edit.
Invalidate ==
    /\ cached # NoEntry /\ cached' = NoEntry /\ Upset
    /\ UNCHANGED <<deducts, load, channel, drifted>>

\* Stop: stopped is set, the channel is closed, and when the workers have
\* emptied it, it is forgotten.
StopFlags ==
    /\ channel = "open" /\ channel' = "flagged"
    /\ UNCHANGED <<cached, deducts, load, upsets, drifted>>

StopCloses ==
    /\ channel = "flagged" /\ channel' = "closed"
    /\ UNCHANGED <<cached, deducts, load, upsets, drifted>>

StopEnds ==
    /\ channel = "closed" /\ Queued = 0 /\ channel' = "gone"
    /\ UNCHANGED <<cached, deducts, load, upsets, drifted>>

CacheWorker ==
    \/ \E l \in Loads : WorkerSets(l)
    \/ \E i \in Ids : WorkerDeducts(i) \/ WorkerDeductsAgain(i)
================================================================================
