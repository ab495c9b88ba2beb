# TLA+ models of sub2api

sub2api is a gateway: it receives LLM API requests of many users, picks one of
many upstream accounts for each, forwards the request, and bills it. The Go
backend (`src/backend/internal`) serves concurrent HTTP requests, keeps shared
state in redis and a SQL database, runs a dozen background workers, and may run
as several processes, or as one process with an embedded database and an
embedded redis (miniredis).

This directory holds TLA+ models of the parts in which concurrency, failures and
time decide whether the program is right, TLC configurations that check them on
small instances, and proofs of the main properties for all instances.

Run a check with `tlc -config <cfg> <module>` and a proof with `tlapm <module>`.
`PROJECT.json` maps every definition to the lines it translates, lists the runs
with their properties, one mutation of the model per property that the run must
detect, the hazards of the code with the properties that cover them, and the
findings.

## 1. The system: an inventory

| component | state | operations | what is hard | what makes it right | module |
|---|---|---|---|---|---|
| **Concurrency slots and wait queues** (`concurrency_service.go`, `concurrency_cache.go`, `gateway_helper.go`) | one sorted set and one wait counter per user and per account in redis; release functions in the handlers | acquire, release, queue, wait with timeout, release on context end, cleanup worker, startup cleanup | release callbacks race with deferred releases; calls fail after they took effect or run twice; panics; several processes that start and die over one redis | limits hold; slots are lost, taken and waiters miscounted in known ways only | `ConcurrencySlots` |
| **Account failover loop** (`failover_loop.go`, `GatewayHandler.Messages`) | switches, per-account retries, excluded accounts, last error, fallback group | retry on the same account, switch, start over after 503, fallback group, stop after content | nested loops with resets; temporary blocks that affect everybody | terminates, bounded, never splices two answers | `FailoverLoop` |
| **User message queue** (`user_msg_queue_*.go`) | one lock and one completion time per account in redis | acquire with wait, delay, release on acceptance, return, panic or context end; orphan cleanup | locks that lapse or lose their TTL; late releases; two-step cleanup | serial and spaced, no lock left behind, nobody else's lock removed | `UserMsgQueue` |
| **OAuth token refresh** (`oauth_refresh_api.go`, `*_token_provider.go`, `token_refresh_service.go`) | credentials in the database, token cache and refresh lock in redis, a mutex per account in each process, the rotating refresh token at the upstream | refresh under two locks, recover from `invalid_grant`, background loop, cache | a refresh token works once; the lock has no owner; every step may fail or lose its client | the one accepted token is kept, due tokens are refreshed, healthy accounts are not condemned | `OAuthRefresh` |
| **Idempotent writes** (`idempotency.go`, `idempotency_repo.go`) | one record per scope and key | create, read, take over an expired or failed record, execute, mark; cleanup | compare-and-set on what was read earlier; lost replies; crashes; executions that fail halfway | one execution at a time, effects repeated in known ways only, truthful replays | `Idempotency` over `IdempotencyRecords` |
| **System operation lock** (`system_operation_lock_service.go`) | one idempotency record with a lease and a renewing goroutine | acquire or take over, renew, release | a takeover meets a renewal that identifies the lock differently | one operation at a time, recovers after a crash | `SystemOperationLock` over `IdempotencyRecords` |
| **Scheduler snapshots and outbox** (`scheduler_snapshot_service.go`, `scheduler_cache.go`, `scheduler_outbox_repo.go`, `account_repo.go`) | versioned account lists, account entries, bucket locks and the watermark in redis; the outbox table | change an account and tell of it, poll the outbox, rebuild, activate, serve a list | a rebuild that is skipped counts as done; versions are given out after reading; ids become visible out of order; the lock has no owner; events are suppressed | a notice is lost in known ways only, the list catches up, it does not go back | `SchedulerSnapshot` |
| **Usage billing** (`usage_billing_repo.go`, `gateway_service.go`, `dashboard_aggregation_repo.go`) | the table of claims and its archive, balances | one transaction per record: claim, look into the archive, charge, commit; archival | repeated and conflicting ids, archival in between, a commit without an answer | each id is paid once, and records are answered truly | `UsageBilling` |
| **Usage record worker pool** (`usage_record_worker_pool.go`) | bounded queue, workers | submit, overflow policies, stop | full or stopping pool | what was accepted is worked off, also by a shutdown | `UsageBilling` |
| **Billing cache and circuit breaker** (`billing_cache_service.go`, `billing_cache.go`) | cached balance, queue of cache writes, breaker state | load, deduct (queued or at once), expire, invalidate, stop | loads queued around deductions; deductions sent twice; a stop beside the pool's | a charge counts once unless a load overlaps it or its deduction fails or is repeated; an error does not stay | `BalanceCache`, without the breaker |
| Deferred updates | map of last-used times | schedule, flush | failed flush against newer values | a stored time never goes back | not modelled |
| API key cache, websocket pool, session limits, payments, redeem codes, background jobs | see `PROJECT.json` | | | | not modelled |

How they interact. A request to `/v1/messages` goes through
`GatewayHandler.Messages`: it takes a slot of its user (waiting in a counted
queue), then, in the **failover loop**, selects an account and takes a **slot**
of it, passes the **user message queue** of that account, asks the token
provider for an access token (**OAuth refresh**), and forwards; afterwards it
releases slot and lock, and hands the usage to the **worker pool**, whose workers
run **billing** and pass the deduction on to the **billing cache**, which the next
request asks whether the user can pay. The selection reads the lists of the
**scheduler snapshots**, which follow the account table through the outbox. The shared state is in redis (slots, counters, queue locks, refresh
locks, token cache), reached by scripts or single commands, and in the database.
The slots and the queue lock are also released by `context.AfterFunc` callbacks
when the request's context is done. Administrators' writes go through
**idempotency**; updates, rollbacks and restarts also take the **system
operation lock**, which is itself an idempotency record.

The account that the selection would choose, and what the upstream answers, are
nondeterministic choices in all models.

**Processes.** With an external redis and database several processes may serve side by
side. `ConcurrencySlots` and `OAuthRefresh` have any number of them. In `Idempotency`,
`SystemOperationLock` and `UserMsgQueue` it does not matter which process a call runs
in, as what it shares is in the database or in redis; each call may die for itself, or
with any others. `SchedulerSnapshot` has one outbox worker and one interval worker,
and `UsageBilling` one pool, one cache service and its queue: **these two assume a
single process**. With more, the pollers would write one watermark without comparing
it, which is not modelled. `FailoverLoop` is one request.

**Repeated calls.** The redis client is built with the default `MaxRetries`
(`redis.go:67-77`), so a call whose reply is lost is sent again: a script that is not
idempotent has its effect twice while the call succeeds. `ConcurrencySlots` counts the
further runs of a wait counter's script (`resent`), and lets an acquire run
twice with one id. `BalanceCache` repeats deductions (`DeductUnheard`) and writes. A SETNX
that is repeated finds its own lock and reports it as taken, so that nobody releases it:
`TakeLock` of `OAuthRefresh` and `Lock` of `SchedulerSnapshot` have that case. A DEL
that is repeated may end the next owner's lock, which is a lapse of that lock
in both. The scripts of `UserMsgQueue` compare an id and may be repeated.
The database drivers repeat nothing that may have been carried out.

## 2. Modules

One module per component, one action per redis or database call with the local
code around it, since other goroutines can run between any two calls and at no
finer grain that matters. A helper that several actions share is an operator.
Definitions that end in `_Something` and are commented `Mutant:` are faulty
variants used to see that a property can fail; no specification uses them.

**`RedisSlots`**: the data type of the slots. A sorted set is a function
from slot ids to ages (`Absent` or `0..SlotTTL`); the operators are the Lua
scripts of `concurrency_cache.go`, each a function of the set. A wait counter is
a number with the age of its key.

**`ConcurrencySlots`**: the handler's way through both queues.
`pc` is the place in `Messages`; `userSlot`, `acctSlot` and `counted` are what
the release closures and the deferred decrement will give back. `EnterUserQueue`,
`TakeUserSlot`, `RetryUserSlot`, `GiveUpUserSlot`, `LeaveUserQueue` and their
account counterparts follow `gateway_helper.go`. Selecting an account is
`SelectNext` for each account whose slot is refused or whose acquire errs, and
`SelectWithSlot`, after which the selection may still give the slot back
(`SessionFull`) or fail to read the account and leave the slot behind
(`NotHydrated`, from `newSelectionResult`). `ForwardPanics` unwinds through
the deferred calls only, as the code does; `ReleaseUserOnDone` and
`ReleaseAcctOnDone` are the callbacks. A redis call may fail before or after it
took effect, and a script may run again for one call: acquire knows its id then, the
wait counters count again. `StartupCleanup` starts a process: it takes the slots
of all other prefixes, also of processes that run, may stop after any part of its
scan, and is one step, as all properties speak of one key at a time; what else a
process does before it serves is left out. `Die` ends a process with its requests; a
process that is started again has a new prefix, so it is another member of `Procs`.
`CleanupAccount`, `SlotKeyExpires`, `WaitKeyExpires` and `Tick` are the worker, redis
and time. `faults`, `resent` and `unhydrated` count calls that returned an error,
further runs of a counter's script, and selections that left a slot behind.

**`FailoverLoop`**: the two nested loops of one request with `FailoverState`.
`phase` is the place in the loop; `forwards` and `calls` are history. `lastErr` carries what the loop looks at:
whether the error may be retried on the same account, and the class of its
status. A sleep that the client interrupts ends the request (`canceled`).

**`UserMsgQueue`**: one account's lock and the requests that want it.
`held` is the id that the release closure carries, which may differ from `lock`
after a lapse. `Scan` and `ForceRelease` are two steps, as in the cleanup worker.

**`OAuthRefresh`**: one account, several processes. Credentials are generations;
generation g stands for the access token, the refresh token and the
`_token_version` stored together, and the upstream accepts only the newest.
`RefreshIfNeeded` is `TakeMutex`, `TakeLock`, `Reread`, `RefreshOK` /
`RefreshInvalid` / `RefreshFails`, `Recover`, `Persist`, `Unlock`. The lock
stores no owner; `lockOwner` is history, and a release deletes whatever is there.
A request's calls fail once its client has left, as they use its context. A SETNX
that is sent twice leaves a lock nobody will release.

**`IdempotencyRecords`**: the statements of `idempotency_repo.go` on the one
record of a key. Points in time are relative to the present, and a call that
read the clock `age` ticks ago counts from there, as the code computes deadlines
from one `time.Now()`.

**`Idempotency`**: `Execute` of calls with one key. An execution that returns an error
(`ExecuteFails`) or dies (`Crash`) may have applied its effect, in part or whole: callers
create codes one by one (`admin_service.go:3006`), or lose the answer of a commit.
`applied` and `memory` are history: whose effect was applied, and until when it must not
be repeated. So are `halfway` (the last effect is that of an execution that returned
an error) and `overtaken` (since the last effect, a call has taken over a record that
it had read as succeeded and expired, and that another one had renewed meanwhile).

**`SystemOperationLock`**: `Acquire`, `renewLoop`, `Release` over the same
records. `OpId` gives a repeated call the id of the first.

**`SchedulerSnapshot`**: one bucket. A reading of the database is the number of
changes it has seen (`hist[r]` is what it finds), and a snapshot or an account entry
is the reading it was made from; versions are an order, kept in `inFlight`. A writer
is `Save`, `Uncache` (after a deletion), `Insert` and `Commit` of the event, `Sync` and
`SyncPut` of the entry. The outbox worker is `PollReads`, `EventFetch`, `EventPut`, a
rebuild, `Mark`; the rows it has read and not handled yet are a set, of which `First`
is next. A rebuild, by the outbox worker, the interval worker or a
request that misses, is `Lock`, `Read`, `Number`, `Write`, `Activate`, `Unlock`; any
of them may fail, the lock may lapse under its holder, and the process may die.
`excused` is history: the changes whose notice was lost in one of the ways the code
has for it (a rebuild found the bucket locked or read before the change; an
equal event of the last second; a row that became visible late; a failed INSERT; a
crash).

**`UsageLedger`**: what billing promises, without queues, transactions, archives
or caches: the abstract specification of `UsageBilling`. A record asks, and is
charged, refused or failed.

**`BalanceCache`**: the cached balance of one user. The cached value is kept as how
often it counts each charge, so 1 for each charge in the database is right, 2 is a
charge deducted twice and 0 one missed. `Miss`, `ReadBalance`, `LoadLooks`,
`LoadSends`, `WorkerSets` are the load; `LoadLooks` and `LoadSends` are the two steps of
`enqueueCacheWrite`, between which the service may be stopped. `drifted` is
history: the charges that a load overlapped, or whose deduction failed (with or without
effect) or was sent again. `WorkerDeductsAgain` and `FallsBackAgain` are the script
that has run and will run again.

**`UsageBilling`** extends it with the pool, the transaction of `Apply` (`Claim`,
`CheckArchive`, `Commit`, `Rollback`), the archival, `QueueDeductBalance` (`Looks`,
`Sends`, `FallsBack`), crash and shutdown, in which `provideCleanup` stops pool and
cache at the same time.

**`ConcurrencySlotsProofs`, `FailoverLoopProofs`, `UserMsgQueueProofs`,
`OAuthRefreshProofs`, `IdempotencyProofs`, `SystemOperationLockProofs`,
`SchedulerSnapshotProofs`, `UsageBillingProofs`**: theorems, section 6.

The `MC*` modules only name constant functions and symmetry sets for TLC.

## 3. Runs

| run | shows | distinct states |
|---|---|---|
| `slots` | two requests, one user slot, one account slot, two processes that start and die, one mishap (a failed call, a repeated increment or decrement, or an account that cannot be read after its slot was taken): `RunningWithinLimit`, `LiveSlotKept` (only another process's startup takes a live slot), `LeakBound` (every lost slot is a failed call or an account not read), `NoPhantomWaiters`, `NoStaleSlots`, and the inductive invariant `SlotsInv` | 1.6 M |
| `slots_live` | the same for one request of an unlimited user that may fail over, with fairness: `EveryRequestEnds`, and it holds nothing then | 26 k |
| `failover` | three accounts, three switches, two retries each, a fallback group: `ForwardsBudget`, `NoSplice`, `BlockEarned`, `Terminates` | 1.8 M |
| `umq` | two requests with two attempts each; one failed call, one lost TTL, one crash: `Serialized`, `SpacedForwards`, `NoOrphan`, `LockKept`, `EveryRequestEnds`, `OrphanGoes` | 0.3 M |
| `oauth` | one request and two background loops in two processes, with any two of failed calls, lapses and crashes: `TokenKept`, `NotCondemned`, `EveryRequestEnds`, `DueTokenRefreshed` | 0.2 M |
| `oauth_embedded` | violated: on miniredis a lock that was not released blocks every later refresh | |
| `idem` | three calls with one key and any payloads; one failed call, one crash, executions that fail with or without an effect: `OneAtATime`, `RepeatHasCause`, `ReplayTruthful` | 13.1 M |
| `syslock` | three operations, one repeating another; one failed call, one crash: `InserterAlone`, `LockRecovers` | 5.2 M |
| `syslock_reclaim` | violated: two system operations at once | |
| `scheduler` | two writers of one account, two rebuilding workers, a request; two upsets (changes, requests, failed calls, lapses, crashes) in any combination: `LostOnlyAsExcused`, `NeverOlder`, `CatchesUp` | 0.4 M |
| `sched_sticky` | violated: the entry of an account that was limited stays as it was before | 4 k |
| `billing` | two records, of which the second repeats, conflicts with or has nothing to do with the first; a load, archival, a shutdown, one upset (failed call, lost or repeated call, lost commit reply, invalidation, crash): `BilledAsLedger` (refinement of `UsageLedger`), `CountedOnce`, `CacheSettles`, `StopDrains` | 0.6 M |

`BilledAsLedger` is the refinement: `UsageBilling` implements `UsageLedger` with the
payer of an id read from the claims and, for what has been moved, from the archive.
Every claim, archival, rollback, crash and lost reply maps to a step of the
ledger or to none.

Conditions inside the properties are the ones under which the code can keep the
promise, and no more. `TokenKept` excepts failed calls, crashes and clients that
leave, each of which loses the new token between the upstream's answer and the
database, but not a lapse of the lock. `NoOrphan` and `SpacedForwards` except
failed calls; `NoOrphan` a crash as well. `Serialized` allows one more request per lapse, and
`LeakBound` and `NoPhantomWaiters` one unit per mishap of the kinds they name, rather
than excluding them. `LiveSlotKept` excepts the startup of another process,
`NoPhantomWaiters` counters that a process left behind when it died and nobody has
cleaned up since. `RepeatHasCause` names two causes and `CountedOnce` three.

### Bounds

* Two contenders for a limit of one make every race at the limit; with a third
  party (worker, redis, a process that starts) there are three actors. `idem` and `syslock`
  have three contenders because a takeover needs a first owner and two rivals.
* `MaxFaults`, `MaxTTLLosses`, `MaxCrashes`, and `MaxMishaps` in `slots`, are 1: the properties either
  except what they bound or count it, and one is enough to reach every error
  path. The theorems have no such bound. `MaxMishaps` in `oauth` and `MaxUpsets` in
  `scheduler` are 2 for all kinds together, so that every pair of kinds meets;
  `MaxUpsets` in `billing` is 1. With three upsets `scheduler`'s invariants and
  `NeverOlder` hold in 12.3 M states too.
* Two processes in `slots` and `slots_live`: one that cleans up beside the other, or
  after its death. Three slot ids, two with the prefix of one process and one with the
  other's: a fresh id is one nobody refers to, so they can be reused. The user's
  queue has room for two waiters and the account's for one, so that a repeated
  increment fits and a queue fills up.
* `SlotTTL = WaitTTL = 1`, `LockTTL = 2`, `Delay = 1`: a slot is live, then stale,
  with every interleaving of expiry; the lock can lapse during or after the delay.
* `MaxGen` is 1 in `oauth`: one refresh, for which three workers race. With two
  generations and one mishap the same five properties hold in 0.5 M states.
* In `scheduler` all changes are to `a1`; `a2` keeps the list from being empty. Two
  writers are what it takes for one event to suppress or overtake another.
* In `billing` `CacheRoom`, `QueueSize` and `WorkerCount` are 1, so that both queues
  are full as soon as there is a second task. One load suffices: singleflight lets a
  user have one at a time, and a second load after the first is another round.
* `TTL = 4, Lease = 2, MaxAge = 3` in `idem`: a call can outlast the processing
  lock but not the record. With the defaults (24 h, 30 s) the same holds unless a
  call runs for a day. `MaxClaim = 1 < Lease`: no call takes 30 s to get its record;
  one that did would leave a lock that has lapsed when it starts, and the next
  call could take the record over as well.
* `Lease = 6, RenewInterval = 2` in `syslock` keep the ratio of the code (a third),
  and `MaxAge = 6` lets an operation run for a whole lease. A renewal is not later
  than the next tick. `TTL = 8` is the least with `MaxAge + MaxClaim < TTL`, which
  `InserterAlone` needs (section 6).
* `FailoverLoop` counts calls and forwards without a cap; they are bounded by the model.
  So are `lapses` in `UserMsgQueue`.

### Fairness

The runs `slots_live`, `failover`, `umq`, `oauth`, `oauth_embedded`, `scheduler`,
`sched_sticky` and `billing` assume fairness.

* A handler always moves on: every wait has a deadline, every redis call and
  Forward has a timeout or ends with its context. In `ConcurrencySlots` the
  fair actions are those that get on (`Progress`): a retry that fails is not
  among them, since the wait loop is cut off by its timeout, and `GiveUpUserSlot`
  is always possible.
* `context.AfterFunc` callbacks run once the context is done, and `net/http` ends
  the context when the handler returns or panics.
* Time passes (`Tick`), and in the modules that have one the background worker ticks.
  In `ConcurrencySlots` no process has to start, and no cleanup to run.
* `SF(TakeMutex)`: Go's mutexes do not starve a waiter (starvation mode).
* `LockExpires` is fair where key TTLs run at all (`KeyTTLRuns`).

* In `SchedulerSnapshot` writers and rebuilds that have begun go on, the interval
  worker begins again, and a lock whose holder is gone lapses. The outbox worker need
  not poll in `scheduler`: `CatchesUp` rests on the interval rebuild alone. In
  `sched_sticky` it polls for ever, so that the violation is not its absence.
* In `UsageBilling` records that have begun go on, the cache workers work off
  their queue, a cached balance expires, and a shutdown that has begun goes on.
  Expiry is what `CacheSettles` needs: each deduction starts the TTL again, so it
  says nothing of a user whose requests never pause.

No run lets a client leave by fairness, no call is assumed to succeed, and a key
in redis is never assumed to expire in `ConcurrencySlots`.

## 4. Findings

1. **A refresh lock that stays for ever on the embedded redis**
   (`oauth_embedded`). `ReleaseRefreshLock` is deferred with the caller's context
   (`oauth_refresh_api.go:104`); in the request path a client that leaves makes
   the DEL fail. With a real redis the lock lapses after its TTL. The embedded one
   counts TTLs down only when told to, and nobody does: the account's token is not
   refreshed again until the process restarts.
2. **Two system operations at once** (`syslock_reclaim`). A takeover does not
   write `request_fingerprint`, by which renewals find the record: an operation
   that took over fails its first renewal and loses the lock after one lease.
   `InserterAlone` shows that the operation that inserted the record is safe.
3. **A limited account that sticky sessions take for usable** (`sched_sticky`).
   `syncSchedulerAccountSnapshot` writes the account's entry when it is limited or
   put into error. A rebuild that has read the account before writes its entry
   later, without a comparison. The lists of the next rebuilds leave the account
   out, and only listed accounts' entries are written, so the old entry stays until
   the account's next change.

What was found beside the runs, by properties that were tried:

* `CheckTokenVersion` and `SetAccessToken` are two steps; a background refresh fits
  between them, and the old token is cached until its TTL, which
  `token_cache_invalidator.go:70` means to prevent.
* `TryReclaim` of the idempotency records compares id, status and lock, not the
  expiry. Two calls that read the same succeeded record as expired both take it over
  if the first succeeds before the second gets there: an effect is applied twice
  within the TTL. `RepeatHasCause` (run `idem`) says that there is one other way, the
  next. It does not say that the second call is the one that repeats the effect: if that
  one fails, a further call may take over after it, for which it takes four calls.
* An execution that returns an error is marked as retryable whatever it has applied
  (`idempotency.go:399-416`): after the backoff the same request is executed again from
  the start. Codes that were generated before the error (`admin_service.go:3006-3031`,
  `redeem_handler.go:212-233`) stay, and come again.
* `newSelectionResult` (`gateway_service.go:2776-2780`) returns an error when the account
  whose slot has been taken cannot be read again, and nobody calls the release function:
  the slot counts until its TTL. `LeakBound` counts these as `unhydrated`.
* The increment of a wait counter (`concurrency_cache.go:100-139`) is not idempotent and
  is repeated by the redis client when its reply is lost: one waiter is counted twice,
  and decremented once, until the counter's TTL.
* The startup cleanup (`concurrency_cache.go:171-190`, `497-519`, `wire.go:184`) takes
  every slot without the prefix of the process that starts, and all wait counters:
  also those of other processes that are serving, whose limits are then exceeded until
  their running requests end. `RunningWithinLimit` speaks of requests whose slots still
  count, and `LiveSlotKept` says that nothing else takes one.
* `deductBalanceScript` (`billing_cache.go:74-83`, `161`) is repeated in the same way: the
  cached balance is off by the charge until its TTL.
* The TTL of the system operation lock has to outlast an operation and, on top of it,
  the time an Acquire takes. With `MaxAge + MaxClaim = TTL` and four operations TLC
  finds `InserterAlone` violated: a Release that comes late, just after the record
  has expired and been replaced, lets a third operation in. The bound in the theorem
  `InserterRunsAlone` is therefore exact; with the defaults it says that no update
  may take an hour.
* A load of the balance that is queued around a deduction leaves the cached balance
  off by the charge, up or down, and every further deduction prolongs it
  (`billing_cache.go:82`). `CountedOnce` says which charges can be affected.
* On shutdown a billing record that has seen the cache service running may send on its
  channel after it was closed (`billing_cache_service.go:185`). The pool recovers the
  panic; the deduction and the usage log of the record are lost, the charge is not.

While modelling it also appeared that a record left in `processing` (crash, panic,
client gone before the mark) answers "in progress" until it expires, whatever
its `locked_until`; the configuration calls that a timeout of the processing lock.

## 5. Only model-checked, and not modelled

Every invariant and every action property that a passing run checks is also a
theorem (section 6). What stays with TLC is liveness: `EveryRequestEnds` (three
runs), `Terminates`, `OrphanGoes`, `DueTokenRefreshed`, `CatchesUp`, `CacheSettles` and
`StopDrains` rest on fairness, whose meaning is ENABLED, which the provers do not
handle. The three violated properties are shown by TLC's counterexamples.

Left out of the modelled parts: the batch load snapshot and its five-second cache,
ping frames, waiting times and backoff lengths, the jitter and RPM dependence of
the queue's delay, the throttle mode of the queue (a sleep without shared state),
the privacy calls and the temporary block after a refresh gave up, the hashing of
keys and encoding of stored answers, metrics and logs. The OpenAI and Gemini
handlers repeat the skeleton of `Messages` and are not modelled separately.
Of the scheduler: bulk, group, last-used and full-rebuild events, more than one
bucket, the mode without an outbox, and the separate reads of `GetSnapshot`. Of
billing: subscription, quota and rate-limit effects, which share the transaction
and its fate; free requests; the modes that do not bill; the auto-scaler of the
pool; the subscription and rate-limit entries of the cache; the circuit breaker.
Deferred last-used updates: a lost or older time changes the order in which
accounts are preferred, and nothing else.
Protocol conversion, statistics, settings, pages and generated code hold no
protocol of their own. They are most of the repository: of its 450,000 lines of
implementation some 216,000 are generated database code, the gateway services are
request and response conversion, and the rest is largely create, read, update and
delete over SQL, and user interface. The lines that decide about shared state
between concurrent actors are a few thousand, and those are what the models
cover. `PROJECT.json` gives the reason for each component.

Model-wide simplifications: one account (or key) where accounts share nothing
(`UserMsgQueue`, `OAuthRefresh`, `Idempotency`; one bucket in
`SchedulerSnapshot`, one user in `BalanceCache`); a redis script is atomic, as redis
runs it; the clocks of several processes agree, as redis's own TIME is used where
it matters and the database's deadlines are far coarser than skew.

## 6. Proofs

All theorems are about `Spec` without fairness and hold for every value of the
constants that the named ASSUMEs of the modules allow: any number of requests, users,
accounts, processes, calls, records, faults, lapses and crashes, where TLC takes two or
three. Where a property counts, the assumption says that the set it counts in is
finite. The `MC` configurations satisfy all assumptions and hypotheses. No theorem has
a hypothesis beside the assumptions, with three exceptions named below, which are
bounds on time that the code's defaults meet.

Each module is laid out the same way: lemmas on data, types, one lemma per invariant
with a step for each action, and the theorems.

**`ConcurrencySlotsProofs`**, from `RedisSlotsAssumption` and
`ConcurrencySlotsAssumption`:

* `SlotsInvariant`: `Spec => []SlotsInv`. The limit alone is not inductive. A
  running request must be tied to a stored id (`Running` is defined by what is
  live), ids of different holders must differ (`HoldersDistinct`), the set must
  store no more than the limit (`StoreWithinLimit`, which an acquire preserves only
  because it purges before it counts), a request must hold slots only where it
  releases them (`HeldInPhase`, so that a new slot overwrites none), and only slots
  with the prefix of the process that serves it (`HeldIsOwn`, which lets that
  process's own startup cleanup spare them).
* `WithinLimit`: `RunningWithinLimit` follows: running requests map injectively
  to stored ids.
* `SlotsKept`: `LiveSlotKept`, action by action: each script keeps the live ids
  of other holders (`AcquireScript`, `RunEffect`, `ReleaseEffect`, `OlderEffect`,
  `KeepOnlyEffect`), and `KeepOnly` those of the process that starts.
* `LeaksAreMishaps` (`LeakBound`) and `StaleSlotsGone` (`NoStaleSlots`), from
  `OwnersInv`. `Charged` is the argument for the first: an action adds at most one
  leaked slot, and when it adds one it adds a fault or an account not read, because a
  holder is forgotten only where its release ran, with its process, or in
  `NotHydrated`. A refused acquire leaves nothing behind however often it ran
  (`RefusedPurges`). The second needs that no id in a set has the prefix of a process
  still to come, and that what is dead stays dead (`OlderDead`).
* `NoWaiterForgotten` (`NoPhantomWaiters`), from `CountedInPhase` and
  `CountersCovered`: a counter is covered by the requests counted on it, the
  faults and the repeated runs, from the first start on until a process dies, and again
  once another has cleaned up after it.
* `TypeCorrect`: the types.

**`FailoverLoopProofs`**, from `FailoverLoopAssumption`: `LoopInvariant` (`IInv`: content
on the wire ends the request; an error was seen before an account is excluded; each
retry of an account was preceded by a forward to it; the account is chosen when it is
used), and from it `TypeCorrect`, `ErrorReported`, `NeverSpliced` and `BlocksEarned`.
`ForwardsBounded` (`ForwardsBudget`) needs an account of the calls: `Covered` charges each
to a switch, to a retry out of the set `Accounts \X 1..MaxSameAccountRetries`, or to
the one that has just been answered. Starting over empties the exclusions and takes
nothing out of that set, which is why it buys no further call.

**`UserMsgQueueProofs`**, from `UserMsgQueueAssumption`. `Serialized` counts
the requests that carry a lock id, and is not inductive: an acquire adds one
whenever the lock is free. `QueueInvariant` counts those whose id is not the lock's
(`OustedByLapse`): an acquire adds none, a lapse adds at most one, every release
takes away. With `HeldIsOwn` (two requests never carry one id) it gives
`SerialButForLapses`, and, action by action, `LockNotStolen`. `DelayIsKept`
(`SpacedForwards`) adds `PauseCovers`: what is left of the owner's pause makes up for
what is missing of the delay. `NoLockForgotten` (`NoOrphan`) follows one exit path
after the other.

**`OAuthRefreshProofs`**, from the assumptions of `OAuthRefresh`:

* `Known` orders the generations: what a worker knows is not newer than what is
  stored, nor that than what the upstream accepts (`Behind`); one worker at most has
  credentials to store, and they are the accepted ones (`OneStores`). It holds whatever
  fails or lapses, since it rests on the rotation at the upstream and not on the lock.
* `TypeCorrect`, `KeepsToken` (`TokenKept`) and `StoresOnlyNewer` follow from it: Persist
  compares no versions, and yet never stores older credentials over newer ones.
* `CondemnsNobody` (`NotCondemned`) needs the lock: `Guarded`, for as long as nothing
  fails or lapses, ties every worker past the lock to its ownership.

**`IdempotencyProofs`**, from `RecordsAssumption` and `IdempotencyAssumption`:

* `TypeCorrect` and `RepliesAreTrue` (`ReplayTruthful`) hold for all limits.
* `ExecutesAlone` (`OneAtATime`) and `RepeatsHaveCause` (`RepeatHasCause`) need
  `MaxAge < TTL` and `MaxClaim < Lease`: no call runs for as long as its record lives
  (24 h by default), none takes as long to claim one as the processing lock lasts
  (30 s). Nothing in the code enforces them; both are exact: with `MaxAge = TTL`, or
  with `MaxClaim = Lease`, TLC finds two calls that execute at once.
  Who may take a record over is decided on a copy and asked again only in part by
  TryReclaim, so `IInv` must say what has become of the copies: `StaleReaders` (who read
  a record in processing as expired finds it so still, or locked again) and
  `Remembered` (unless it was overtaken, or the last effect is that of an execution
  that returned an error, the record remembers the last effect).

**`SystemOperationLockProofs`**, from `RecordsAssumption` and `LockAssumption`:

* `TypeCorrect`, and `Recovers` (`LockRecovers`): the lease of the record is never longer
  than what the clock of the last activity leaves of it (`Recovering`).
* `InserterRunsAlone` (`InserterAlone`) under `InTime`: an operation and a further
  Acquire end within the TTL, and the lease covers an Acquire and all renewals that
  fail plus one. The code sets the renewal interval to a third of the lease, so
  that is one failed call and a margin of a third of the lease (10 s by default);
  the TTL is an hour. Neither bound can be met with equality: TLC then finds
  `InserterAlone` violated. `Owns` says what the inserter has: the record with its id and
  fingerprint, `Slack` left of the lease, a renewing goroutine, and nobody else who
  knows the record's id. `Covered` says that while anybody runs there is a record, so
  that a second INSERT never succeeds beside a running operation.

**`SchedulerSnapshotProofs`**, from `SchedulerSnapshotAssumption`. `Inv` has
three parts:

* Types, with `Batched` and `Telltale`, which the outbox's and the poller's need:
  `TypeCorrect`.
* `NoticesAreKept` (`LostOnlyAsExcused`). A change is `Accounted` for when the active
  snapshot has seen it or it is excused, and stays so (`AccountsKept`: an activation
  gives up excuses only for what it has seen, and makes them for what it undoes).
  `Known`: every change is accounted for, about to be told of, or in a row ahead of the
  watermark. That the watermark may advance takes the whole path of an event:
  `Covered` (each row up to the last that is read is to be handled, was invisible, or
  is accounted for), `Built` (the rebuild the poll waits for has read after it) and
  `Handled` (a poll that has been at the bucket accounts for all its rows), and
  for the rows it jumps over, `Passed` and `Told` (an open row has a writer, so
  that a crash excuses it when it aborts the row).
* `RebuildsNeverGoBack` (`NeverOlder`), from `Alone` (while no lock has lapsed under
  its holder, workers in the section exclude each other) and `NewerRead` (then a
  worker's reading is not older than the one in force, although its version
  number comes later).

**`UsageBillingProofs`**, from the assumptions of `BalanceCache` and `UsageBilling`:

* `ImplementsLedger`: `Spec => BilledAsLedger`, the refinement: the initial states map to
  the ledger's, and every step to a step of it or a stutter. What carries it is
  `OneClaim` (a transaction past its first lookup is alone on its id, and past its
  second there is no earlier payer in the archive) with `PayersAreThrough`.
* `TypeCorrect`, which includes that no id is in both tables of claims and that what
  was spent is the number of payers.
* `CountsOnce` (`CountedOnce`): `CacheInv` follows one token per charge. Its deduction is
  with its record or in the queue, never both (`OneDeduction`); a load that is under
  way while a token is out marks the charge as drifted (`Overlapped`), and any other
  load carries what is right (`LoadsRight`). A charge is counted at most by a load, by
  its deduction and by each upset (`RoomForOneMore`), which bounds the types.

## 7. Plan

Done: the components with a module above, in the order in which a request meets
them, then the records of the administrators' writes, the scheduler's lists and
billing.

The theorems cover the safety of all of them, `UsageBilling`'s refinement of
`UsageLedger` included.

Next, in this order:

1. `Lease`, an abstract lock with lapses, refined by `UserMsgQueue` and
   `SystemOperationLock`; `Semaphore` of `ConcurrencySlots`.
2. The circuit breaker in front of `GetUserBalance`, and the subscription entry
   beside the balance.
3. `DeferredService`: flush against concurrent updates; the two levels of the API key
   cache with their invalidation.
4. `SystemHandler`: `Idempotency` around `SystemOperationLock`, as in the handlers for
   update and rollback.

Sums are written as counters or cardinalities, and recursion with folds or recursive
functions, wherever a module is to be proved about.
