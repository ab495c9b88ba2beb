----------------------------- MODULE OAuthRefresh -----------------------------
(***************************************************************************)
(* Refreshing the OAuth token of one account: OAuthRefreshAPI, the token   *)
(* providers of the request path, TokenRefreshService in the background,   *)
(* the redis refresh lock and the redis token cache.  Several processes    *)
(* share the database, redis and the upstream.                             *)
(*                                                                         *)
(* Credentials are generations: generation g stands for the access token,  *)
(* the refresh token and the _token_version stored together.  The upstream *)
(* rotates: a refresh token works once, and yields the next generation.    *)
(***************************************************************************)
EXTENDS Integers, FiniteSets

CONSTANTS
    Requests,     \* callers of GetAccessToken
    Refreshers,   \* background refresh loops
    Procs,
    ProcOf,       \* [Requests \cup Refreshers -> Procs]
    MaxGen,       \* generations of the token
    MaxMishaps,   \* calls to redis, database or upstream that fail, refresh
                  \* locks that lapse under a caller still at work, and crashes
                  \* in one behaviour, taken together
    KeyTTLRuns,   \* FALSE for the embedded redis, whose key TTLs stand still
    NoWorker

Workers == Requests \cup Refreshers

ASSUME OAuthRefreshAssumption ==
    /\ IsFiniteSet(Workers) /\ Requests \cap Refreshers = {}
    /\ ProcOf \in [Workers -> Procs]
    /\ MaxGen \in Nat \ {0}
    /\ MaxMishaps \in Nat
    /\ KeyTTLRuns \in BOOLEAN
    /\ NoWorker \notin Workers

VARIABLES
    db,        \* the stored credentials
    upstream,  \* the generation whose refresh token the upstream accepts
    due,       \* generations up to this one are inside the refresh window; at
               \* first none is
    status,    \* the account's status
    cache,     \* the cached access token
    lockOwner, \* oauth:refresh_lock:{key}; only its existence is stored
    mutex,     \* the local lock of each process
    pc,
    mine,      \* the account object the worker was called with
    fresh,     \* freshAccount
    got,       \* the credentials Refresh has returned
    outcome,   \* what RefreshIfNeeded will return
    locked,    \* lockAcquired
    gone,      \* the request's context is done
    faults, lapses, crashes

vars == <<db, upstream, due, status, cache, lockOwner, mutex, pc, mine, fresh, got,
          outcome, locked, gone, faults, lapses, crashes>>

shared == <<db, upstream, due, status, cache>>

Gens == 0..MaxGen

NoToken == -1

PCs == {"new", "idle", "mutex", "lock", "reread", "refresh", "recover", "persist",
        "unlock", "post", "condemn", "wait", "version", "set", "done"}

Outcomes == {"none", "held", "fresh", "refreshed", "invalid", "failed"}

TypeOK ==
    /\ db \in Gens /\ upstream \in Gens /\ due \in Gens \cup {NoToken}
    /\ status \in {"active", "error"}
    /\ cache \in Gens \cup {NoToken}
    /\ lockOwner \in Workers \cup {NoWorker}
    /\ mutex \in [Procs -> Workers \cup {NoWorker}]
    /\ pc \in [Workers -> PCs]
    /\ mine \in [Workers -> Gens]
    /\ fresh \in [Workers -> Gens]
    /\ got \in [Workers -> Gens]
    /\ outcome \in [Workers -> Outcomes]
    /\ locked \in [Workers -> BOOLEAN]
    /\ gone \in [Workers -> BOOLEAN]
    /\ {faults, lapses, crashes} \subseteq 0..MaxMishaps

StartOf(w) == IF w \in Requests THEN "new" ELSE "idle"

Init ==
    /\ db = 0 /\ upstream = 0 /\ due = NoToken
    /\ status = "active"
    /\ cache \in {NoToken, 0}
    /\ lockOwner = NoWorker
    /\ mutex = [p \in Procs |-> NoWorker]
    /\ pc = [w \in Workers |-> StartOf(w)]
    /\ mine = [w \in Workers |-> 0]
    /\ fresh = [w \in Workers |-> 0]
    /\ got = [w \in Workers |-> 0]
    /\ outcome = [w \in Workers |-> "none"]
    /\ locked = [w \in Workers |-> FALSE]
    /\ gone = [w \in Workers |-> FALSE]
    /\ faults = 0 /\ lapses = 0 /\ crashes = 0

-------------------------------------------------------------------------------

Go(w, next) == pc' = [pc EXCEPT ![w] = next]

MayFail == faults + lapses + crashes < MaxMishaps

Fault == MayFail /\ faults' = faults + 1

\* A call that takes w's context gets through ...
CallOK(w) == ~gone[w] /\ UNCHANGED faults

\* ... or fails, as it always does once the context is done.
CallFails(w) == IF gone[w] THEN UNCHANGED faults ELSE Fault

Return(w, what) == outcome' = [outcome EXCEPT ![w] = what] /\ Go(w, "unlock")

Stale(gen) == gen <= due

\* TokenRefreshService.processRefresh lists the active accounts and finds this one due.
Begin(w) ==
    /\ w \in Refreshers /\ pc[w] = "idle"
    /\ status = "active" /\ Stale(db)
    /\ mine' = [mine EXCEPT ![w] = db]
    /\ Go(w, "mutex")
    /\ UNCHANGED <<shared, lockOwner, mutex, fresh, got, outcome, locked, gone, faults,
                   lapses, crashes>>

\* GetAccessToken: with an account object that may be older than the database.
GetToken(w) ==
    /\ w \in Requests /\ pc[w] = "new"
    /\ \E gen \in 0..db :
         /\ mine' = [mine EXCEPT ![w] = gen]
         /\ \/ cache # NoToken /\ Go(w, "done") /\ CallOK(w)
            \/ cache = NoToken /\ CallOK(w) /\ Go(w, IF Stale(gen) THEN "mutex" ELSE "version")
            \/ CallFails(w) /\ Go(w, IF Stale(gen) THEN "mutex" ELSE "version")
    /\ UNCHANGED <<shared, lockOwner, mutex, fresh, got, outcome, locked, gone, lapses,
                   crashes>>

-------------------------------------------------------------------------------
(* RefreshIfNeeded.                                                        *)

TakeMutex(w) ==
    /\ pc[w] = "mutex"
    /\ mutex[ProcOf[w]] = NoWorker
    /\ mutex' = [mutex EXCEPT ![ProcOf[w]] = w]
    /\ Go(w, "lock")
    /\ UNCHANGED <<shared, lockOwner, mine, fresh, got, outcome, locked, gone, faults,
                   lapses, crashes>>

\* Mutant: SET instead of SETNX.
LockFree_Any == TRUE

LockFree == lockOwner = NoWorker

\* AcquireRefreshLock.  A redis error degrades to the local mutex alone; the
\* reply may be all that was lost.  A SETNX that is sent again for want of a reply
\* finds the lock of its own first sending, which nobody will release.
TakeLock(w) ==
    /\ pc[w] = "lock"
    /\ \/ /\ CallOK(w) /\ LockFree
          /\ lockOwner' = w
          /\ locked' = [locked EXCEPT ![w] = TRUE]
          /\ Go(w, "reread") /\ UNCHANGED outcome
       \/ CallOK(w) /\ ~LockFree /\ Return(w, "held") /\ UNCHANGED <<lockOwner, locked>>
       \/ /\ CallFails(w)
          /\ \/ UNCHANGED lockOwner
             \/ LockFree /\ ~gone[w] /\ lockOwner' = w
          /\ Go(w, "reread") /\ UNCHANGED <<locked, outcome>>
       \/ /\ CallFails(w) /\ LockFree /\ ~gone[w]
          /\ lockOwner' = w
          /\ Return(w, "held") /\ UNCHANGED locked
    /\ UNCHANGED <<shared, mutex, mine, fresh, got, gone, lapses, crashes>>

\* Mutant: the second check is left out.
Reread_NoCheck(w) ==
    /\ pc[w] = "reread"
    /\ \/ CallOK(w) /\ fresh' = [fresh EXCEPT ![w] = db]
       \/ CallFails(w) /\ fresh' = [fresh EXCEPT ![w] = mine[w]]
    /\ Go(w, "refresh")
    /\ UNCHANGED <<shared, lockOwner, mutex, mine, got, outcome, locked, gone, lapses,
                   crashes>>

\* Read the account again, and ask again whether it needs a refresh.  (A request
\* has the narrower window: it may find no need where a refresher would.)
Reread(w) ==
    /\ pc[w] = "reread"
    /\ \/ CallOK(w) /\ fresh' = [fresh EXCEPT ![w] = db]
       \/ CallFails(w) /\ fresh' = [fresh EXCEPT ![w] = mine[w]]
    /\ \/ Stale(fresh'[w]) /\ Go(w, "refresh") /\ UNCHANGED outcome
       \/ (~Stale(fresh'[w]) \/ w \in Requests) /\ Return(w, "fresh")
    /\ UNCHANGED <<shared, lockOwner, mutex, mine, got, locked, gone, lapses, crashes>>

Rotate(w) == upstream' = upstream + 1 /\ got' = [got EXCEPT ![w] = upstream + 1]

\* executor.Refresh.
RefreshOK(w) ==
    /\ pc[w] = "refresh"
    /\ CallOK(w) /\ fresh[w] = upstream
    /\ Rotate(w)
    /\ Go(w, "persist")
    /\ UNCHANGED <<db, due, status, cache, lockOwner, mutex, mine, fresh, outcome,
                   locked, gone, lapses, crashes>>

RefreshInvalid(w) ==
    /\ pc[w] = "refresh"
    /\ CallOK(w) /\ fresh[w] # upstream
    /\ Go(w, "recover")
    /\ UNCHANGED <<shared, lockOwner, mutex, mine, fresh, got, outcome, locked, gone,
                   lapses, crashes>>

\* No answer; the upstream may have rotated the token all the same, because the
\* reply was lost or because the client has left during the call.
RefreshFails(w) ==
    /\ pc[w] = "refresh"
    /\ \/ CallFails(w) /\ UNCHANGED <<upstream, gone>>
       \/ ~gone[w] /\ fresh[w] = upstream /\ upstream' = upstream + 1 /\ Fault /\ UNCHANGED gone
       \/ /\ w \in Requests /\ ~gone[w] /\ fresh[w] = upstream
          /\ upstream' = upstream + 1
          /\ gone' = [gone EXCEPT ![w] = TRUE]
          /\ UNCHANGED faults
    /\ Return(w, "failed")
    /\ UNCHANGED <<db, due, status, cache, lockOwner, mutex, mine, fresh, got, locked,
                   lapses, crashes>>

\* tryRecoverFromRefreshRace, after invalid_grant.
Recover(w) ==
    /\ pc[w] = "recover"
    /\ \/ /\ CallOK(w) /\ db # fresh[w]
          /\ fresh' = [fresh EXCEPT ![w] = db]
          /\ Return(w, "fresh")
       \/ CallOK(w) /\ db = fresh[w] /\ Return(w, "invalid") /\ UNCHANGED fresh
       \/ CallFails(w) /\ Return(w, "invalid") /\ UNCHANGED fresh
    /\ UNCHANGED <<shared, lockOwner, mutex, mine, got, locked, gone, lapses, crashes>>

\* Mutant: the new fields are merged under those of the caller's account object.
Stored_CallersWin(w) == mine[w]

\* MergeCredentials.
Stored(w) == got[w]

Persist(w) ==
    /\ pc[w] = "persist"
    /\ \/ /\ CallOK(w)
          /\ db' = Stored(w)
          /\ fresh' = [fresh EXCEPT ![w] = Stored(w)]
          /\ Return(w, "refreshed")
       \/ CallFails(w) /\ Return(w, "failed") /\ UNCHANGED <<db, fresh>>
    /\ UNCHANGED <<upstream, due, status, cache, lockOwner, mutex, mine, got, locked,
                   gone, lapses, crashes>>

\* Mutant: a request tries again for as long as the refresh fails.
NextOf_RetryForever(w) ==
    CASE outcome[w] \in {"invalid", "failed"} -> {"mutex"}
      [] w \in Refreshers                     -> {"idle"}
      [] OTHER                                -> {"version"}

\* What the caller does next with what RefreshIfNeeded returned.
NextOf(w) ==
    IF w \in Refreshers
    THEN CASE outcome[w] = "refreshed" -> {"post"}
           [] outcome[w] = "invalid"   -> {"condemn"}
           [] outcome[w] = "failed"    -> {"mutex", "idle"}
           [] OTHER                    -> {"idle"}
    ELSE CASE outcome[w] = "held"                   -> {"wait", "version"}
           [] outcome[w] \in {"invalid", "failed"}  -> {"version", "done"}
           [] OTHER                                 -> {"version"}

MutexAfter(w) == [mutex EXCEPT ![ProcOf[w]] = NoWorker]

\* The deferred calls: DEL of the lock, whoever set it, with the caller's own
\* context; then the mutex.
Unlock(w) ==
    /\ pc[w] = "unlock"
    /\ IF locked[w]
       THEN \/ CallOK(w) /\ lockOwner' = NoWorker
            \/ CallFails(w) /\ UNCHANGED lockOwner
       ELSE UNCHANGED <<lockOwner, faults>>
    /\ locked' = [locked EXCEPT ![w] = FALSE]
    /\ mutex' = MutexAfter(w)
    /\ mine' = [mine EXCEPT ![w] = IF outcome[w] \in {"fresh", "refreshed"} THEN fresh[w] ELSE @]
    /\ outcome' = [outcome EXCEPT ![w] = "none"]
    /\ \E next \in NextOf(w) : Go(w, next)
    /\ UNCHANGED <<shared, fresh, got, gone, lapses, crashes>>

-------------------------------------------------------------------------------
(* The callers.                                                            *)

\* postRefreshActions: InvalidateToken deletes the cached token.
PostRefresh(w) ==
    /\ pc[w] = "post"
    /\ \/ CallOK(w) /\ cache' = NoToken
       \/ CallFails(w) /\ UNCHANGED cache
    /\ Go(w, "idle")
    /\ UNCHANGED <<db, upstream, due, status, lockOwner, mutex, mine, fresh, got,
                   outcome, locked, gone, lapses, crashes>>

\* A non-retryable error: SetError takes the account out for good.
Condemn(w) ==
    /\ pc[w] = "condemn"
    /\ \/ CallOK(w) /\ status' = "error"
       \/ CallFails(w) /\ UNCHANGED status
    /\ Go(w, "idle")
    /\ UNCHANGED <<db, upstream, due, cache, lockOwner, mutex, mine, fresh, got,
                   outcome, locked, gone, lapses, crashes>>

\* The lock was held: look for the other worker's token in the cache.
WaitForCache(w) ==
    /\ pc[w] = "wait"
    /\ \/ CallOK(w) /\ Go(w, IF cache # NoToken THEN "done" ELSE "version")
       \/ CallFails(w) /\ Go(w, "version")
    /\ UNCHANGED <<shared, lockOwner, mutex, mine, fresh, got, outcome, locked, gone,
                   lapses, crashes>>

\* CheckTokenVersion: a newer version in the database is used, but not cached.
CheckVersion(w) ==
    /\ pc[w] = "version"
    /\ \/ CallOK(w) /\ Go(w, IF db > mine[w] THEN "done" ELSE "set")
       \/ CallFails(w) /\ Go(w, "set")
    /\ UNCHANGED <<shared, lockOwner, mutex, mine, fresh, got, outcome, locked, gone,
                   lapses, crashes>>

SetCache(w) ==
    /\ pc[w] = "set"
    /\ \/ CallOK(w) /\ cache' = mine[w]
       \/ CallFails(w) /\ UNCHANGED cache
    /\ Go(w, "done")
    /\ UNCHANGED <<db, upstream, due, status, lockOwner, mutex, mine, fresh, got,
                   outcome, locked, gone, lapses, crashes>>

-------------------------------------------------------------------------------
(* The environment.                                                        *)

ClientLeaves(w) ==
    /\ w \in Requests /\ pc[w] \notin {"new", "done"} /\ ~gone[w]
    /\ gone' = [gone EXCEPT ![w] = TRUE]
    /\ UNCHANGED <<shared, lockOwner, mutex, pc, mine, fresh, got, outcome, locked,
                   faults, lapses, crashes>>

\* Mutant: SETNX without an expiration.
LockExpires_NoTTL == FALSE

\* The lock's TTL runs out, perhaps before its owner is done; so does a DEL that
\* was sent twice end the lock of the next owner.
LockExpires ==
    /\ KeyTTLRuns /\ lockOwner # NoWorker
    /\ IF locked[lockOwner]
       THEN MayFail /\ lapses' = lapses + 1
       ELSE UNCHANGED lapses
    /\ lockOwner' = NoWorker
    /\ UNCHANGED <<shared, mutex, pc, mine, fresh, got, outcome, locked, gone, faults,
                   crashes>>

CacheExpires ==
    /\ KeyTTLRuns /\ cache # NoToken
    /\ cache' = NoToken
    /\ UNCHANGED <<db, upstream, due, status, lockOwner, mutex, pc, mine, fresh, got,
                   outcome, locked, gone, faults, lapses, crashes>>

\* The stored token comes near its expiry.
TokenAges ==
    /\ db > due /\ db < MaxGen
    /\ due' = db
    /\ UNCHANGED <<db, upstream, status, cache, lockOwner, mutex, pc, mine, fresh, got,
                   outcome, locked, gone, faults, lapses, crashes>>

\* A process dies; its background loop comes back with the next one.
Crash(p) ==
    /\ MayFail
    /\ crashes' = crashes + 1
    /\ LET dead == {w \in Workers : ProcOf[w] = p} IN
         /\ pc' = [w \in Workers |->
                     IF w \notin dead \/ pc[w] = "new" THEN pc[w]
                     ELSE IF w \in Refreshers THEN "idle" ELSE "done"]
         /\ locked' = [w \in Workers |-> w \notin dead /\ locked[w]]
         /\ outcome' = [w \in Workers |-> IF w \in dead THEN "none" ELSE outcome[w]]
    /\ mutex' = [mutex EXCEPT ![p] = NoWorker]
    /\ UNCHANGED <<shared, lockOwner, mine, fresh, got, gone, faults, lapses>>

Resting == \A w \in Workers : pc[w] \in {"idle", "done"}

Rest == Resting /\ UNCHANGED vars

Work(w) ==
    \/ Begin(w) \/ GetToken(w)
    \/ TakeMutex(w) \/ TakeLock(w) \/ Reread(w)
    \/ RefreshOK(w) \/ RefreshInvalid(w) \/ RefreshFails(w)
    \/ Recover(w) \/ Persist(w) \/ Unlock(w)
    \/ PostRefresh(w) \/ Condemn(w) \/ WaitForCache(w) \/ CheckVersion(w) \/ SetCache(w)

Next ==
    \/ \E w \in Workers : Work(w) \/ ClientLeaves(w)
    \/ LockExpires \/ CacheExpires \/ TokenAges
    \/ \E p \in Procs : Crash(p)
    \/ Rest

Spec == Init /\ [][Next]_vars

\* Calls return, the background loop ticks, a mutex is granted in the end, and
\* TTLs run out where they run at all.
Fairness ==
    /\ \A w \in Workers : WF_vars(Work(w)) /\ SF_vars(TakeMutex(w))
    /\ WF_vars(LockExpires)

FairSpec == Spec /\ Fairness

-------------------------------------------------------------------------------
(* What the component promises.                                            *)

\* The one refresh token the upstream still accepts is in the database or about
\* to be stored, also when a lock lapses and callers race: it is lost only by a
\* failed call, a crash, or a client that leaves.
TokenKept ==
    faults = 0 /\ crashes = 0 /\ (\A w \in Requests : ~gone[w])
      => \/ db = upstream
         \/ \E w \in Workers : pc[w] = "persist" /\ got[w] = upstream

\* An account is put into error only when its stored refresh token is dead for a
\* reason of its own, and not because two processes raced.
NotCondemned ==
    faults = 0 /\ lapses = 0 /\ crashes = 0 /\ (\A w \in Requests : ~gone[w])
      => status = "active" /\ \A w \in Workers : pc[w] # "condemn"

\* Every call for a token ends: the mutex is unlocked on every path.
EveryRequestEnds == \A w \in Requests : <>(pc[w] = "done")

\* A token that is due is refreshed or its account is put into error: a lock
\* that nobody will release holds up refreshing only until it expires.
Stuck == db < MaxGen /\ due = db /\ status = "active"

DueTokenRefreshed == Stuck ~> ~Stuck
===============================================================================
