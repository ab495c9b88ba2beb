--------------------------- MODULE ConcurrencySlots ---------------------------
(***************************************************************************)
(* The slots and wait counters one gateway request takes and gives back:   *)
(* GatewayHandler.Messages with ConcurrencyHelper, ConcurrencyService and  *)
(* the scripts of RedisSlots.  A request first queues for a slot of its    *)
(* user, then for a slot of each account it is forwarded to.               *)
(*                                                                         *)
(* Every redis call is one step.  A call may fail, with or without having  *)
(* been applied (a lost reply, or a context that ends while the call is on *)
(* the wire), and one that succeeds may have run its script more than      *)
(* once: the redis client sends a call again whose reply it lost.          *)
(*                                                                         *)
(* Several processes serve requests over one redis (redis.mode external).  *)
(* Each starts and dies at any time; one that is started again has a new   *)
(* prefix, so it is another member of Procs.                               *)
(***************************************************************************)
EXTENDS RedisSlots

CONSTANTS
    Requests, Users, Accounts,
    UserOf,        \* [Requests -> Users]
    Limit,         \* [Users \cup Accounts -> Nat], 0 means unlimited
    MaxWait,       \* [Users \cup Accounts -> Nat], limit of each wait counter
    Procs, NoProc, \* the processes, known by the prefixes of their slot ids
    OwnerOf,       \* [SlotIds -> Procs], the process whose prefix an id carries
    NoId, NoSlot, NoKey,
    KeyTTLRuns,    \* FALSE for the embedded redis, whose key TTLs stand still
    MaxSwitches,
    MaxMishaps     \* bound on faults, resent and unhydrated together

Keys == Users \cup Accounts

ASSUME ConcurrencySlotsAssumption ==
    /\ IsFiniteSet(Requests)
    /\ UserOf \in [Requests -> Users]
    /\ Users \cap Accounts = {}
    /\ Limit \in [Keys -> Nat]
    /\ MaxWait \in [Keys -> Nat]
    /\ IsFiniteSet(Procs) /\ NoProc \notin Procs
    /\ OwnerOf \in [SlotIds -> Procs]
    /\ NoId \notin SlotIds /\ NoSlot \notin SlotIds /\ NoId # NoSlot
    /\ NoKey \notin Keys
    /\ KeyTTLRuns \in BOOLEAN
    /\ MaxSwitches \in Nat /\ MaxMishaps \in Nat

VARIABLES
    zset,      \* the sorted set of every key
    wait,      \* the wait counter of every key
    pc,        \* where each request's handler is
    account,   \* the account the request has selected
    userSlot,  \* the user slot the request still has to release
    acctSlot,  \* the account slot the request still has to release
    counted,   \* the key whose wait counter the request still has to decrement
    gone,      \* the request's context is done
    switches,  \* account switches made by the failover loop
    home,      \* the process that serves the request
    life,      \* whether a process is still to start, runs, or is dead
    older,     \* the processes that were dead when a process started
    faults,    \* redis calls that returned an error so far
    resent,    \* runs of a counter's script beyond the first of a call so far
    unhydrated \* selections so far that failed after they had taken a slot

processes == <<life, older>>

mishaps == <<faults, resent, unhydrated>>

vars == <<zset, wait, pc, account, userSlot, acctSlot, counted, gone, switches,
          home, processes, mishaps>>

PCs == {"new", "userWait", "userGot", "select", "acctWait", "acctGot",
        "selected", "forward", "ending", "done"}

Ids == SlotIds \cup {NoId, NoSlot}

Waits == [n : Nat, age : 0..WaitTTL]

TypeOK ==
    /\ zset \in [Keys -> ZSet]
    /\ wait \in [Keys -> Waits]
    /\ pc \in [Requests -> PCs]
    /\ account \in [Requests -> Accounts \cup {NoKey}]
    /\ userSlot \in [Requests -> Ids]
    /\ acctSlot \in [Requests -> Ids]
    /\ counted \in [Requests -> Keys \cup {NoKey}]
    /\ gone \in [Requests -> BOOLEAN]
    /\ switches \in [Requests -> 0..MaxSwitches]
    /\ home \in [Requests -> Procs \cup {NoProc}]
    /\ life \in [Procs -> {"off", "up", "dead"}]
    /\ older \in [Procs -> SUBSET Procs]
    /\ faults \in Nat /\ resent \in Nat /\ unhydrated \in Nat
    /\ faults + resent + unhydrated <= MaxMishaps

Init ==
    /\ zset = [k \in Keys |-> EmptyZSet]
    /\ wait = [k \in Keys |-> NoWaiters]
    /\ pc = [r \in Requests |-> "new"]
    /\ account = [r \in Requests |-> NoKey]
    /\ userSlot = [r \in Requests |-> NoId]
    /\ acctSlot = [r \in Requests |-> NoId]
    /\ counted = [r \in Requests |-> NoKey]
    /\ gone = [r \in Requests |-> FALSE]
    /\ switches = [r \in Requests |-> 0]
    /\ home = [r \in Requests |-> NoProc]
    /\ life = [p \in Procs |-> "off"]
    /\ older = [p \in Procs |-> {}]
    /\ faults = 0 /\ resent = 0 /\ unhydrated = 0

-------------------------------------------------------------------------------
(* Helpers.                                                                *)

Up == {p \in Procs : life[p] = "up"}

Dead == {p \in Procs : life[p] = "dead"}

\* Some request will release slot id of key k.
Held(k, id) ==
    \E r \in Requests : \/ UserOf[r] = k /\ userSlot[r] = id
                        \/ account[r] = k /\ acctSlot[r] = id

\* Mutant: the counter behind the ids does not advance.
FreshIds_Reused(p, k) == {id \in SlotIds : OwnerOf[id] = p}

\* generateRequestID: the process prefix and a counter never used before.  An
\* id that neither k's set nor a holder of k refers to is as good as a new one.
FreshIds(p, k) ==
    {id \in SlotIds : OwnerOf[id] = p /\ id \notin Present(zset[k]) /\ ~Held(k, id)}

Mishaps(failed, again, lost) ==
    /\ faults' = faults + failed
    /\ resent' = resent + again
    /\ unhydrated' = unhydrated + lost
    /\ faults' + resent' + unhydrated' <= MaxMishaps

Fault == Mishaps(1, 0, 0)

NoFault == UNCHANGED mishaps

Go(r, next) == pc' = [pc EXCEPT ![r] = next]

\* The acquire script runs once, or again with the same id when the redis client
\* retries a call whose reply it lost (a third run does no more than a second).
ScriptRuns(z, cap, id) ==
    {[granted |-> AcquireGrants(z, cap, id), z |-> AcquireResult(z, cap, id)],
     LET once == AcquireResult(z, cap, id) IN
       [granted |-> AcquireGrants(once, cap, id), z |-> AcquireResult(once, cap, id)]}

\* A successful acquire of a slot of key k by process p leaves slot id `got`.
AcquireOK(p, k, got) ==
    IF Limit[k] = 0
    THEN got = NoSlot /\ UNCHANGED zset
    ELSE /\ got \in FreshIds(p, k)
         /\ \E run \in ScriptRuns(zset[k], Limit[k], got) :
              run.granted /\ zset' = [zset EXCEPT ![k] = run.z]

\* A refused acquire: whatever its runs have done is done.
AcquireRefused(p, k) ==
    /\ Limit[k] > 0
    /\ \E id \in FreshIds(p, k) : \E run \in ScriptRuns(zset[k], Limit[k], id) :
         ~run.granted /\ zset' = [zset EXCEPT ![k] = run.z]

\* The call returns an error after the server has added the slot: nobody knows
\* its id, so nobody will release it.
AcquireLost(p, k) ==
    /\ Limit[k] > 0
    /\ \E id \in FreshIds(p, k) :
         zset' = [zset EXCEPT ![k] = AcquireResult(@, Limit[k], id)]

\* The release function of a slot: ZREM in a context of its own; an error is
\* only logged.
ReleaseSlot(k, id) ==
    IF id \in SlotIds
    THEN \/ zset' = [zset EXCEPT ![k] = Remove(@, id)] /\ NoFault
         \/ UNCHANGED zset /\ Fault
    ELSE UNCHANGED zset /\ NoFault

\* How often a counter's script runs for one call.  It is not idempotent: every
\* further run counts again.
Runs == 1..(MaxMishaps + 1)

\* Mutant: the flag is reset before it is looked at.
LeaveQueue_NoDecrement(r) ==
    /\ counted' = [counted EXCEPT ![r] = NoKey]
    /\ UNCHANGED wait /\ NoFault

\* Decrement the counter the request was counted on, if any; the flag is reset
\* whether or not redis answers.
LeaveQueue(r) ==
    /\ counted' = [counted EXCEPT ![r] = NoKey]
    /\ IF counted[r] = NoKey
       THEN UNCHANGED wait /\ NoFault
       ELSE \/ \E runs \in Runs, failed \in {0, 1} :
                 /\ wait' = [wait EXCEPT ![counted[r]] = DecrementResult(@, runs)]
                 /\ Mishaps(failed, runs - 1, 0)
            \/ UNCHANGED wait /\ Fault

\* Increment...WaitCount: count, or fail open when redis does not answer.  The
\* answer is that of the last run.
EnterQueue(r, k, next) ==
    /\ counted' = [counted EXCEPT ![r] = k]
    /\ Go(r, next)
    /\ \/ \E runs \in Runs, failed \in {0, 1} :
            /\ failed = 0 => IncrementGrants(wait[k], MaxWait[k], runs)
            /\ wait' = [wait EXCEPT ![k] = IncrementResult(@, MaxWait[k], runs)]
            /\ Mishaps(failed, runs - 1, 0)
       \/ UNCHANGED wait /\ Fault

\* The last run is refused; an earlier one may have counted.
QueueFull(k) ==
    \E runs \in Runs :
      /\ ~IncrementGrants(wait[k], MaxWait[k], runs)
      /\ wait' = [wait EXCEPT ![k] = IncrementResult(@, MaxWait[k], runs)]
      /\ Mishaps(0, runs - 1, 0)

-------------------------------------------------------------------------------
(* The handler of one request.                                             *)

Serving(r, at) == pc[r] = at

\* A process that runs receives the request.
Arrives(r) ==
    /\ Serving(r, "new")
    /\ \E p \in Up : home' = [home EXCEPT ![r] = p]

EnterUserQueue(r) ==
    /\ Arrives(r)
    /\ EnterQueue(r, UserOf[r], "userWait")
    /\ UNCHANGED <<zset, account, userSlot, acctSlot, gone, switches, processes>>

\* 429: "Too many pending requests".
UserQueueFull(r) ==
    /\ Arrives(r)
    /\ QueueFull(UserOf[r])
    /\ Go(r, "ending")
    /\ UNCHANGED <<zset, account, userSlot, acctSlot, counted, gone, switches,
                   processes>>

\* The first try, or one after a backoff, succeeds.
TakeUserSlot(r) ==
    /\ Serving(r, "userWait")
    /\ \E got \in FreshIds(home[r], UserOf[r]) \cup {NoSlot} :
         /\ AcquireOK(home[r], UserOf[r], got)
         /\ userSlot' = [userSlot EXCEPT ![r] = got]
    /\ Go(r, "userGot")
    /\ UNCHANGED <<wait, account, acctSlot, counted, gone, switches, home, processes,
                   mishaps>>

RetryUserSlot(r) ==
    /\ Serving(r, "userWait")
    /\ AcquireRefused(home[r], UserOf[r])
    /\ UNCHANGED <<wait, pc, account, userSlot, acctSlot, counted, gone, switches,
                   home, processes, mishaps>>

\* The wait times out, the client leaves, a ping cannot be written, or a call
\* to redis fails (in the last case the slot may have been added).
GiveUpUserSlot(r) ==
    /\ Serving(r, "userWait")
    /\ Go(r, "ending")
    /\ \/ UNCHANGED <<zset, mishaps>>
       \/ AcquireLost(home[r], UserOf[r]) /\ Fault
    /\ UNCHANGED <<wait, account, userSlot, acctSlot, counted, gone, switches,
                   home, processes>>

LeaveUserQueue(r) ==
    /\ Serving(r, "userGot")
    /\ LeaveQueue(r)
    /\ Go(r, "select")
    /\ UNCHANGED <<zset, account, userSlot, acctSlot, gone, switches, home, processes>>

\* Billing refuses the request, no account is left, every account is busy with
\* no wait plan, or selecting fails.
NoAccount(r) ==
    /\ Serving(r, "select")
    /\ Go(r, "ending")
    /\ UNCHANGED <<zset, wait, account, userSlot, acctSlot, counted, gone,
                   switches, home, processes, mishaps>>

\* SelectAccountWithLoadAwareness takes the slot of an account; what may still
\* go wrong before it returns is SessionFull and NotHydrated.
SelectWithSlot(r, a) ==
    /\ Serving(r, "select")
    /\ \E got \in FreshIds(home[r], a) \cup {NoSlot} :
         /\ AcquireOK(home[r], a, got)
         /\ acctSlot' = [acctSlot EXCEPT ![r] = got]
    /\ account' = [account EXCEPT ![r] = a]
    /\ Go(r, "selected")
    /\ UNCHANGED <<wait, userSlot, counted, gone, switches, home, processes, mishaps>>

\* The slot of an account is taken, but its session limit is reached: the slot is
\* given back and the next account is tried.
SessionFull(r) ==
    /\ Serving(r, "selected")
    /\ ReleaseSlot(account[r], acctSlot[r])
    /\ acctSlot' = [acctSlot EXCEPT ![r] = NoId]
    /\ account' = [account EXCEPT ![r] = NoKey]
    /\ Go(r, "select")
    /\ UNCHANGED <<wait, userSlot, counted, gone, switches, home, processes>>

\* newSelectionResult: the account whose slot is taken cannot be read again (it
\* was deleted, the database fails, the context is done).  The error returned
\* leaves the release function behind.  The failover loop may select again.
NotHydrated(r) ==
    /\ Serving(r, "selected")
    /\ acctSlot' = [acctSlot EXCEPT ![r] = NoId]
    /\ account' = [account EXCEPT ![r] = NoKey]
    /\ \E next \in {"ending", "select"} : Go(r, next)
    /\ Mishaps(0, 0, 1)
    /\ UNCHANGED <<zset, wait, userSlot, counted, gone, switches, home, processes>>

\* An account's acquire is refused or fails (its slot may have been added): the
\* selection goes on with the next account.
SelectNext(r, a) ==
    /\ Serving(r, "select")
    /\ \/ AcquireRefused(home[r], a) /\ NoFault
       \/ AcquireLost(home[r], a) /\ Fault
    /\ UNCHANGED <<wait, pc, account, userSlot, acctSlot, counted, gone, switches,
                   home, processes>>

\* It returns a busy account and a plan to wait for it: count the waiter.
SelectToWait(r, a) ==
    /\ Serving(r, "select")
    /\ account' = [account EXCEPT ![r] = a]
    /\ EnterQueue(r, a, "acctWait")
    /\ UNCHANGED <<zset, userSlot, acctSlot, gone, switches, home, processes>>

AcctQueueFull(r, a) ==
    /\ Serving(r, "select")
    /\ QueueFull(a)
    /\ Go(r, "ending")
    /\ UNCHANGED <<zset, account, userSlot, acctSlot, counted, gone, switches, home,
                   processes>>

TakeAcctSlot(r) ==
    /\ Serving(r, "acctWait")
    /\ \E got \in FreshIds(home[r], account[r]) \cup {NoSlot} :
         /\ AcquireOK(home[r], account[r], got)
         /\ acctSlot' = [acctSlot EXCEPT ![r] = got]
    /\ Go(r, "acctGot")
    /\ UNCHANGED <<wait, account, userSlot, counted, gone, switches, home, processes,
                   mishaps>>

RetryAcctSlot(r) ==
    /\ Serving(r, "acctWait")
    /\ AcquireRefused(home[r], account[r])
    /\ UNCHANGED <<wait, pc, account, userSlot, acctSlot, counted, gone, switches,
                   home, processes, mishaps>>

GiveUpAcctSlot(r) ==
    /\ Serving(r, "acctWait")
    /\ Go(r, "ending")
    /\ \/ UNCHANGED <<zset, mishaps>>
       \/ AcquireLost(home[r], account[r]) /\ Fault
    /\ UNCHANGED <<wait, account, userSlot, acctSlot, counted, gone, switches,
                   home, processes>>

LeaveAcctQueue(r) ==
    /\ Serving(r, "acctGot")
    /\ LeaveQueue(r)
    /\ Go(r, "forward")
    /\ UNCHANGED <<zset, account, userSlot, acctSlot, gone, switches, home, processes>>

\* A warm-up request is answered here, with a slot that came with the selection
\* given back; every other request registers its release and is forwarded.
Intercept(r) ==
    /\ Serving(r, "selected")
    /\ ReleaseSlot(account[r], acctSlot[r])
    /\ acctSlot' = [acctSlot EXCEPT ![r] = NoId]
    /\ Go(r, "ending")
    /\ UNCHANGED <<wait, account, userSlot, counted, gone, switches, home, processes>>

StartForward(r) ==
    /\ Serving(r, "selected")
    /\ Go(r, "forward")
    /\ UNCHANGED <<zset, wait, account, userSlot, acctSlot, counted, gone,
                   switches, home, processes, mishaps>>

\* Forward returns and the account slot is released, unless the context's
\* callback has done it; then the request ends or fails over.
ForwardReturns(r, next) ==
    /\ Serving(r, "forward")
    /\ ReleaseSlot(account[r], acctSlot[r])
    /\ acctSlot' = [acctSlot EXCEPT ![r] = NoId]
    /\ account' = [account EXCEPT ![r] = NoKey]
    /\ Go(r, next)
    /\ UNCHANGED <<wait, userSlot, counted, gone, home, processes>>

ForwardEnds(r) == ForwardReturns(r, "ending") /\ UNCHANGED switches

FailOver(r) ==
    /\ switches[r] < MaxSwitches
    /\ switches' = [switches EXCEPT ![r] = @ + 1]
    /\ ForwardReturns(r, "select")

\* A panic in Forward unwinds through the deferred calls only.
ForwardPanics(r) ==
    /\ Serving(r, "forward")
    /\ Go(r, "ending")
    /\ UNCHANGED <<zset, wait, account, userSlot, acctSlot, counted, gone,
                   switches, home, processes, mishaps>>

\* The deferred calls: release the user slot, or leave the queue if the slot
\* was never taken; then the server ends the request's context.
End(r) ==
    /\ Serving(r, "ending")
    /\ \/ /\ counted[r] # NoKey
          /\ LeaveQueue(r)
          /\ UNCHANGED <<zset, pc, userSlot, gone>>
       \/ /\ counted[r] = NoKey
          /\ ReleaseSlot(UserOf[r], userSlot[r])
          /\ userSlot' = [userSlot EXCEPT ![r] = NoId]
          /\ gone' = [gone EXCEPT ![r] = TRUE]
          /\ Go(r, "done")
          /\ UNCHANGED <<wait, counted>>
    /\ UNCHANGED <<account, acctSlot, switches, home, processes>>

-------------------------------------------------------------------------------
(* The request's context, the background worker, time, and the process.    *)

ClientLeaves(r) ==
    /\ pc[r] \notin {"new", "done"}
    /\ ~gone[r]
    /\ gone' = [gone EXCEPT ![r] = TRUE]
    /\ UNCHANGED <<zset, wait, pc, account, userSlot, acctSlot, counted, switches,
                   home, processes, mishaps>>

\* wrapReleaseOnDone: once the context is done a callback releases what the
\* handler has registered, if the handler has not (sync.Once).
UserRegistered(r) == pc[r] \notin {"new", "userWait", "userGot"}

\* Mutant: the callback is dropped when the handler leaves Forward.
AcctRegistered_OnlyForward(r) == pc[r] = "forward"

AcctRegistered(r) == pc[r] \in {"forward", "ending", "done"}

ReleaseUserOnDone(r) ==
    /\ gone[r] /\ UserRegistered(r) /\ userSlot[r] # NoId
    /\ ReleaseSlot(UserOf[r], userSlot[r])
    /\ userSlot' = [userSlot EXCEPT ![r] = NoId]
    /\ UNCHANGED <<wait, pc, account, acctSlot, counted, gone, switches, home, processes>>

ReleaseAcctOnDone(r) ==
    /\ gone[r] /\ AcctRegistered(r) /\ acctSlot[r] # NoId
    /\ ReleaseSlot(account[r], acctSlot[r])
    /\ acctSlot' = [acctSlot EXCEPT ![r] = NoId]
    /\ UNCHANGED <<wait, pc, account, userSlot, counted, gone, switches, home, processes>>

\* StartSlotCleanupWorker, for one account.
CleanupAccount(a) ==
    /\ Up # {}
    /\ Present(zset[a]) # Live(zset[a])
    /\ zset' = [zset EXCEPT ![a] = Purge(@)]
    /\ UNCHANGED <<wait, pc, account, userSlot, acctSlot, counted, gone, switches,
                   home, processes, mishaps>>

\* EXPIRE on a sorted set is renewed with its newest member.
SlotKeyExpires(k) ==
    /\ KeyTTLRuns
    /\ Present(zset[k]) # {} /\ Live(zset[k]) = {}
    /\ zset' = [zset EXCEPT ![k] = EmptyZSet]
    /\ UNCHANGED <<wait, pc, account, userSlot, acctSlot, counted, gone, switches,
                   home, processes, mishaps>>

WaitKeyExpires(k) ==
    /\ KeyTTLRuns
    /\ wait[k].n > 0 /\ wait[k].age = WaitTTL
    /\ wait' = [wait EXCEPT ![k] = NoWaiters]
    /\ UNCHANGED <<zset, pc, account, userSlot, acctSlot, counted, gone, switches,
                   home, processes, mishaps>>

Tick ==
    /\ zset' = [k \in Keys |-> Older(zset[k])]
    /\ wait' = [k \in Keys |-> OlderWait(wait[k])]
    /\ UNCHANGED <<pc, account, userSlot, acctSlot, counted, gone, switches, home,
                   processes, mishaps>>

\* A process dies with all its requests; clients may send them again.
Die(p) ==
    /\ life[p] = "up"
    /\ life' = [life EXCEPT ![p] = "dead"]
    /\ pc' = [r \in Requests |-> IF home[r] = p THEN "new" ELSE pc[r]]
    /\ account' = [r \in Requests |-> IF home[r] = p THEN NoKey ELSE account[r]]
    /\ userSlot' = [r \in Requests |-> IF home[r] = p THEN NoId ELSE userSlot[r]]
    /\ acctSlot' = [r \in Requests |-> IF home[r] = p THEN NoId ELSE acctSlot[r]]
    /\ counted' = [r \in Requests |-> IF home[r] = p THEN NoKey ELSE counted[r]]
    /\ gone' = [r \in Requests |-> home[r] # p /\ gone[r]]
    /\ switches' = [r \in Requests |-> IF home[r] = p THEN 0 ELSE switches[r]]
    /\ home' = [r \in Requests |-> IF home[r] = p THEN NoProc ELSE home[r]]
    /\ UNCHANGED <<zset, wait, older, mishaps>>

\* Mutant: every prefix passes for the starting process's.
OwnIds_Any(p) == SlotIds

OwnIds(p) == {id \in SlotIds : OwnerOf[id] = p}

\* ProvideConcurrencyService: CleanupStaleProcessSlots before the first request
\* takes the slots of every other process out of the sets, dead or running, and
\* then deletes the wait counters.  An error ends it, is logged, and the process
\* goes on; the process may also die halfway.
StartupCleanup(p) ==
    /\ life[p] = "off"
    /\ \E cleaned, dropped \in SUBSET Keys :
         /\ dropped # {} => cleaned = Keys
         /\ zset' = [k \in Keys |-> IF k \in cleaned THEN KeepOnly(zset[k], OwnIds(p))
                                                     ELSE zset[k]]
         /\ wait' = [k \in Keys |-> IF k \in dropped THEN NoWaiters ELSE wait[k]]
         /\ \/ life' = [life EXCEPT ![p] = "up"] /\ dropped = Keys /\ NoFault
            \/ life' = [life EXCEPT ![p] = "up"] /\ Fault
            \/ life' = [life EXCEPT ![p] = "dead"] /\ NoFault
    /\ older' = [older EXCEPT ![p] = Dead]
    /\ UNCHANGED <<pc, account, userSlot, acctSlot, counted, gone, switches, home>>

Handler(r) ==
    \/ EnterUserQueue(r) \/ UserQueueFull(r)
    \/ TakeUserSlot(r) \/ RetryUserSlot(r) \/ GiveUpUserSlot(r)
    \/ LeaveUserQueue(r)
    \/ NoAccount(r)
    \/ \E a \in Accounts : SelectWithSlot(r, a) \/ SelectNext(r, a)
    \/ \E a \in Accounts : SelectToWait(r, a) \/ AcctQueueFull(r, a)
    \/ SessionFull(r) \/ NotHydrated(r)
    \/ TakeAcctSlot(r) \/ RetryAcctSlot(r) \/ GiveUpAcctSlot(r)
    \/ LeaveAcctQueue(r)
    \/ Intercept(r) \/ StartForward(r)
    \/ ForwardEnds(r) \/ FailOver(r) \/ ForwardPanics(r)
    \/ End(r)

Callback(r) == ReleaseUserOnDone(r) \/ ReleaseAcctOnDone(r)

Next ==
    \/ \E r \in Requests : Handler(r) \/ ClientLeaves(r) \/ Callback(r)
    \/ \E a \in Accounts : CleanupAccount(a)
    \/ \E k \in Keys : SlotKeyExpires(k) \/ WaitKeyExpires(k)
    \/ \E p \in Procs : StartupCleanup(p) \/ Die(p)
    \/ Tick

Spec == Init /\ [][Next]_vars

\* Every wait has a deadline and a selection tries each account once, so a handler
\* always moves on; callbacks run once the context is done; time passes.
Progress(r) ==
    \/ TakeUserSlot(r) \/ GiveUpUserSlot(r) \/ LeaveUserQueue(r)
    \/ NoAccount(r)
    \/ TakeAcctSlot(r) \/ GiveUpAcctSlot(r) \/ LeaveAcctQueue(r)
    \/ StartForward(r) \/ ForwardEnds(r) \/ End(r)

Fairness ==
    /\ \A r \in Requests : WF_vars(Progress(r)) /\ WF_vars(Callback(r))
    /\ WF_vars(Tick)

FairSpec == Spec /\ Fairness

-------------------------------------------------------------------------------
(* What the component promises.                                            *)

\* The requests that run under a slot of key k that still counts.
Running(k) ==
    {r \in Requests : \/ UserOf[r] = k /\ userSlot[r] \in Live(zset[k])
                      \/ account[r] = k /\ acctSlot[r] \in Live(zset[k])}

\* Never more requests run under live slots of a user or an account than its
\* concurrency limit, whatever fails: the acquire script and unique slot ids.
RunningWithinLimit ==
    \A k \in Keys : Limit[k] > 0 => Cardinality(Running(k)) <= Limit[k]

\* What makes it so, step by step: a set never stores more than its limit, two
\* requests never hold one slot, a request holds slots only in the phases that
\* release them, and only slots of the process that serves it.
StoreWithinLimit == \A k \in Keys : Cardinality(Present(zset[k])) <= Limit[k]

HoldersDistinct ==
    \A r, s \in Requests : r # s =>
      /\ UserOf[r] = UserOf[s] /\ userSlot[r] \in SlotIds => userSlot[r] # userSlot[s]
      /\ account[r] = account[s] /\ acctSlot[r] \in SlotIds => acctSlot[r] # acctSlot[s]

HeldInPhase ==
    \A r \in Requests :
      /\ pc[r] \in {"new", "userWait"} => userSlot[r] = NoId
      /\ pc[r] \in {"new", "userWait", "userGot", "select", "acctWait"} => acctSlot[r] = NoId
      /\ pc[r] \in {"acctWait", "acctGot", "selected", "forward"} => account[r] \in Accounts
      /\ acctSlot[r] # NoId => account[r] \in Accounts

HeldIsOwn ==
    \A r \in Requests :
      /\ IF pc[r] = "new" THEN home[r] = NoProc ELSE home[r] \in Up
      /\ userSlot[r] \in SlotIds => OwnerOf[userSlot[r]] = home[r]
      /\ acctSlot[r] \in SlotIds => OwnerOf[acctSlot[r]] = home[r]

SlotsInv == TypeOK /\ StoreWithinLimit /\ HoldersDistinct /\ HeldInPhase /\ HeldIsOwn

\* A slot whose holder has not released it is taken from the set by nobody else
\* while it is live: not by another request's release, the cleanup worker, the
\* purge of an acquire, or the death of a process.  Only the cleanup of another
\* process that starts takes it, as that one knows no prefix but its own.
Starts(p) == life[p] = "off" /\ life'[p] # "off"

KeepsLiveSlots ==
    \A k \in Keys : \A id \in Live(zset[k]) :
      zset'[k][id] = Absent /\ Held(k, id) /\ Held(k, id)' =>
        \E p \in Procs : Starts(p) /\ p # OwnerOf[id]

LiveSlotKept == [][KeepsLiveSlots]_vars

\* Every live slot of a running process that nobody will release is due to a
\* failed redis call or to a selection that failed to read its account after
\* taking the slot: no other path (queue full, session limit, refused or failed
\* acquire, timeout, disconnect, panic, failover) loses one.
Leaked == {slot \in Keys \X SlotIds :
             LET k == slot[1] id == slot[2] IN
               id \in Live(zset[k]) /\ OwnerOf[id] \in Up /\ ~Held(k, id)}

LeakBound == Cardinality(Leaked) <= faults + unhydrated

\* While a process serves, no slot counts any more of a process that was dead when
\* it started, whoever else has died since, unless a redis call failed.
NoStaleSlots ==
    faults = 0 => \A p \in Up, k \in Keys : \A id \in Present(zset[k]) : OwnerOf[id] \notin older[p]

\* Some process has started since the last one died.
Swept == \E p \in Up : Dead \subseteq older[p]

\* A wait counter is never above the number of requests that still have to
\* leave that queue, except for calls redis did not answer and increments it was
\* sent again: nothing else (a double decrement, a cleanup that drops the count of
\* waiters that are still there) can make it refuse requests for waiters that are
\* gone.  (A death, or a failed cleanup after it, also leaves counters behind.)
NoPhantomWaiters ==
    Swept /\ (Dead = {} \/ faults = 0) =>
      \A k \in Keys :
        wait[k].n <= Cardinality({r \in Requests : counted[r] = k}) + faults + resent

\* Every request that is counted or holds something ends, and in the end holds
\* nothing, also after a panic and whether or not the client stayed.
Clean(r) == userSlot[r] = NoId /\ acctSlot[r] = NoId /\ counted[r] = NoKey

EveryRequestEnds ==
    \A r \in Requests : pc[r] # "new" ~> (pc[r] \in {"new", "done"} /\ Clean(r))
===============================================================================
