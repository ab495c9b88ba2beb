--------------------------- MODULE SchedulerSnapshot ---------------------------
(***************************************************************************)
(* How a change of an account reaches the list the gateway schedules from: *)
(* the repository saves it and enqueues an event, the outbox worker of     *)
(* service/scheduler_snapshot_service.go reads the events and rebuilds the *)
(* bucket, a worker rebuilds it at an interval, requests that miss rebuild *)
(* it too, and repository/scheduler_cache.go keeps snapshot, account       *)
(* entries, lock and watermark in redis.                                   *)
(*                                                                         *)
(* One bucket is modelled.  A reading of the database is the number of     *)
(* changes it has seen: hist[r] is what reading r finds, and a snapshot or *)
(* an account entry is the reading it was made from, 0 when there is none. *)
(* Version numbers of snapshots are only compared, so the model keeps      *)
(* their order: inFlight holds, from the oldest, the numbers that have     *)
(* been given out and not been overtaken by the active one.                *)
(***************************************************************************)
EXTENDS Integers, Sequences, FiniteSets

CONSTANTS
    Accounts,
    Writers,     \* calls that change one account
    TargetOf,    \* the account a writer changes
    Requests,    \* requests that ask for the list
    MaxUpsets    \* changes, requests, calls that fail, locks that lapse under
                 \* their holder and crashes in one behaviour, taken together

ASSUME SchedulerSnapshotAssumption ==
    /\ TargetOf \in [Writers -> Accounts]
    /\ Requests \cap {"poller", "full"} = {}
    /\ MaxUpsets \in Nat

VARIABLES
    hist,       \* the accounts after each change; the last one is the database
    outbox,     \* scheduler_outbox, its ids are the indices
    watermark,  \* sched:outbox:watermark
    active,     \* the reading in the active snapshot
    inFlight,
    entry,      \* sched:acc and sched:meta of each account
    locked,     \* sched:lock of the bucket is set
    builder,    \* who rebuilds the bucket, how far, and from which reading
    poll,       \* the outbox worker
    writer,
    faults, lapses, crashes,
    excused     \* history: the changes whose notice was lost, and how is told
                \* by the action that adds one

cache == <<active, inFlight, entry, locked>>
bounds == <<faults, lapses, crashes>>
vars == <<hist, outbox, watermark, cache, builder, poll, writer, bounds, excused>>

Builders == {"poller", "full"} \cup Requests

Statuses == {"listed", "unlisted", "gone"}

\* SetRateLimited and SetError; SetSchedulable(true) and ClearTempUnschedulable;
\* Delete.
Kinds == {"limit", "open", "delete"}

StatusAfter(kind) ==
    CASE kind = "limit" -> "unlisted" [] kind = "open" -> "listed" [] kind = "delete" -> "gone"

Now == Len(hist)

Listed(r) == {a \in Accounts : hist[r][a] = "listed"}

Resting == [at |-> "idle", batch |-> {}, missed |-> {}, seen |-> FALSE, got |-> 0]

Section == {"read", "number", "write", "activate", "unlock"}

TypeOK ==
    /\ hist \in Seq([Accounts -> Statuses]) /\ hist # <<>>
    /\ outbox \in Seq([account : Accounts, change : 1..Now, named : BOOLEAN,
                       st : {"open", "committed", "aborted"}])
    /\ watermark \in 0..Len(outbox)
    /\ active \in 0..Now
    /\ inFlight \in Seq(Builders)
    /\ entry \in [Accounts -> 0..Now]
    /\ locked \in BOOLEAN
    /\ builder \in [Builders -> [at : {"idle", "lock", "done"} \cup Section,
                                 got : 0..Now, ok : BOOLEAN]]
    /\ poll \in [at : {"idle", "fetch", "put", "build", "mark", "lag"},
                batch : SUBSET (1..Len(outbox)), missed : SUBSET (1..Len(outbox)),
                seen : BOOLEAN, got : 0..Now]
    /\ poll.at \in {"build", "lag"} <=> builder["poller"].at # "idle"
    /\ \A p \in Builders : builder[p].got # 0 <=> builder[p].at \in {"number", "write", "activate"}
    /\ writer \in [Writers -> [at : {"idle", "uncache", "insert", "commit", "sync", "put", "done"},
                               kind : Kinds, change : 0..Now, got : 0..Now]]
    /\ faults \in Nat /\ lapses \in Nat /\ crashes \in Nat
    /\ excused \in SUBSET (1..Now)

Init ==
    /\ hist = <<[a \in Accounts |-> "listed"]>>
    /\ outbox = <<>> /\ watermark = 0
    /\ active = 0 /\ inFlight = <<>>
    /\ entry = [a \in Accounts |-> 0]
    /\ locked = FALSE
    /\ builder = [p \in Builders |-> [at |-> "idle", got |-> 0, ok |-> TRUE]]
    /\ poll = Resting
    /\ writer = [w \in Writers |-> [at |-> "idle", kind |-> "open", change |-> 0, got |-> 0]]
    /\ faults = 0 /\ lapses = 0 /\ crashes = 0
    /\ excused = {}

MayUpset == Cardinality({w \in Writers : writer[w].at # "idle"})
              + Cardinality({r \in Requests : builder[r].at # "idle"})
              + faults + lapses + crashes < MaxUpsets

\* A call fails.
Fault == MayUpset /\ faults' = faults + 1 /\ UNCHANGED <<lapses, crashes>>
NoFault == UNCHANGED bounds

(***************************************************************************)
(* The repository: save, tell the outbox, and for some changes write the   *)
(* account's entry.  Each is a call of its own.                            *)
(***************************************************************************)
Store(w) == hist[Now][TargetOf[w]]

Save(w, kind) ==
    /\ writer[w].at = "idle" /\ MayUpset /\ Store(w) # "gone"
    /\ hist' = Append(hist, [hist[Now] EXCEPT ![TargetOf[w]] = StatusAfter(kind)])
    /\ writer' = [writer EXCEPT ![w] = [at |-> IF kind = "delete" THEN "uncache" ELSE "insert",
                                        kind |-> kind, change |-> Now + 1, got |-> 0]]
    /\ UNCHANGED <<outbox, watermark, cache, builder, poll, bounds, excused>>

Uncache(w) ==
    /\ writer[w].at = "uncache"
    /\ \/ NoFault /\ entry' = [entry EXCEPT ![TargetOf[w]] = 0]
       \/ Fault /\ UNCHANGED entry
    /\ writer' = [writer EXCEPT ![w].at = "insert"]
    /\ UNCHANGED <<hist, outbox, watermark, active, inFlight, locked, builder, poll, excused>>

Done == [at |-> "done", kind |-> "open", change |-> 0, got |-> 0]

AfterInsert(w) == IF writer[w].kind = "limit" THEN [writer[w] EXCEPT !.at = "sync"] ELSE Done

\* The outbox holds the same event, whatever group ids it names; whether it is
\* of the last second, and suppresses this one, is left open.
Duplicate(w) ==
    \E i \in DOMAIN outbox : outbox[i].account = TargetOf[w] /\ outbox[i].st = "committed"

\* The id is given out here and the row is visible from Commit on.
Insert(w) ==
    /\ writer[w].at = "insert"
    /\ outbox' = Append(outbox, [account |-> TargetOf[w], change |-> writer[w].change,
                                 named |-> writer[w].kind = "delete", st |-> "open"])
    /\ writer' = [writer EXCEPT ![w].at = "commit"]
    /\ UNCHANGED <<hist, watermark, cache, builder, poll, bounds, excused>>

\* Excuse: no event is written, as a duplicate or because the INSERT fails,
\* which is logged.
NotInserted(w) ==
    /\ writer[w].at = "insert"
    /\ (Duplicate(w) /\ NoFault) \/ Fault
    /\ writer' = [writer EXCEPT ![w] = AfterInsert(w)]
    /\ excused' = excused \cup {writer[w].change}
    /\ UNCHANGED <<hist, outbox, watermark, cache, builder, poll>>

Commit(w) ==
    /\ writer[w].at = "commit"
    /\ outbox' = [i \in DOMAIN outbox |->
                    IF outbox[i].change = writer[w].change
                    THEN [outbox[i] EXCEPT !.st = "committed"] ELSE outbox[i]]
    /\ writer' = [writer EXCEPT ![w] = AfterInsert(w)]
    /\ UNCHANGED <<hist, watermark, cache, builder, poll, bounds, excused>>

\* syncSchedulerAccountSnapshot: GetByID and SetAccount.
Sync(w) ==
    /\ writer[w].at = "sync"
    /\ \/ /\ NoFault /\ Store(w) # "gone"
          /\ writer' = [writer EXCEPT ![w] = [at |-> "put", kind |-> @.kind,
                                              change |-> @.change, got |-> Now]]
       \/ /\ (NoFault /\ Store(w) = "gone") \/ Fault
          /\ writer' = [writer EXCEPT ![w] = Done]
    /\ UNCHANGED <<hist, outbox, watermark, cache, builder, poll, excused>>

SyncPut(w) ==
    /\ writer[w].at = "put"
    /\ \/ NoFault /\ entry' = [entry EXCEPT ![TargetOf[w]] = writer[w].got]
       \/ Fault /\ UNCHANGED entry
    /\ writer' = [writer EXCEPT ![w] = Done]
    /\ UNCHANGED <<hist, outbox, watermark, active, inFlight, locked, builder, poll, excused>>

(***************************************************************************)
(* The outbox worker.                                                      *)
(***************************************************************************)
Pending == {i \in DOMAIN outbox : i > watermark /\ outbox[i].st = "committed"}

\* Rows with smaller ids than the last that is read, which are not visible yet.
Unseen == {i \in DOMAIN outbox : outbox[i].st = "open" /\ \E j \in Pending : i < j}

PollReads ==
    /\ poll.at = "idle" /\ Pending # {}
    /\ poll' = [at |-> "fetch", batch |-> Pending, missed |-> Unseen, seen |-> FALSE, got |-> 0]
    /\ UNCHANGED <<hist, outbox, watermark, cache, builder, writer, bounds, excused>>

\* ORDER BY id: the events are handled from the first to the last.
First == CHOOSE i \in poll.batch : \A j \in poll.batch : i <= j

Event == outbox[First]

Polling(at, batch, seen, got) ==
    [at |-> at, batch |-> batch, missed |-> poll.missed, seen |-> seen, got |-> got]

\* The last event's id is kept for the watermark.
EventHandled ==
    \/ poll.batch = {First} /\ poll' = Polling("mark", {First}, poll.seen, 0)
    \/ poll.batch # {First} /\ poll' = Polling("fetch", poll.batch \ {First}, poll.seen, 0)

\* Mutant: the error is logged and the next event taken up.
PollGivesUp_Continues == EventHandled

\* The handler of an event returns an error: the watermark stays, and the
\* next poll reads the same events.
PollGivesUp == poll' = Resting

EventFetch ==
    /\ poll.at = "fetch"
    /\ \/ NoFault /\ poll' = Polling("put", poll.batch, poll.seen, Now)
       \/ Fault /\ PollGivesUp
    /\ UNCHANGED <<hist, outbox, watermark, cache, builder, writer, excused>>

\* SetAccount or DeleteAccount, and then the rebuild, unless this poll has been
\* at this bucket.  Excuse: an account that is gone has no groups to rebuild but
\* those the event names.
EventPut ==
    LET gone == hist[poll.got][Event.account] = "gone"
        unnamed == gone /\ ~Event.named
        rebuild == ~unnamed /\ ~poll.seen
    IN
    /\ poll.at = "put"
    /\ \/ /\ NoFault
          /\ entry' = [entry EXCEPT ![Event.account] = IF gone THEN 0 ELSE poll.got]
          /\ excused' = excused \cup (IF unnamed THEN {Event.change} ELSE {})
          /\ IF rebuild
             THEN /\ poll' = Polling("build", poll.batch, TRUE, 0)
                  /\ builder' = [builder EXCEPT !["poller"].at = "lock"]
             ELSE EventHandled /\ UNCHANGED builder
       \/ Fault /\ PollGivesUp /\ UNCHANGED <<entry, builder, excused>>
    /\ UNCHANGED <<hist, outbox, watermark, active, inFlight, locked, writer>>

\* SetOutboxWatermark, tried three times; afterwards checkOutboxLag may rebuild.
\* Excuse: the watermark passes a row that was not visible yet.
Mark(lag) ==
    /\ poll.at = "mark"
    /\ \/ /\ NoFault
          /\ watermark' = First
          /\ excused' = excused \cup {outbox[i].change : i \in poll.missed}
       \/ Fault /\ UNCHANGED <<watermark, excused>>
    /\ poll' = [Resting EXCEPT !.at = IF lag THEN "lag" ELSE "idle"]
    /\ builder' = IF lag THEN [builder EXCEPT !["poller"].at = "lock"] ELSE builder
    /\ UNCHANGED <<hist, outbox, cache, writer>>

(***************************************************************************)
(* rebuildBucket, and the way to SetSnapshot of a request that misses.     *)
(***************************************************************************)
Hit == /\ active # 0
       /\ Listed(active) # {}
       /\ \A a \in Listed(active) : entry[a] # 0

\* ListSchedulableAccounts: a hit ends it; a miss goes to the database, unless
\* the fallback is limited.
Ask(r) ==
    /\ builder[r].at = "idle" /\ MayUpset
    /\ \/ builder' = [builder EXCEPT ![r].at = "done"]
       \/ ~Hit /\ builder' = [builder EXCEPT ![r].at = "read"]
    /\ UNCHANGED <<hist, outbox, watermark, cache, poll, writer, bounds, excused>>

BuildEnds(p, ok) ==
    /\ builder' = [builder EXCEPT ![p] = [at |-> IF p \in Requests THEN "done" ELSE "idle",
                                          got |-> 0, ok |-> TRUE]]
    /\ \/ p # "poller" /\ UNCHANGED poll
       \/ p = "poller" /\ poll.at = "lag" /\ poll' = Resting
       \/ p = "poller" /\ poll.at = "build" /\ ok /\ EventHandled
       \/ p = "poller" /\ poll.at = "build" /\ ~ok /\ PollGivesUp

\* The poller comes here from an event or from checkOutboxLag, the other worker
\* whenever its interval has passed, or as the process starts.
Comes(p) == builder[p].at = IF p = "full" THEN "idle" ELSE "lock"

\* Mutant: the lock is set whether or not it is there.
Lock_Set(p) ==
    /\ p \notin Requests /\ Comes(p)
    /\ locked' = TRUE
    /\ builder' = [builder EXCEPT ![p].at = "read"]
    /\ UNCHANGED <<hist, outbox, watermark, active, inFlight, entry, poll, writer, bounds, excused>>

\* TryLockBucket: SETNX.  Without a reply the client sends it again, and finds the
\* bucket locked.
Lock(p) ==
    /\ p \notin Requests /\ Comes(p) /\ ~locked
    /\ locked' = TRUE
    /\ \/ NoFault /\ builder' = [builder EXCEPT ![p].at = "read"]
       \/ Fault /\ UNCHANGED builder
    /\ UNCHANGED <<hist, outbox, watermark, active, inFlight, entry, poll, writer, excused>>

\* Excuse: the rebuild is left to the holder of the lock, and rebuildBucket
\* reports success for all that this poll has read.
LockTaken ==
    /\ builder["poller"].at = "lock" /\ locked
    /\ BuildEnds("poller", TRUE)
    /\ excused' = excused \cup {outbox[i].change : i \in poll.batch}
    /\ UNCHANGED <<hist, outbox, watermark, cache, writer, bounds>>

LockFails ==
    /\ builder["poller"].at = "lock" /\ Fault
    /\ BuildEnds("poller", FALSE)
    /\ UNCHANGED <<hist, outbox, watermark, cache, writer, excused>>

\* loadAccountsFromDB.
Read(p) ==
    /\ builder[p].at = "read"
    /\ builder' = [builder EXCEPT ![p] = [at |-> "number", got |-> Now, ok |-> @.ok]]
    /\ UNCHANGED <<hist, outbox, watermark, cache, poll, writer, bounds, excused>>

\* INCR of the version.
Number(p) ==
    /\ builder[p].at = "number"
    /\ inFlight' = Append(inFlight, p)
    /\ builder' = [builder EXCEPT ![p].at = "write"]
    /\ UNCHANGED <<hist, outbox, watermark, active, entry, locked, poll, writer, bounds, excused>>

\* Mutant: entries that are there are left alone.
Write_Missing(p) ==
    /\ builder[p].at = "write"
    /\ entry' = [a \in Accounts |-> IF a \in Listed(builder[p].got) /\ entry[a] = 0
                                    THEN builder[p].got ELSE entry[a]]
    /\ builder' = [builder EXCEPT ![p].at = "activate"]
    /\ UNCHANGED <<hist, outbox, watermark, active, inFlight, locked, poll, writer, bounds, excused>>

\* writeAccounts.
Write(p) ==
    /\ builder[p].at = "write"
    /\ entry' = [a \in Accounts |-> IF a \in Listed(builder[p].got) THEN builder[p].got ELSE entry[a]]
    /\ builder' = [builder EXCEPT ![p].at = "activate"]
    /\ UNCHANGED <<hist, outbox, watermark, active, inFlight, locked, poll, writer, bounds, excused>>

InFlight(p) == \E i \in DOMAIN inFlight : inFlight[i] = p
Place(p) == CHOOSE i \in DOMAIN inFlight : inFlight[i] = p
Older(p) == SubSeq(inFlight, 1, Place(p) - 1)
Newer(p) == SubSeq(inFlight, Place(p) + 1, Len(inFlight))
Without(p) == IF InFlight(p) THEN Older(p) \o Newer(p) ELSE inFlight

\* Mutant: an error leaves before the deferred unlock.
AfterSetSnapshot_Returns(p, ok) ==
    [builder EXCEPT ![p] = [at |-> IF p \in Requests THEN "done" ELSE IF ok THEN "unlock" ELSE "idle",
                            got |-> 0, ok |-> ok]]

AfterSetSnapshot(p, ok) ==
    [builder EXCEPT ![p] = [at |-> IF p \in Requests THEN "done" ELSE "unlock",
                            got |-> 0, ok |-> ok]]

\* activateSnapshotScript.  Excuse: the snapshot that stays or comes is older
\* than the other one, whose changes are not in force.  A snapshot that has seen
\* a change needs no excuse for it.
Activate(p) ==
    LET got == builder[p].got
        next == IF InFlight(p) THEN got ELSE active
        seen == IF got > active THEN got ELSE active
    IN
    /\ builder[p].at = "activate"
    /\ active' = next
    /\ inFlight' = IF InFlight(p) THEN Newer(p) ELSE inFlight
    /\ excused' = (excused \ (1..next)) \cup ((next + 1)..seen)
    /\ builder' = AfterSetSnapshot(p, TRUE)
    /\ UNCHANGED <<hist, outbox, watermark, entry, locked, poll, writer, bounds>>

\* A call between the lock and the activation fails: what was written stays.
BuildFails(p) ==
    /\ builder[p].at \in {"read", "number", "write", "activate"} /\ Fault
    /\ builder' = AfterSetSnapshot(p, FALSE)
    /\ inFlight' = Without(p)
    /\ UNCHANGED <<hist, outbox, watermark, active, entry, locked, poll, writer, excused>>

\* UnlockBucket: a DEL, whoever holds the lock by now.
Unlock(p) ==
    /\ builder[p].at = "unlock"
    /\ (NoFault /\ locked' = FALSE) \/ (Fault /\ UNCHANGED locked)
    /\ BuildEnds(p, builder[p].ok)
    /\ UNCHANGED <<hist, outbox, watermark, active, inFlight, entry, writer, excused>>

Orphaned == locked /\ \A p \in {"poller", "full"} : builder[p].at \notin Section

\* The TTL of a lock that nobody will delete.
OrphanLapses ==
    /\ Orphaned
    /\ locked' = FALSE
    /\ UNCHANGED <<hist, outbox, watermark, active, inFlight, entry, builder, poll, writer, bounds, excused>>

\* The TTL runs out during the rebuild, or a DEL that was sent twice ends the lock
\* of the next holder.
LockLapses ==
    /\ locked /\ ~Orphaned /\ MayUpset
    /\ locked' = FALSE /\ lapses' = lapses + 1
    /\ UNCHANGED <<hist, outbox, watermark, active, inFlight, entry, builder, poll, writer, faults, crashes, excused>>

\* The process dies and starts again.  Excuse: a writer dies between its change
\* and the event.
Crash ==
    /\ MayUpset /\ crashes' = crashes + 1
    /\ excused' = excused \cup {writer[w].change : w \in {v \in Writers :
                                    writer[v].at \in {"uncache", "insert", "commit"}}}
    /\ outbox' = [i \in DOMAIN outbox |->
                    IF outbox[i].st = "open" THEN [outbox[i] EXCEPT !.st = "aborted"] ELSE outbox[i]]
    /\ writer' = [w \in Writers |-> IF writer[w].at = "idle" THEN writer[w] ELSE Done]
    /\ builder' = [p \in Builders |-> [at |-> IF p \in Requests /\ builder[p].at # "idle"
                                              THEN "done" ELSE "idle", got |-> 0, ok |-> TRUE]]
    /\ poll' = Resting
    /\ inFlight' = <<>>
    /\ UNCHANGED <<hist, watermark, active, entry, locked, faults, lapses>>

WriterStep(w) ==
    Uncache(w) \/ Insert(w) \/ NotInserted(w) \/ Commit(w) \/ Sync(w) \/ SyncPut(w)

BuilderStep(p) ==
    \/ Lock(p) \/ (p = "poller" /\ (LockTaken \/ LockFails)) \/ Read(p) \/ Number(p)
    \/ Write(p) \/ Activate(p) \/ BuildFails(p) \/ Unlock(p)

PollStep == EventFetch \/ EventPut \/ \E lag \in BOOLEAN : Mark(lag)

Next ==
    \/ \E w \in Writers : WriterStep(w) \/ \E kind \in Kinds : Save(w, kind)
    \/ PollReads \/ PollStep
    \/ \E r \in Requests : Ask(r)
    \/ \E p \in Builders : BuilderStep(p)
    \/ OrphanLapses \/ LockLapses \/ Crash

Spec == Init /\ [][Next]_vars

\* Calls return, the interval passes and keys lapse; nobody has to change an
\* account or send a request, and the outbox need not be polled.
Fairness ==
    /\ \A w \in Writers : WF_vars(WriterStep(w))
    /\ \A p \in Builders : WF_vars(BuilderStep(p))
    /\ WF_vars(PollStep) /\ WF_vars(OrphanLapses)

FairSpec == Spec /\ Fairness

\* With the outbox polled for ever.
PolledSpec == FairSpec /\ WF_vars(PollReads)

-------------------------------------------------------------------------------
\* A change the active snapshot has not seen still has a writer that will tell
\* of it, or an event the watermark has not passed: the interval rebuild apart,
\* a notice is lost in the ways excused names and in no other, whatever the
\* order of writers, polls, rebuilds and requests.
Notified(c) ==
    \/ \E w \in Writers : writer[w].change = c /\ writer[w].at \in {"uncache", "insert", "commit"}
    \/ \E i \in DOMAIN outbox : outbox[i].change = c /\ i > watermark

LostOnlyAsExcused ==
    \A c \in 2..Now : (active \in 1..(c - 1) /\ c \notin excused) => Notified(c)

\* Two rebuilds under the lock never leave the older reading in force, though
\* the version is given out after the reading: it takes a lock that lapses under
\* its holder, or a request's fallback, which takes no lock.
NeverOlder ==
    [][active' < active => lapses > 0 \/ \E r \in Requests : builder[r].at # "idle"]_vars

\* Whatever notices are lost, and however a stale entry or snapshot got there,
\* in the end requests that hit are served the accounts that may be scheduled:
\* the interval rebuild alone sees to that.
Served == {a \in Listed(active) : hist[entry[a]][a] = "listed"}

CatchesUp == <>[](Hit => Served = Listed(Now))

\* What syncSchedulerAccountSnapshot is said to ensure: that the logic of sticky
\* sessions, which asks for the entry of one account, detects that an account may
\* not be scheduled any more.  The code does not: a rebuild that read before the
\* change writes its entry after those of the sync and of the event, and the
\* rebuilds after it leave the account out.
StickyDetects ==
    <>[](\A a \in Accounts :
            hist[Now][a] = "unlisted" /\ entry[a] # 0 => hist[entry[a]][a] = "unlisted")
================================================================================
