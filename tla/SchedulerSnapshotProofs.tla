------------------------ MODULE SchedulerSnapshotProofs ------------------------
(***************************************************************************)
(* Proofs about SchedulerSnapshot: the types, that a notice is lost only   *)
(* as excused names, and that rebuilds under the lock never bring an older *)
(* reading into force.                                                     *)
(***************************************************************************)
EXTENDS SchedulerSnapshot, SequenceTheorems, WellFoundedInduction, TLAPS

-------------------------------------------------------------------------------
(* Numbers and sequences.                                                  *)

\* A batch that is not empty has a first event.
LEMMA LeastExists ==
  ASSUME NEW B, B \subseteq Nat, B # {}
  PROVE  \E i \in B : \A j \in B : i <= j
<1>1. PICK i \in B : \A j \in B : ~(<<j, i>> \in OpToRel(<, Nat))
  BY NatLessThanWellFounded, WFMin
<1>2. \A j \in B : ~(j < i)
  BY <1>1 DEF OpToRel
<1> QED
  BY <1>2

LEMMA FirstIsLeast ==
  ASSUME TypeOK, poll.batch # {}
  PROVE  First \in poll.batch /\ \A j \in poll.batch : First <= j
<1>1. poll.batch \subseteq Nat
  BY DEF TypeOK
<1>2. \E i \in poll.batch : \A j \in poll.batch : i <= j
  BY <1>1, LeastExists
<1> QED
  BY <1>2 DEF First

\* What is taken out of the numbers in flight leaves numbers in flight.
LEMMA FlightTypes ==
  ASSUME TypeOK, NEW p \in Builders
  PROVE  /\ Append(inFlight, p) \in Seq(Builders)
         /\ InFlight(p) => Newer(p) \in Seq(Builders)
         /\ Without(p) \in Seq(Builders)
<1>1. inFlight \in Seq(Builders)
  BY DEF TypeOK
<1>2. Append(inFlight, p) \in Seq(Builders)
  BY <1>1, AppendProperties
<1>3. ASSUME InFlight(p) PROVE Newer(p) \in Seq(Builders) /\ Older(p) \in Seq(Builders)
  <2>1. Place(p) \in DOMAIN inFlight
    BY <1>3 DEF InFlight, Place
  <2>2. Place(p) \in 1..Len(inFlight) /\ Len(inFlight) \in Nat
    BY <1>1, <2>1, LenProperties
  <2> QED
    BY <1>1, <2>2 DEF Newer, Older
<1>4. Without(p) \in Seq(Builders)
  BY <1>1, <1>3, ConcatProperties DEF Without
<1> QED
  BY <1>2, <1>3, <1>4

-------------------------------------------------------------------------------
(* Types.                                                                  *)

PollAts == {"idle", "fetch", "put", "build", "mark", "lag"}

PollType ==
    poll \in [at : PollAts, batch : SUBSET (1..Len(outbox)), missed : SUBSET (1..Len(outbox)),
              seen : BOOLEAN, got : 0..Now]

BuilderType ==
    /\ builder \in [Builders -> [at : {"idle", "lock", "done"} \cup Section,
                                 got : 0..Now, ok : BOOLEAN]]
    /\ poll.at \in {"build", "lag"} <=> builder["poller"].at # "idle"
    /\ \A p \in Builders : builder[p].got # 0 <=> builder[p].at \in {"number", "write", "activate"}

WriterAts == {"idle", "uncache", "insert", "commit", "sync", "put", "done"}

WriterType ==
    writer \in [Writers -> [at : WriterAts, kind : Kinds, change : 0..Now, got : 0..Now]]

Events(n) == [account : Accounts, change : 1..n, named : BOOLEAN,
              st : {"open", "committed", "aborted"}]

OutboxType == outbox \in Seq(Events(Now))

HistType == hist \in Seq([Accounts -> Statuses]) /\ hist # <<>>

RestType == /\ watermark \in 0..Len(outbox)
            /\ active \in 0..Now
            /\ inFlight \in Seq(Builders)
            /\ entry \in [Accounts -> 0..Now]
            /\ locked \in BOOLEAN
            /\ faults \in Nat /\ lapses \in Nat /\ crashes \in Nat
            /\ excused \in SUBSET (1..Now)

LEMMA TypeParts ==
  TypeOK <=> HistType /\ OutboxType /\ RestType /\ PollType /\ BuilderType /\ WriterType
BY DEF TypeOK, HistType, OutboxType, Events, RestType, PollType, PollAts, BuilderType, WriterType, WriterAts

LEMMA Sizes ==
  ASSUME TypeOK
  PROVE  Now \in Nat \ {0} /\ Len(outbox) \in Nat
BY EmptySeq, LenProperties DEF TypeOK, Now

\* What the database holds stays what it was when nothing changes it.
LEMMA SizesStay ==
  ASSUME UNCHANGED <<hist, outbox>>
  PROVE  /\ (HistType => HistType') /\ (OutboxType => OutboxType')
         /\ Now' = Now /\ Len(outbox') = Len(outbox)
BY DEF HistType, OutboxType, Now

LEMMA BoundsType ==
  ASSUME TypeOK, NoFault \/ Fault
  PROVE  faults' \in Nat /\ lapses' \in Nat /\ crashes' \in Nat
BY DEF TypeOK, NoFault, Fault, bounds


LEMMA TypePartsNext ==
  ASSUME HistType', OutboxType', RestType', PollType', BuilderType', WriterType'
  PROVE  TypeOK'
BY DEF TypeOK, HistType, OutboxType, Events, RestType, PollType, PollAts, BuilderType, WriterType, WriterAts

\* The events a poll has read are there until it has handled them, one at a
\* time, and a writer that will tell of a change has made one.
Batched == /\ poll.at \in {"fetch", "put", "build", "mark"} => poll.batch # {}
           /\ poll.at = "mark" => \E e \in poll.batch : poll.batch = {e}

Telling == {"uncache", "insert", "commit"}

Telltale == \A w \in Writers : writer[w].at \in Telling => writer[w].change # 0

\* Types that refer to the database only by its size survive its growth.
LEMMA GrownTypes ==
  ASSUME TypeOK, Now' = Now + 1, UNCHANGED <<outbox, watermark, cache, builder, poll, bounds, excused>>
  PROVE  OutboxType' /\ RestType' /\ PollType' /\ BuilderType'
<1> USE TypeParts, Sizes DEF cache, bounds
<1>0. 1..Now \subseteq 1..Now' /\ 0..Now \subseteq 0..Now'
  OBVIOUS
<1>1. OutboxType'
  <2>1. Events(Now) \subseteq Events(Now')
    BY <1>0 DEF Events
  <2>2. outbox \in Seq(Events(Now'))
    BY <2>1, SeqMonotonic DEF OutboxType
  <2> QED
    BY <2>2 DEF OutboxType
<1>2. RestType'
  BY <1>0 DEF RestType
<1>3. PollType'
  BY <1>0 DEF PollType
<1>4. BuilderType'
  BY <1>0 DEF BuilderType
<1> QED
  BY <1>1, <1>2, <1>3, <1>4

\* Parts that a step leaves alone.
LEMMA PartsStay ==
  ASSUME TypeOK, Now' = Now
  PROVE  /\ UNCHANGED <<poll, outbox>> => PollType'
         /\ UNCHANGED <<builder, poll>> => BuilderType'
         /\ UNCHANGED writer => WriterType'
<1> USE TypeParts
<1>1. UNCHANGED <<poll, outbox>> => PollType'
  BY DEF PollType
<1>2. UNCHANGED <<builder, poll>> => BuilderType'
  BY DEF BuilderType
<1>3. UNCHANGED writer => WriterType'
  BY DEF WriterType
<1> QED
  BY <1>1, <1>2, <1>3


\* A row of the outbox.
LEMMA RowType ==
  ASSUME TypeOK, NEW i \in 1..Len(outbox)
  PROVE  /\ outbox[i] \in Events(Now)
         /\ outbox[i].account \in Accounts /\ outbox[i].change \in 1..Now
<1>1. outbox[i] \in Events(Now)
  BY TypeParts, ElementOfSeq DEF OutboxType
<1> QED
  BY <1>1 DEF Events

\* Rewriting the rows of a sequence keeps its length.
LEMMA RowsRewritten ==
  ASSUME NEW S, NEW T, NEW s \in Seq(S), NEW t,
         t = [i \in DOMAIN s |-> t[i]], \A i \in DOMAIN s : t[i] \in T
  PROVE  t \in Seq(T) /\ Len(t) = Len(s)
<1>1. Len(s) \in Nat /\ DOMAIN s = 1..Len(s)
  BY LenProperties
<1>2. t \in [1..Len(s) -> T]
  BY <1>1
<1>3. t \in Seq(T)
  BY <1>1, <1>2, SeqDef
<1>4. Len(t) \in Nat /\ DOMAIN t = 1..Len(t)
  BY <1>3, LenProperties
<1>5. 1..Len(t) = 1..Len(s)
  BY <1>2, <1>4
<1>6. Len(t) = Len(s)
  BY <1>1, <1>4, <1>5
<1> QED
  BY <1>3, <1>6

LEMMA AfterInsertType ==
  ASSUME TypeOK, NEW w \in Writers
  PROVE  /\ Done \in [at : WriterAts, kind : Kinds, change : 0..Now, got : 0..Now]
         /\ AfterInsert(w) \in [at : WriterAts, kind : Kinds, change : 0..Now, got : 0..Now]
         /\ AfterInsert(w).at \notin Telling
<1> USE TypeParts, Sizes DEF WriterType, WriterAts, Telling
<1>1. Done \in [at : WriterAts, kind : Kinds, change : 0..Now, got : 0..Now] /\ Done.at = "done"
  BY DEF Done, Kinds
<1>2. CASE writer[w].kind = "limit"
  BY <1>1, <1>2 DEF AfterInsert
<1>3. CASE writer[w].kind # "limit"
  BY <1>1, <1>3 DEF AfterInsert
<1> QED
  BY <1>1, <1>2, <1>3


\* Handling an event or giving up leaves a legal poll.
LEMMA HandledType ==
  ASSUME TypeOK, UNCHANGED <<hist, outbox>>, EventHandled \/ PollGivesUp
  PROVE  PollType' /\ poll'.at \in {"idle", "fetch", "mark"}
<1>1. CASE PollGivesUp
  BY <1>1 DEF PollGivesUp, Resting, PollType, PollAts, Now
<1>2. CASE EventHandled
  <2>1. poll.batch \subseteq 1..Len(outbox) /\ poll.missed \subseteq 1..Len(outbox) /\ poll.seen \in BOOLEAN
    BY TypeParts DEF PollType
  <2> QED
    BY <1>2, <2>1, Sizes DEF EventHandled, Polling, PollType, PollAts, Now
<1> QED
  BY <1>1, <1>2

LEMMA EndsType ==
  ASSUME TypeOK, UNCHANGED <<hist, outbox>>, NEW p \in Builders, NEW ok \in BOOLEAN,
         BuildEnds(p, ok)
  PROVE  PollType' /\ BuilderType'
<1> USE SchedulerSnapshotAssumption, TypeParts DEF Builders
<1>1. PollType'
  <2>1. CASE poll' = poll
    BY <2>1 DEF PollType, Now
  <2>2. CASE poll' = Resting
    BY <2>2, HandledType DEF PollGivesUp
  <2> QED
    BY <2>1, <2>2, HandledType DEF BuildEnds
<1>2. builder' = [builder EXCEPT ![p] = [at |-> IF p \in Requests THEN "done" ELSE "idle",
                                         got |-> 0, ok |-> TRUE]]
  BY DEF BuildEnds
<1>3. p = "poller" => poll'.at \in {"idle", "fetch", "mark"}
  BY HandledType DEF BuildEnds, Resting
<1>4. p # "poller" => poll' = poll
  BY DEF BuildEnds
<1>5. BuilderType'
  BY <1>2, <1>3, <1>4, Sizes DEF BuilderType, Now
<1> QED
  BY <1>1, <1>5


LEMMA TypeStep ==
  ASSUME TypeOK, Batched, Telltale, Next
  PROVE  TypeOK'
<1> USE SchedulerSnapshotAssumption, TypeParts DEF Builders
<1>1. ASSUME NEW w \in Writers, NEW kind \in Kinds, Save(w, kind) PROVE TypeOK'
  <2>1. Now' = Now + 1 /\ HistType'
    <3>1. StatusAfter(kind) \in Statuses
      BY Zenon DEF StatusAfter, Kinds, Statuses
    <3>2. Now \in 1..Len(hist)
      BY Sizes DEF Now
    <3>3. hist[Now] \in [Accounts -> Statuses]
      BY <3>2, ElementOfSeq DEF HistType, Now
    <3>4. [hist[Now] EXCEPT ![TargetOf[w]] = StatusAfter(kind)] \in [Accounts -> Statuses]
      BY <3>1, <3>3
    <3> QED
      BY <1>1, <3>4, AppendProperties DEF Save, HistType, Now
  <2>2. OutboxType' /\ RestType' /\ PollType' /\ BuilderType'
    BY <1>1, <2>1, GrownTypes DEF Save
  <2>3. WriterType'
    BY <1>1, <2>1, Sizes DEF Save, WriterType, WriterAts
  <2> QED
    BY <2>1, <2>2, <2>3, TypePartsNext
<1>2. ASSUME NEW w \in Writers, Uncache(w) PROVE TypeOK'
  <2>1. UNCHANGED <<hist, outbox>>
    BY <1>2 DEF Uncache
  <2>2. RestType'
    BY <1>2, <2>1, SizesStay, Sizes, BoundsType DEF Uncache, RestType
  <2>3. PollType'
    BY <1>2, <2>1, SizesStay, PartsStay DEF Uncache
  <2>4. BuilderType'
    BY <1>2, <2>1, SizesStay, PartsStay DEF Uncache
  <2>5. WriterType'
    BY <1>2, <2>1, SizesStay, Sizes DEF Uncache, WriterType, WriterAts
  <2> QED
    BY <2>1, <2>2, <2>3, <2>4, <2>5, SizesStay, TypePartsNext
<1>3. ASSUME NEW w \in Writers, Insert(w) PROVE TypeOK'
  <2> DEFINE row == [account |-> TargetOf[w], change |-> writer[w].change,
                     named |-> writer[w].kind = "delete", st |-> "open"]
  <2>1. row \in Events(Now)
    BY <1>3 DEF Insert, Telltale, Telling, WriterType, Events
  <2>2. outbox' = Append(outbox, row) /\ hist' = hist
    BY <1>3 DEF Insert
  <2>3. HistType' /\ Now' = Now
    BY <2>2 DEF HistType, Now
  <2>4. OutboxType' /\ Len(outbox') = Len(outbox) + 1
    BY <2>1, <2>2, <2>3, AppendProperties DEF OutboxType
  <2>5. 1..Len(outbox) \subseteq 1..Len(outbox') /\ 0..Len(outbox) \subseteq 0..Len(outbox')
    BY <2>4, Sizes
  <2>6. RestType' /\ PollType'
    BY <1>3, <2>3, <2>5 DEF Insert, RestType, PollType, cache, bounds
  <2>7. BuilderType' /\ WriterType'
    BY <1>3, <2>3, PartsStay DEF Insert, WriterType, WriterAts, cache
  <2> QED
    BY <2>3, <2>4, <2>6, <2>7, TypePartsNext
<1>4. ASSUME NEW w \in Writers, NotInserted(w) PROVE TypeOK'
  <2>1. UNCHANGED <<hist, outbox>>
    BY <1>4 DEF NotInserted
  <2>2. RestType'
    BY <1>4, <2>1, SizesStay, BoundsType DEF NotInserted, RestType, cache, bounds, NoFault, Fault, Telltale, Telling, WriterType
  <2>3. PollType'
    BY <1>4, <2>1, SizesStay, PartsStay DEF NotInserted
  <2>4. BuilderType'
    BY <1>4, <2>1, SizesStay, PartsStay DEF NotInserted
  <2>5. WriterType'
    BY <1>4, <2>1, SizesStay, AfterInsertType DEF NotInserted, WriterType
  <2> QED
    BY <2>1, <2>2, <2>3, <2>4, <2>5, SizesStay, TypePartsNext
<1>5. ASSUME NEW w \in Writers, Commit(w) PROVE TypeOK'
  <2>1. hist' = hist /\ HistType' /\ Now' = Now
    BY <1>5 DEF Commit, HistType, Now
  <2>2. \A i \in DOMAIN outbox : outbox'[i] \in Events(Now)
    <3> SUFFICES ASSUME NEW i \in 1..Len(outbox) PROVE outbox'[i] \in Events(Now)
      BY LenProperties DEF OutboxType
    <3>1. i \in DOMAIN outbox
      BY LenProperties DEF OutboxType
    <3>2. outbox'[i] = outbox[i] \/ outbox'[i] = [outbox[i] EXCEPT !.st = "committed"]
      BY <1>5, <3>1 DEF Commit
    <3> QED
      BY <3>2, RowType DEF Events
  <2>3. outbox' = [i \in DOMAIN outbox |-> outbox'[i]]
    BY <1>5 DEF Commit
  <2>4. outbox' \in Seq(Events(Now)) /\ Len(outbox') = Len(outbox)
    BY <2>2, <2>3, RowsRewritten DEF OutboxType
  <2>5. OutboxType'
    BY <2>1, <2>4 DEF OutboxType
  <2>6. RestType' /\ PollType' /\ BuilderType'
    BY <1>5, <2>1, <2>4 DEF Commit, RestType, PollType, BuilderType, cache, bounds
  <2>7. WriterType'
    BY <1>5, <2>1, AfterInsertType DEF Commit, WriterType
  <2> QED
    BY <2>1, <2>5, <2>6, <2>7, TypePartsNext
<1>6. ASSUME NEW w \in Writers, Sync(w) PROVE TypeOK'
  <2>1. UNCHANGED <<hist, outbox>>
    BY <1>6 DEF Sync
  <2>2. RestType'
    BY <1>6, <2>1, SizesStay, BoundsType DEF Sync, RestType, cache, bounds, NoFault, Fault
  <2>3. PollType'
    BY <1>6, <2>1, SizesStay, PartsStay DEF Sync
  <2>4. BuilderType'
    BY <1>6, <2>1, SizesStay, PartsStay DEF Sync
  <2>5. WriterType'
    <3>1. CASE writer' = [writer EXCEPT ![w] = Done]
      BY <2>1, <3>1, SizesStay, AfterInsertType DEF WriterType
    <3>2. CASE writer' = [writer EXCEPT ![w] = [at |-> "put", kind |-> @.kind,
                                                change |-> @.change, got |-> Now]]
      BY <2>1, <3>2, SizesStay, Sizes DEF WriterType, WriterAts
    <3> QED
      BY <1>6, <3>1, <3>2 DEF Sync
  <2> QED
    BY <2>1, <2>2, <2>3, <2>4, <2>5, SizesStay, TypePartsNext
<1>7. ASSUME NEW w \in Writers, SyncPut(w) PROVE TypeOK'
  <2>1. UNCHANGED <<hist, outbox>>
    BY <1>7 DEF SyncPut
  <2>2. RestType'
    BY <1>7, <2>1, SizesStay, BoundsType DEF SyncPut, RestType, bounds, NoFault, Fault, WriterType
  <2>3. PollType'
    BY <1>7, <2>1, SizesStay, PartsStay DEF SyncPut
  <2>4. BuilderType'
    BY <1>7, <2>1, SizesStay, PartsStay DEF SyncPut
  <2>5. WriterType'
    BY <1>7, <2>1, SizesStay, Sizes DEF SyncPut, WriterType, WriterAts, Done, Kinds
  <2> QED
    BY <2>1, <2>2, <2>3, <2>4, <2>5, SizesStay, TypePartsNext
<1>8. ASSUME PollReads PROVE TypeOK'
  <2>1. UNCHANGED <<hist, outbox>>
    BY <1>8 DEF PollReads
  <2>2. RestType'
    BY <1>8, <2>1, SizesStay, BoundsType DEF PollReads, RestType, cache, bounds, NoFault, Fault
  <2>3. PollType'
    <3>1. Pending \subseteq 1..Len(outbox) /\ Unseen \subseteq 1..Len(outbox)
      BY LenProperties DEF Pending, Unseen, OutboxType
    <3> QED
      BY <1>8, <2>1, <3>1, Sizes DEF PollReads, PollType, PollAts, Now
  <2>4. BuilderType'
    BY <1>8, <2>1, SizesStay, Sizes DEF PollReads, BuilderType, Section
  <2>5. WriterType'
    BY <1>8, <2>1, SizesStay, PartsStay DEF PollReads
  <2> QED
    BY <2>1, <2>2, <2>3, <2>4, <2>5, SizesStay, TypePartsNext
<1>9. ASSUME EventFetch PROVE TypeOK'
  <2>1. UNCHANGED <<hist, outbox>>
    BY <1>9 DEF EventFetch
  <2>2. RestType'
    BY <1>9, <2>1, SizesStay, BoundsType DEF EventFetch, RestType, cache, bounds, NoFault, Fault
  <2>3. PollType'
    BY <1>9, <2>1, HandledType, Sizes DEF EventFetch, Polling, PollType, PollAts, Now
  <2>4. BuilderType'
    <3>1. poll'.at \in {"idle", "put"}
      BY <1>9 DEF EventFetch, Polling, PollGivesUp, Resting
    <3> QED
      BY <1>9, <2>1, <3>1, SizesStay DEF EventFetch, BuilderType
  <2>5. WriterType'
    BY <1>9, <2>1, SizesStay, PartsStay DEF EventFetch
  <2> QED
    BY <2>1, <2>2, <2>3, <2>4, <2>5, SizesStay, TypePartsNext
<1>10. ASSUME EventPut PROVE TypeOK'
  <2>1. UNCHANGED <<hist, outbox>>
    BY <1>10 DEF EventPut
  <2>2. RestType'
    <3>1. First \in 1..Len(outbox)
      BY <1>10, FirstIsLeast DEF EventPut, Batched, PollType
    <3>2. Event.account \in Accounts /\ Event.change \in 1..Now
      BY <3>1, RowType DEF Event
    <3>3. poll.got \in 0..Now
      BY DEF PollType
    <3> QED
      <4>0. \/ entry' = entry
            \/ entry' = [entry EXCEPT ![Event.account] = 0]
            \/ entry' = [entry EXCEPT ![Event.account] = poll.got]
        BY <1>10 DEF EventPut
      <4>1. entry' \in [Accounts -> 0..Now]
        BY <3>2, <3>3, <4>0, Sizes DEF RestType
      <4>2. excused' \in SUBSET (1..Now)
        BY <1>10, <3>2 DEF EventPut, RestType
      <4>3. NoFault \/ Fault
        BY <1>10 DEF EventPut
      <4> QED
        BY <1>10, <2>1, <4>1, <4>2, <4>3, SizesStay, BoundsType DEF EventPut, RestType
  <2>3. PollType'
    <3>1. CASE poll' = Polling("build", poll.batch, TRUE, 0)
      BY <2>1, <3>1, Sizes, SizesStay DEF Polling, PollType, PollAts
    <3> QED
      BY <1>10, <2>1, <3>1, HandledType DEF EventPut
  <2>4. BuilderType'
    <3>1. CASE poll' = Polling("build", poll.batch, TRUE, 0) /\ builder' = [builder EXCEPT !["poller"].at = "lock"]
      BY <1>10, <2>1, <3>1, SizesStay DEF EventPut, BuilderType, Polling
    <3>2. CASE (EventHandled \/ PollGivesUp) /\ UNCHANGED builder
      BY <1>10, <2>1, <3>2, SizesStay, HandledType DEF EventPut, BuilderType
    <3> QED
      BY <1>10, <3>1, <3>2 DEF EventPut
  <2>5. WriterType'
    BY <1>10, <2>1, SizesStay, PartsStay DEF EventPut
  <2> QED
    BY <2>1, <2>2, <2>3, <2>4, <2>5, SizesStay, TypePartsNext
<1>11. ASSUME NEW lag \in BOOLEAN, Mark(lag) PROVE TypeOK'
  <2>1. UNCHANGED <<hist, outbox>>
    BY <1>11 DEF Mark
  <2>2. RestType'
    <3>1. First \in 1..Len(outbox)
      BY <1>11, FirstIsLeast DEF Mark, Batched, PollType
    <3>2. \A i \in poll.missed : outbox[i].change \in 1..Now
      BY RowType DEF PollType
    <3> QED
      BY <1>11, <2>1, <3>1, <3>2, Sizes, SizesStay, BoundsType DEF Mark, cache, RestType, bounds, NoFault, Fault
  <2>3. PollType'
    <3>1. poll' = [at |-> IF lag THEN "lag" ELSE "idle", batch |-> {}, missed |-> {}, seen |-> FALSE, got |-> 0]
      BY <1>11, Zenon DEF Mark, Resting
    <3> QED
      BY <2>1, <3>1, Sizes, SizesStay DEF PollType, PollAts
  <2>4. BuilderType'
    <3>1. poll'.at = IF lag THEN "lag" ELSE "idle"
      BY <1>11 DEF Mark, Resting
    <3> QED
      BY <1>11, <2>1, <3>1, SizesStay DEF Mark, BuilderType
  <2>5. WriterType'
    BY <1>11, <2>1, SizesStay, PartsStay DEF Mark
  <2> QED
    BY <2>1, <2>2, <2>3, <2>4, <2>5, SizesStay, TypePartsNext
<1>12. ASSUME NEW r \in Requests, Ask(r) PROVE TypeOK'
  <2>1. UNCHANGED <<hist, outbox>>
    BY <1>12 DEF Ask
  <2>2. RestType'
    BY <1>12, <2>1, SizesStay, BoundsType DEF Ask, RestType, cache, bounds, NoFault, Fault
  <2>3. PollType'
    BY <1>12, <2>1, SizesStay, PartsStay DEF Ask
  <2>4. BuilderType'
    BY <1>12, <2>1, SizesStay, Sizes DEF Ask, BuilderType, Section
  <2>5. WriterType'
    BY <1>12, <2>1, SizesStay, PartsStay DEF Ask
  <2> QED
    BY <2>1, <2>2, <2>3, <2>4, <2>5, SizesStay, TypePartsNext
<1>13. ASSUME NEW p \in Builders, Lock(p) PROVE TypeOK'
  <2>1. UNCHANGED <<hist, outbox>>
    BY <1>13 DEF Lock
  <2>2. RestType'
    BY <1>13, <2>1, SizesStay, BoundsType DEF Lock, RestType, cache, bounds, NoFault, Fault
  <2>3. PollType'
    BY <1>13, <2>1, SizesStay, PartsStay DEF Lock
  <2>4. BuilderType'
    BY <1>13, <2>1, SizesStay, Sizes DEF Lock, BuilderType, Section, Comes
  <2>5. WriterType'
    BY <1>13, <2>1, SizesStay, PartsStay DEF Lock
  <2> QED
    BY <2>1, <2>2, <2>3, <2>4, <2>5, SizesStay, TypePartsNext
<1>14. ASSUME LockTaken PROVE TypeOK'
  <2>1. UNCHANGED <<hist, outbox>>
    BY <1>14 DEF LockTaken
  <2>2. RestType'
    <3>1. \A i \in poll.batch : outbox[i].change \in 1..Now
      BY RowType DEF PollType
    <3> QED
      BY <1>14, <2>1, <3>1, SizesStay DEF LockTaken, RestType, cache, bounds
  <2>3. PollType'
    BY <1>14, <2>1, EndsType DEF LockTaken
  <2>4. BuilderType'
    BY <1>14, <2>1, EndsType DEF LockTaken
  <2>5. WriterType'
    BY <1>14, <2>1, SizesStay, PartsStay DEF LockTaken
  <2> QED
    BY <2>1, <2>2, <2>3, <2>4, <2>5, SizesStay, TypePartsNext
<1>15. ASSUME LockFails PROVE TypeOK'
  <2>1. UNCHANGED <<hist, outbox>>
    BY <1>15 DEF LockFails
  <2>2. RestType'
    BY <1>15, <2>1, SizesStay, BoundsType DEF LockFails, RestType, cache, bounds, NoFault, Fault
  <2>3. PollType'
    BY <1>15, <2>1, EndsType DEF LockFails
  <2>4. BuilderType'
    BY <1>15, <2>1, EndsType DEF LockFails
  <2>5. WriterType'
    BY <1>15, <2>1, SizesStay, PartsStay DEF LockFails
  <2> QED
    BY <2>1, <2>2, <2>3, <2>4, <2>5, SizesStay, TypePartsNext
<1>16. ASSUME NEW p \in Builders, Read(p) PROVE TypeOK'
  <2>1. UNCHANGED <<hist, outbox>>
    BY <1>16 DEF Read
  <2>2. RestType'
    BY <1>16, <2>1, SizesStay, BoundsType DEF Read, RestType, cache, bounds, NoFault, Fault
  <2>3. PollType'
    BY <1>16, <2>1, SizesStay, PartsStay DEF Read
  <2>4. BuilderType'
    BY <1>16, <2>1, SizesStay, Sizes DEF Read, BuilderType, Section
  <2>5. WriterType'
    BY <1>16, <2>1, SizesStay, PartsStay DEF Read
  <2> QED
    BY <2>1, <2>2, <2>3, <2>4, <2>5, SizesStay, TypePartsNext
<1>17. ASSUME NEW p \in Builders, Number(p) PROVE TypeOK'
  <2>1. UNCHANGED <<hist, outbox>>
    BY <1>17 DEF Number
  <2>2. RestType'
    BY <1>17, <2>1, SizesStay, FlightTypes DEF Number, RestType, bounds
  <2>3. PollType'
    BY <1>17, <2>1, SizesStay, PartsStay DEF Number
  <2>4. BuilderType'
    BY <1>17, <2>1, SizesStay, Sizes DEF Number, BuilderType, Section
  <2>5. WriterType'
    BY <1>17, <2>1, SizesStay, PartsStay DEF Number
  <2> QED
    BY <2>1, <2>2, <2>3, <2>4, <2>5, SizesStay, TypePartsNext
<1>18. ASSUME NEW p \in Builders, Write(p) PROVE TypeOK'
  <2>1. UNCHANGED <<hist, outbox>>
    BY <1>18 DEF Write
  <2>2. RestType'
    BY <1>18, <2>1, SizesStay DEF Write, RestType, bounds, BuilderType
  <2>3. PollType'
    BY <1>18, <2>1, SizesStay, PartsStay DEF Write
  <2>4. BuilderType'
    BY <1>18, <2>1, SizesStay, Sizes DEF Write, BuilderType, Section
  <2>5. WriterType'
    BY <1>18, <2>1, SizesStay, PartsStay DEF Write
  <2> QED
    BY <2>1, <2>2, <2>3, <2>4, <2>5, SizesStay, TypePartsNext
<1>19. ASSUME NEW p \in Builders, Activate(p) PROVE TypeOK'
  <2>1. UNCHANGED <<hist, outbox>>
    BY <1>19 DEF Activate
  <2>2. RestType'
    <3>1. builder[p].got \in 1..Now /\ active \in 0..Now
      BY <1>19, Sizes DEF Activate, BuilderType, RestType
    <3>2. active' \in 0..Now
      BY <1>19, <3>1 DEF Activate
    <3>3. excused' \subseteq 1..Now
      <4>1. excused' \subseteq excused \cup ((active' + 1)..(IF builder[p].got > active THEN builder[p].got ELSE active))
        BY <1>19 DEF Activate
      <4> QED
        BY <3>1, <3>2, <4>1, Sizes DEF RestType
    <3> QED
      BY <1>19, <2>1, <3>2, <3>3, SizesStay, FlightTypes DEF Activate, RestType, bounds
  <2>3. PollType'
    BY <1>19, <2>1, SizesStay, PartsStay DEF Activate
  <2>4. BuilderType'
    BY <1>19, <2>1, SizesStay, Sizes DEF Activate, BuilderType, Section, AfterSetSnapshot
  <2>5. WriterType'
    BY <1>19, <2>1, SizesStay, PartsStay DEF Activate
  <2> QED
    BY <2>1, <2>2, <2>3, <2>4, <2>5, SizesStay, TypePartsNext
<1>20. ASSUME NEW p \in Builders, BuildFails(p) PROVE TypeOK'
  <2>1. UNCHANGED <<hist, outbox>>
    BY <1>20 DEF BuildFails
  <2>2. RestType'
    BY <1>20, <2>1, SizesStay, FlightTypes, BoundsType DEF BuildFails, RestType
  <2>3. PollType'
    BY <1>20, <2>1, SizesStay, PartsStay DEF BuildFails
  <2>4. BuilderType'
    BY <1>20, <2>1, SizesStay, Sizes DEF BuildFails, BuilderType, Section, AfterSetSnapshot
  <2>5. WriterType'
    BY <1>20, <2>1, SizesStay, PartsStay DEF BuildFails
  <2> QED
    BY <2>1, <2>2, <2>3, <2>4, <2>5, SizesStay, TypePartsNext
<1>21. ASSUME NEW p \in Builders, Unlock(p) PROVE TypeOK'
  <2>1. UNCHANGED <<hist, outbox>>
    BY <1>21 DEF Unlock
  <2>2. RestType'
    BY <1>21, <2>1, SizesStay, BoundsType DEF Unlock, RestType, cache, bounds, NoFault, Fault
  <2>3. PollType'
    BY <1>21, <2>1, EndsType DEF Unlock, BuilderType
  <2>4. BuilderType'
    BY <1>21, <2>1, EndsType DEF Unlock, BuilderType
  <2>5. WriterType'
    BY <1>21, <2>1, SizesStay, PartsStay DEF Unlock
  <2> QED
    BY <2>1, <2>2, <2>3, <2>4, <2>5, SizesStay, TypePartsNext
<1>22. ASSUME OrphanLapses PROVE TypeOK'
  <2>1. UNCHANGED <<hist, outbox>>
    BY <1>22 DEF OrphanLapses
  <2>2. RestType'
    BY <1>22, <2>1, SizesStay, BoundsType DEF OrphanLapses, RestType, cache, bounds, NoFault, Fault
  <2>3. PollType'
    BY <1>22, <2>1, SizesStay, PartsStay DEF OrphanLapses
  <2>4. BuilderType'
    BY <1>22, <2>1, SizesStay, PartsStay DEF OrphanLapses
  <2>5. WriterType'
    BY <1>22, <2>1, SizesStay, PartsStay DEF OrphanLapses
  <2> QED
    BY <2>1, <2>2, <2>3, <2>4, <2>5, SizesStay, TypePartsNext
<1>23. ASSUME LockLapses PROVE TypeOK'
  <2>1. UNCHANGED <<hist, outbox>>
    BY <1>23 DEF LockLapses
  <2>2. RestType'
    <3>1. /\ UNCHANGED <<watermark, active, inFlight, entry, faults, crashes, excused>>
          /\ locked' = FALSE /\ lapses' = lapses + 1
      BY <1>23 DEF LockLapses
    <3>2. lapses' \in Nat
      BY <3>1 DEF RestType
    <3>4. locked' \in BOOLEAN
      BY <3>1
    <3>3. /\ watermark \in 0..Len(outbox) /\ active \in 0..Now
          /\ inFlight \in Seq(Builders) /\ entry \in [Accounts -> 0..Now]
          /\ faults \in Nat /\ crashes \in Nat /\ excused \in SUBSET (1..Now)
      BY DEF RestType
    <3> QED
      BY <2>1, <3>1, <3>2, <3>3, <3>4, SizesStay DEF RestType
  <2>3. PollType'
    BY <1>23, <2>1, SizesStay, PartsStay DEF LockLapses
  <2>4. BuilderType'
    BY <1>23, <2>1, SizesStay, PartsStay DEF LockLapses
  <2>5. WriterType'
    BY <1>23, <2>1, SizesStay, PartsStay DEF LockLapses
  <2> QED
    BY <2>1, <2>2, <2>3, <2>4, <2>5, SizesStay, TypePartsNext
<1>24. ASSUME Crash PROVE TypeOK'
  <2>1. hist' = hist /\ HistType' /\ Now' = Now
    BY <1>24 DEF Crash, HistType, Now
  <2>2. \A i \in DOMAIN outbox : outbox'[i] \in Events(Now)
    <3> SUFFICES ASSUME NEW i \in 1..Len(outbox) PROVE outbox'[i] \in Events(Now)
      BY LenProperties DEF OutboxType
    <3>1. i \in DOMAIN outbox
      BY LenProperties DEF OutboxType
    <3>2. outbox'[i] = outbox[i] \/ outbox'[i] = [outbox[i] EXCEPT !.st = "aborted"]
      BY <1>24, <3>1 DEF Crash
    <3> QED
      BY <3>2, RowType DEF Events
  <2>3. outbox' = [i \in DOMAIN outbox |-> outbox'[i]]
    BY <1>24 DEF Crash
  <2>4. outbox' \in Seq(Events(Now)) /\ Len(outbox') = Len(outbox)
    BY <2>2, <2>3, RowsRewritten DEF OutboxType
  <2>5. OutboxType'
    BY <2>1, <2>4 DEF OutboxType
  <2>6. RestType'
    BY <1>24, <2>1, <2>4, EmptySeq, Sizes DEF Crash, RestType, Telltale, Telling, WriterType
  <2>7. PollType' /\ BuilderType'
    BY <1>24, <2>1, <2>4, Sizes DEF Crash, Resting, PollType, PollAts, BuilderType
  <2>8. WriterType'
    BY <1>24, <2>1, AfterInsertType DEF Crash, WriterType
  <2> QED
    BY <2>1, <2>5, <2>6, <2>7, <2>8, TypePartsNext
<1> QED
  BY <1>1, <1>2, <1>3, <1>4, <1>5, <1>6, <1>7, <1>8, <1>9, <1>10, <1>11,
     <1>12, <1>13, <1>14, <1>15, <1>16, <1>17, <1>18, <1>19, <1>20, <1>21,
     <1>22, <1>23, <1>24 DEF Next, WriterStep, PollStep, BuilderStep


-------------------------------------------------------------------------------
(* Changes that are accounted for, and stay so.                            *)

\* The active snapshot has seen the change, or its notice was lost as excused
\* says.
Accounted(c) == c <= active \/ c \in excused

\* Whether it is so after the step.
StillAccounted(c) == c <= active' \/ c \in excused'

LEMMA AccountsKept ==
  ASSUME TypeOK, Next
  PROVE  \A c \in Nat : Accounted(c) => StillAccounted(c)
<1> DEFINE Goal == \A c \in Nat : Accounted(c) => StillAccounted(c)
<1>a. ASSUME active' = active, excused \subseteq excused' PROVE Goal
  BY <1>a DEF Accounted, StillAccounted
<1>1. ASSUME NEW w \in Writers, NEW kind \in Kinds, Save(w, kind) PROVE Goal
  BY <1>1, <1>a DEF Save, cache
<1>2. ASSUME NEW w \in Writers, Uncache(w) PROVE Goal
  BY <1>2, <1>a DEF Uncache, cache
<1>3. ASSUME NEW w \in Writers, Insert(w) PROVE Goal
  BY <1>3, <1>a DEF Insert, cache
<1>4. ASSUME NEW w \in Writers, NotInserted(w) PROVE Goal
  BY <1>4, <1>a DEF NotInserted, cache
<1>5. ASSUME NEW w \in Writers, Commit(w) PROVE Goal
  BY <1>5, <1>a DEF Commit, cache
<1>6. ASSUME NEW w \in Writers, Sync(w) PROVE Goal
  BY <1>6, <1>a DEF Sync, cache
<1>7. ASSUME NEW w \in Writers, SyncPut(w) PROVE Goal
  BY <1>7, <1>a DEF SyncPut, cache
<1>8. ASSUME PollReads PROVE Goal
  BY <1>8, <1>a DEF PollReads, cache
<1>9. ASSUME EventFetch PROVE Goal
  BY <1>9, <1>a DEF EventFetch, cache
<1>10. ASSUME EventPut PROVE Goal
  BY <1>10, <1>a DEF EventPut, cache
<1>11. ASSUME NEW lag \in BOOLEAN, Mark(lag) PROVE Goal
  BY <1>11, <1>a DEF Mark, cache
<1>12. ASSUME NEW r \in Requests, Ask(r) PROVE Goal
  BY <1>12, <1>a DEF Ask, cache
<1>13. ASSUME NEW p \in Builders, Lock(p) PROVE Goal
  BY <1>13, <1>a DEF Lock, cache
<1>14. ASSUME LockTaken PROVE Goal
  BY <1>14, <1>a DEF LockTaken, cache
<1>15. ASSUME LockFails PROVE Goal
  BY <1>15, <1>a DEF LockFails, cache
<1>16. ASSUME NEW p \in Builders, Read(p) PROVE Goal
  BY <1>16, <1>a DEF Read, cache
<1>17. ASSUME NEW p \in Builders, Number(p) PROVE Goal
  BY <1>17, <1>a DEF Number, cache
<1>18. ASSUME NEW p \in Builders, Write(p) PROVE Goal
  BY <1>18, <1>a DEF Write, cache
<1>19. ASSUME NEW p \in Builders, Activate(p) PROVE Goal
  <2>1. builder[p].got \in Nat /\ active \in Nat
    BY TypeParts DEF BuilderType, RestType
  <2> DEFINE next == IF InFlight(p) THEN builder[p].got ELSE active
             seen == IF builder[p].got > active THEN builder[p].got ELSE active
  <2>2. active' = next /\ excused' = (excused \ (1..next)) \cup ((next + 1)..seen)
    BY <1>19 DEF Activate
  <2>3. next \in Nat /\ seen \in Nat /\ active <= seen
    BY <2>1
  <2> HIDE DEF next, seen
  <2> QED
    BY <2>1, <2>2, <2>3 DEF Accounted, StillAccounted
<1>20. ASSUME NEW p \in Builders, BuildFails(p) PROVE Goal
  BY <1>20, <1>a DEF BuildFails, cache
<1>21. ASSUME NEW p \in Builders, Unlock(p) PROVE Goal
  BY <1>21, <1>a DEF Unlock, cache
<1>22. ASSUME OrphanLapses PROVE Goal
  BY <1>22, <1>a DEF OrphanLapses, cache
<1>23. ASSUME LockLapses PROVE Goal
  BY <1>23, <1>a DEF LockLapses, cache
<1>24. ASSUME Crash PROVE Goal
  BY <1>24, <1>a DEF Crash, cache
<1> QED
  BY <1>1, <1>2, <1>3, <1>4, <1>5, <1>6, <1>7, <1>8, <1>9, <1>10, <1>11,
     <1>12, <1>13, <1>14, <1>15, <1>16, <1>17, <1>18, <1>19, <1>20, <1>21,
     <1>22, <1>23, <1>24 DEF Next, WriterStep, PollStep, BuilderStep


\* The changes a reading has seen are accounted for once it is activated.
LEMMA ReadingAccounts ==
  ASSUME TypeOK, NEW p \in Builders, Activate(p)
  PROVE  \A c \in Nat : c <= builder[p].got => StillAccounted(c)
<1>1. builder[p].got \in Nat /\ active \in Nat
  BY TypeParts DEF BuilderType, RestType
<1> DEFINE next == IF InFlight(p) THEN builder[p].got ELSE active
           seen == IF builder[p].got > active THEN builder[p].got ELSE active
<1>2. active' = next /\ excused' = (excused \ (1..next)) \cup ((next + 1)..seen)
  BY DEF Activate
<1>3. next \in Nat /\ seen \in Nat /\ builder[p].got <= seen
  BY <1>1
<1> HIDE DEF next, seen
<1> QED
  BY <1>1, <1>2, <1>3 DEF StillAccounted

\* Rows are appended, and afterwards only their status changes.
RowsKept ==
    /\ Len(outbox') >= Len(outbox)
    /\ \A i \in 1..Len(outbox) : outbox'[i].change = outbox[i].change

LEMMA RowsStay ==
  ASSUME TypeOK, Telltale, Next
  PROVE  RowsKept
<1> USE TypeParts, Sizes
<1>a. ASSUME outbox' = outbox PROVE RowsKept
  BY <1>a DEF RowsKept
<1>b. DOMAIN outbox = 1..Len(outbox)
  BY LenProperties DEF OutboxType
<1>1. ASSUME NEW w \in Writers, NEW kind \in Kinds, Save(w, kind) PROVE RowsKept
  BY <1>1, <1>a DEF Save
<1>2. ASSUME NEW w \in Writers, Uncache(w) PROVE RowsKept
  BY <1>2, <1>a DEF Uncache
<1>3. ASSUME NEW w \in Writers, Insert(w) PROVE RowsKept
  <2>1. [account |-> TargetOf[w], change |-> writer[w].change,
         named |-> writer[w].kind = "delete", st |-> "open"] \in Events(Now)
    <3>1. writer[w].change \in 1..Now /\ TargetOf[w] \in Accounts
      <4>1. writer[w].change \in 0..Now
        BY DEF WriterType
      <4>2. writer[w].change # 0
        BY <1>3 DEF Insert, Telltale, Telling
      <4>3. TargetOf[w] \in Accounts
        BY SchedulerSnapshotAssumption
      <4> QED
        BY <4>1, <4>2, <4>3
    <3> QED
      BY <3>1 DEF Events
  <2> QED
    BY <1>3, <2>1, AppendProperties DEF Insert, OutboxType, RowsKept
<1>4. ASSUME NEW w \in Writers, NotInserted(w) PROVE RowsKept
  BY <1>4, <1>a DEF NotInserted
<1>5. ASSUME NEW w \in Writers, Commit(w) PROVE RowsKept
  <2>1. \A i \in DOMAIN outbox : outbox'[i] = outbox[i] \/ outbox'[i] = [outbox[i] EXCEPT !.st = "committed"]
    BY <1>5 DEF Commit
  <2>2. outbox' = [i \in DOMAIN outbox |-> outbox'[i]]
    BY <1>5 DEF Commit
  <2>3. \A i \in DOMAIN outbox : outbox'[i] \in Events(Now) /\ outbox'[i].change = outbox[i].change
    <3> SUFFICES ASSUME NEW i \in 1..Len(outbox)
                 PROVE  outbox'[i] \in Events(Now) /\ outbox'[i].change = outbox[i].change
      BY <1>b
    <3> QED
      BY <1>b, <2>1, RowType DEF Events
  <2>4. Len(outbox') = Len(outbox)
    BY <2>2, <2>3, RowsRewritten DEF OutboxType
  <2> QED
    BY <1>b, <2>3, <2>4 DEF RowsKept
<1>6. ASSUME NEW w \in Writers, Sync(w) PROVE RowsKept
  BY <1>6, <1>a DEF Sync
<1>7. ASSUME NEW w \in Writers, SyncPut(w) PROVE RowsKept
  BY <1>7, <1>a DEF SyncPut
<1>8. ASSUME PollReads PROVE RowsKept
  BY <1>8, <1>a DEF PollReads
<1>9. ASSUME EventFetch PROVE RowsKept
  BY <1>9, <1>a DEF EventFetch
<1>10. ASSUME EventPut PROVE RowsKept
  BY <1>10, <1>a DEF EventPut
<1>11. ASSUME NEW lag \in BOOLEAN, Mark(lag) PROVE RowsKept
  BY <1>11, <1>a DEF Mark
<1>12. ASSUME NEW r \in Requests, Ask(r) PROVE RowsKept
  BY <1>12, <1>a DEF Ask
<1>13. ASSUME NEW p \in Builders, Lock(p) PROVE RowsKept
  BY <1>13, <1>a DEF Lock
<1>14. ASSUME LockTaken PROVE RowsKept
  BY <1>14, <1>a DEF LockTaken
<1>15. ASSUME LockFails PROVE RowsKept
  BY <1>15, <1>a DEF LockFails
<1>16. ASSUME NEW p \in Builders, Read(p) PROVE RowsKept
  BY <1>16, <1>a DEF Read
<1>17. ASSUME NEW p \in Builders, Number(p) PROVE RowsKept
  BY <1>17, <1>a DEF Number
<1>18. ASSUME NEW p \in Builders, Write(p) PROVE RowsKept
  BY <1>18, <1>a DEF Write
<1>19. ASSUME NEW p \in Builders, Activate(p) PROVE RowsKept
  BY <1>19, <1>a DEF Activate
<1>20. ASSUME NEW p \in Builders, BuildFails(p) PROVE RowsKept
  BY <1>20, <1>a DEF BuildFails
<1>21. ASSUME NEW p \in Builders, Unlock(p) PROVE RowsKept
  BY <1>21, <1>a DEF Unlock
<1>22. ASSUME OrphanLapses PROVE RowsKept
  BY <1>22, <1>a DEF OrphanLapses
<1>23. ASSUME LockLapses PROVE RowsKept
  BY <1>23, <1>a DEF LockLapses
<1>24. ASSUME Crash PROVE RowsKept
  <2>1. \A i \in DOMAIN outbox : outbox'[i] = outbox[i] \/ outbox'[i] = [outbox[i] EXCEPT !.st = "aborted"]
    BY <1>24 DEF Crash
  <2>2. outbox' = [i \in DOMAIN outbox |-> outbox'[i]]
    BY <1>24 DEF Crash
  <2>3. \A i \in DOMAIN outbox : outbox'[i] \in Events(Now) /\ outbox'[i].change = outbox[i].change
    <3> SUFFICES ASSUME NEW i \in 1..Len(outbox)
                 PROVE  outbox'[i] \in Events(Now) /\ outbox'[i].change = outbox[i].change
      BY <1>b
    <3> QED
      BY <1>b, <2>1, RowType DEF Events
  <2>4. Len(outbox') = Len(outbox)
    BY <2>2, <2>3, RowsRewritten DEF OutboxType
  <2> QED
    BY <1>b, <2>3, <2>4 DEF RowsKept
<1> QED
  BY <1>1, <1>2, <1>3, <1>4, <1>5, <1>6, <1>7, <1>8, <1>9, <1>10, <1>11,
     <1>12, <1>13, <1>14, <1>15, <1>16, <1>17, <1>18, <1>19, <1>20, <1>21,
     <1>22, <1>23, <1>24 DEF Next, WriterStep, PollStep, BuilderStep


-------------------------------------------------------------------------------
(* Who still tells of a change.                                            *)

\* An open row belongs to a writer that is about to commit it, and the other
\* way round.
Told ==
    /\ \A w \in Writers : writer[w].at = "commit" =>
         \E i \in 1..Len(outbox) : outbox[i].change = writer[w].change
    /\ \A i \in 1..Len(outbox) : outbox[i].st = "open" =>
         \E w \in Writers : writer[w].at = "commit" /\ writer[w].change = outbox[i].change

\* The changes of rows that the watermark has passed, or that will never be
\* visible, are accounted for.
Passed ==
    \A i \in 1..Len(outbox) :
      i <= watermark \/ outbox[i].st = "aborted" => Accounted(outbox[i].change)

\* Every change is accounted for, about to be told of, or told of in a row that
\* the watermark has not passed.
ToBeTold(c) == \E w \in Writers : writer[w].at \in Telling /\ writer[w].change = c

Ahead(c) == \E i \in 1..Len(outbox) : outbox[i].change = c /\ i > watermark

Known == \A c \in 2..Now : Accounted(c) \/ ToBeTold(c) \/ Ahead(c)


LEMMA TelltaleStep ==
  ASSUME TypeOK, Telltale, Next
  PROVE  Telltale'
<1> USE TypeParts DEF WriterType, WriterAts, Telltale, Telling
<1>1. ASSUME NEW w \in Writers, NEW kind \in Kinds, Save(w, kind) PROVE Telltale'
  BY <1>1, Sizes DEF Save
<1>2. ASSUME NEW w \in Writers, Uncache(w) PROVE Telltale'
  BY <1>2 DEF Uncache
<1>3. ASSUME NEW w \in Writers, Insert(w) PROVE Telltale'
  BY <1>3 DEF Insert
<1>4. ASSUME NEW w \in Writers, NotInserted(w) PROVE Telltale'
  BY <1>4, AfterInsertType DEF NotInserted
<1>5. ASSUME NEW w \in Writers, Commit(w) PROVE Telltale'
  BY <1>5, AfterInsertType DEF Commit
<1>6. ASSUME NEW w \in Writers, Sync(w) PROVE Telltale'
  BY <1>6 DEF Sync, Done
<1>7. ASSUME NEW w \in Writers, SyncPut(w) PROVE Telltale'
  BY <1>7 DEF SyncPut, Done
<1>8. ASSUME PollReads PROVE Telltale'
  BY <1>8 DEF PollReads
<1>9. ASSUME EventFetch PROVE Telltale'
  BY <1>9 DEF EventFetch
<1>10. ASSUME EventPut PROVE Telltale'
  BY <1>10 DEF EventPut
<1>11. ASSUME NEW lag \in BOOLEAN, Mark(lag) PROVE Telltale'
  BY <1>11 DEF Mark
<1>12. ASSUME NEW r \in Requests, Ask(r) PROVE Telltale'
  BY <1>12 DEF Ask
<1>13. ASSUME NEW p \in Builders, Lock(p) PROVE Telltale'
  BY <1>13 DEF Lock
<1>14. ASSUME LockTaken PROVE Telltale'
  BY <1>14 DEF LockTaken
<1>15. ASSUME LockFails PROVE Telltale'
  BY <1>15 DEF LockFails
<1>16. ASSUME NEW p \in Builders, Read(p) PROVE Telltale'
  BY <1>16 DEF Read
<1>17. ASSUME NEW p \in Builders, Number(p) PROVE Telltale'
  BY <1>17 DEF Number
<1>18. ASSUME NEW p \in Builders, Write(p) PROVE Telltale'
  BY <1>18 DEF Write
<1>19. ASSUME NEW p \in Builders, Activate(p) PROVE Telltale'
  BY <1>19 DEF Activate
<1>20. ASSUME NEW p \in Builders, BuildFails(p) PROVE Telltale'
  BY <1>20 DEF BuildFails
<1>21. ASSUME NEW p \in Builders, Unlock(p) PROVE Telltale'
  BY <1>21 DEF Unlock
<1>22. ASSUME OrphanLapses PROVE Telltale'
  BY <1>22 DEF OrphanLapses
<1>23. ASSUME LockLapses PROVE Telltale'
  BY <1>23 DEF LockLapses
<1>24. ASSUME Crash PROVE Telltale'
  BY <1>24 DEF Crash, Done
<1> QED
  BY <1>1, <1>2, <1>3, <1>4, <1>5, <1>6, <1>7, <1>8, <1>9, <1>10, <1>11,
     <1>12, <1>13, <1>14, <1>15, <1>16, <1>17, <1>18, <1>19, <1>20, <1>21,
     <1>22, <1>23, <1>24 DEF Next, WriterStep, PollStep, BuilderStep


LEMMA ToldStep ==
  ASSUME TypeOK, Telltale, Told, Next
  PROVE  Told'
<1> USE TypeParts, Sizes DEF WriterType, WriterAts
<1>a. ASSUME outbox' = outbox,
             \A w \in Writers : writer'[w].at = "commit" \/ writer[w].at = "commit" => writer'[w] = writer[w]
      PROVE  Told'
  BY <1>a DEF Told
<1>b. DOMAIN outbox = 1..Len(outbox)
  BY LenProperties DEF OutboxType
<1>1. ASSUME NEW w \in Writers, NEW kind \in Kinds, Save(w, kind) PROVE Told'
  BY <1>1, <1>a DEF Save
<1>2. ASSUME NEW w \in Writers, Uncache(w) PROVE Told'
  BY <1>2, <1>a DEF Uncache
<1>3. ASSUME NEW w \in Writers, Insert(w) PROVE Told'
  <2> DEFINE n == Len(outbox) + 1
  <2>1. /\ Len(outbox') = n
        /\ \A i \in 1..Len(outbox) : outbox'[i] = outbox[i]
        /\ outbox'[n].change = writer[w].change
    <3>1. writer[w].change \in 1..Now
      <4>1. writer[w].change \in 0..Now /\ writer[w].change # 0
        BY <1>3 DEF Insert, Telltale, Telling
      <4> QED
        BY <4>1
    <3>2. [account |-> TargetOf[w], change |-> writer[w].change,
           named |-> writer[w].kind = "delete", st |-> "open"] \in Events(Now)
      BY <3>1, SchedulerSnapshotAssumption DEF Events
    <3> QED
      BY <1>3, <3>2, AppendProperties DEF Insert, OutboxType
  <2>2. writer' = [writer EXCEPT ![w].at = "commit"] /\ writer[w].at = "insert"
    BY <1>3 DEF Insert
  <2>3. \A v \in Writers : /\ writer'[v].change = writer[v].change
                           /\ v # w => writer'[v] = writer[v]
    BY <2>2
  <2>4. writer'[w].at = "commit"
    BY <2>2
  <2>5. ASSUME NEW v \in Writers, writer'[v].at = "commit"
        PROVE  \E i \in 1..Len(outbox') : outbox'[i].change = writer'[v].change
    <3>1. CASE v = w
      <4>1. n \in 1..Len(outbox')
        BY <2>1
      <4>2. outbox'[n].change = writer'[v].change
        BY <2>1, <2>3, <3>1
      <4> QED
        BY <4>1, <4>2
    <3>2. CASE v # w
      <4>0. writer'[v] = writer[v]
        BY <2>3, <3>2
      <4>1. PICK i \in 1..Len(outbox) : outbox[i].change = writer[v].change
        BY <2>5, <4>0 DEF Told
      <4>2. i \in 1..Len(outbox')
        BY <2>1
      <4>3. outbox'[i] = outbox[i]
        BY <2>1
      <4> QED
        BY <4>0, <4>1, <4>2, <4>3
    <3> QED
      BY <3>1, <3>2
  <2>6. ASSUME NEW i \in 1..Len(outbox'), outbox'[i].st = "open"
        PROVE  \E v \in Writers : writer'[v].at = "commit" /\ writer'[v].change = outbox'[i].change
    <3>1. CASE i = n
      <4>1. writer'[w].change = outbox'[i].change
        BY <2>1, <2>3, <3>1
      <4> QED
        BY <2>4, <4>1
    <3>2. CASE i # n
      <4>1. i \in 1..Len(outbox)
        BY <2>1, <3>2
      <4>2. PICK v \in Writers : writer[v].at = "commit" /\ writer[v].change = outbox[i].change
        BY <2>1, <2>6, <4>1 DEF Told
      <4> QED
        BY <2>1, <2>2, <2>3, <4>1, <4>2
    <3> QED
      BY <3>1, <3>2
  <2> QED
    BY <2>5, <2>6 DEF Told
<1>4. ASSUME NEW w \in Writers, NotInserted(w) PROVE Told'
  BY <1>4, <1>a, AfterInsertType DEF NotInserted, Telling
<1>5. ASSUME NEW w \in Writers, Commit(w) PROVE Told'
  <2>1. writer' = [writer EXCEPT ![w] = AfterInsert(w)] /\ writer[w].at = "commit"
    BY <1>5 DEF Commit
  <2>2. \A i \in DOMAIN outbox :
          outbox'[i] = IF outbox[i].change = writer[w].change
                       THEN [outbox[i] EXCEPT !.st = "committed"] ELSE outbox[i]
    BY <1>5 DEF Commit
  <2>3. outbox' = [i \in DOMAIN outbox |-> outbox'[i]]
    BY <1>5 DEF Commit
  <2>4. \A i \in 1..Len(outbox) :
          /\ outbox'[i] \in Events(Now) /\ outbox'[i].change = outbox[i].change
          /\ outbox'[i].st = "open" => outbox[i].st = "open" /\ outbox[i].change # writer[w].change
    <3> SUFFICES ASSUME NEW i \in 1..Len(outbox)
                 PROVE  /\ outbox'[i] \in Events(Now) /\ outbox'[i].change = outbox[i].change
                        /\ outbox'[i].st = "open" => outbox[i].st = "open" /\ outbox[i].change # writer[w].change
      OBVIOUS
    <3>1. outbox[i] \in Events(Now)
      BY RowType
    <3>2. CASE outbox[i].change = writer[w].change
      BY <1>b, <2>2, <3>1, <3>2 DEF Events
    <3>3. CASE outbox[i].change # writer[w].change
      BY <1>b, <2>2, <3>1, <3>3
    <3> QED
      BY <3>2, <3>3
  <2>5. Len(outbox') = Len(outbox)
    BY <1>b, <2>3, <2>4, RowsRewritten DEF OutboxType
  <2>6. \A v \in Writers : v # w => writer'[v] = writer[v]
    BY <2>1
  <2>7. writer'[w].at # "commit"
    BY <2>1, AfterInsertType DEF Telling
  <2>8. ASSUME NEW v \in Writers, writer'[v].at = "commit"
        PROVE  \E i \in 1..Len(outbox') : outbox'[i].change = writer'[v].change
    BY <2>4, <2>5, <2>6, <2>7, <2>8 DEF Told
  <2>9. ASSUME NEW i \in 1..Len(outbox'), outbox'[i].st = "open"
        PROVE  \E v \in Writers : writer'[v].at = "commit" /\ writer'[v].change = outbox'[i].change
    <3>1. i \in 1..Len(outbox) /\ outbox[i].st = "open" /\ outbox[i].change # writer[w].change
      BY <2>4, <2>5, <2>9
    <3>2. PICK v \in Writers : writer[v].at = "commit" /\ writer[v].change = outbox[i].change
      BY <3>1 DEF Told
    <3> QED
      BY <2>4, <2>6, <3>1, <3>2
  <2> QED
    BY <2>8, <2>9 DEF Told
<1>6. ASSUME NEW w \in Writers, Sync(w) PROVE Told'
  BY <1>6, <1>a DEF Sync, Done
<1>7. ASSUME NEW w \in Writers, SyncPut(w) PROVE Told'
  BY <1>7, <1>a DEF SyncPut, Done
<1>8. ASSUME PollReads PROVE Told'
  BY <1>8, <1>a DEF PollReads
<1>9. ASSUME EventFetch PROVE Told'
  BY <1>9, <1>a DEF EventFetch
<1>10. ASSUME EventPut PROVE Told'
  BY <1>10, <1>a DEF EventPut
<1>11. ASSUME NEW lag \in BOOLEAN, Mark(lag) PROVE Told'
  BY <1>11, <1>a DEF Mark
<1>12. ASSUME NEW r \in Requests, Ask(r) PROVE Told'
  BY <1>12, <1>a DEF Ask
<1>13. ASSUME NEW p \in Builders, Lock(p) PROVE Told'
  BY <1>13, <1>a DEF Lock
<1>14. ASSUME LockTaken PROVE Told'
  BY <1>14, <1>a DEF LockTaken
<1>15. ASSUME LockFails PROVE Told'
  BY <1>15, <1>a DEF LockFails
<1>16. ASSUME NEW p \in Builders, Read(p) PROVE Told'
  BY <1>16, <1>a DEF Read
<1>17. ASSUME NEW p \in Builders, Number(p) PROVE Told'
  BY <1>17, <1>a DEF Number
<1>18. ASSUME NEW p \in Builders, Write(p) PROVE Told'
  BY <1>18, <1>a DEF Write
<1>19. ASSUME NEW p \in Builders, Activate(p) PROVE Told'
  BY <1>19, <1>a DEF Activate
<1>20. ASSUME NEW p \in Builders, BuildFails(p) PROVE Told'
  BY <1>20, <1>a DEF BuildFails
<1>21. ASSUME NEW p \in Builders, Unlock(p) PROVE Told'
  BY <1>21, <1>a DEF Unlock
<1>22. ASSUME OrphanLapses PROVE Told'
  BY <1>22, <1>a DEF OrphanLapses
<1>23. ASSUME LockLapses PROVE Told'
  BY <1>23, <1>a DEF LockLapses
<1>24. ASSUME Crash PROVE Told'
  <2>1. \A i \in DOMAIN outbox :
          outbox'[i] = IF outbox[i].st = "open" THEN [outbox[i] EXCEPT !.st = "aborted"] ELSE outbox[i]
    BY <1>24 DEF Crash
  <2>2. outbox' = [i \in DOMAIN outbox |-> outbox'[i]]
    BY <1>24 DEF Crash
  <2>3. \A i \in 1..Len(outbox) : outbox'[i] \in Events(Now) /\ outbox'[i].st # "open"
    <3> SUFFICES ASSUME NEW i \in 1..Len(outbox)
                 PROVE  outbox'[i] \in Events(Now) /\ outbox'[i].st # "open"
      OBVIOUS
    <3>1. outbox[i] \in Events(Now)
      BY RowType
    <3>2. CASE outbox[i].st = "open"
      BY <1>b, <2>1, <3>1, <3>2 DEF Events
    <3>3. CASE outbox[i].st # "open"
      BY <1>b, <2>1, <3>1, <3>3
    <3> QED
      BY <3>2, <3>3
  <2>4. Len(outbox') = Len(outbox)
    BY <1>b, <2>2, <2>3, RowsRewritten DEF OutboxType
  <2>5. \A w \in Writers : writer'[w].at # "commit"
    BY <1>24 DEF Crash, Done
  <2> QED
    BY <2>3, <2>4, <2>5 DEF Told
<1> QED
  BY <1>1, <1>2, <1>3, <1>4, <1>5, <1>6, <1>7, <1>8, <1>9, <1>10, <1>11,
     <1>12, <1>13, <1>14, <1>15, <1>16, <1>17, <1>18, <1>19, <1>20, <1>21,
     <1>22, <1>23, <1>24 DEF Next, WriterStep, PollStep, BuilderStep


-------------------------------------------------------------------------------
(* The outbox worker.                                                      *)

\* Of the rows up to the last that a poll has read, each is still to handle,
\* was not visible, or is accounted for.
Covered ==
    poll.at \in {"fetch", "put", "build", "mark"} =>
      \A j \in poll.batch : \A i \in 1..j :
        i > watermark => i \in poll.batch \/ i \in poll.missed \/ Accounted(outbox[i].change)

\* Once the poll has been at the bucket, or through with its rows, all it has
\* read is accounted for.
Handled ==
    poll.at = "mark" \/ (poll.seen /\ poll.at \in {"fetch", "put"}) =>
      \A i \in poll.batch : Accounted(outbox[i].change)

\* The rebuild it waits for has read after the poll, and once it succeeds it
\* accounts for all the poll has read.
Built ==
    poll.at = "build" =>
      /\ builder["poller"].at \in {"number", "write", "activate"} =>
           \A i \in poll.batch : outbox[i].change <= builder["poller"].got
      /\ builder["poller"].at = "unlock" /\ builder["poller"].ok =>
           \A i \in poll.batch : Accounted(outbox[i].change)

PollInv == Batched /\ Covered /\ Handled /\ Built

\* A step that leaves the worker where it is.
LEMMA PollRests ==
  ASSUME TypeOK, Telltale, PollInv, Next, UNCHANGED <<poll, watermark>>,
         builder'["poller"] = builder["poller"]
  PROVE  PollInv'
<1>1. \A i \in 1..Len(outbox) : outbox'[i].change = outbox[i].change
  BY RowsStay DEF RowsKept
<1>2. \A i \in 1..Len(outbox) : Accounted(outbox[i].change) => StillAccounted(outbox'[i].change)
  <2> SUFFICES ASSUME NEW i \in 1..Len(outbox), Accounted(outbox[i].change)
               PROVE  StillAccounted(outbox'[i].change)
    OBVIOUS
  <2>1. outbox[i].change \in Nat
    BY RowType, Sizes
  <2> QED
    BY <1>1, <2>1, AccountsKept
<1>3. poll.batch \subseteq 1..Len(outbox) /\ \A j \in poll.batch : 1..j \subseteq 1..Len(outbox)
  BY TypeParts, Sizes DEF PollType
<1>4. Batched'
  BY DEF PollInv, Batched
<1>5. Covered'
  BY <1>2, <1>3 DEF PollInv, Covered, Accounted, StillAccounted
<1>6. Handled'
  BY <1>2, <1>3 DEF PollInv, Handled, Accounted, StillAccounted
<1>7. Built'
  BY <1>1, <1>2, <1>3 DEF PollInv, Built, Accounted, StillAccounted
<1> QED
  BY <1>4, <1>5, <1>6, <1>7 DEF PollInv

\* A step after which the worker is at rest.
LEMMA PollEnds ==
  ASSUME poll'.at \in {"idle", "lag"}
  PROVE  PollInv'
BY DEF PollInv, Batched, Covered, Handled, Built

\* A step that moves the worker on with the events it has.
LEMMA PollMoves ==
  ASSUME TypeOK, Telltale, PollInv, Next, UNCHANGED <<outbox, watermark>>,
         poll.at \in {"fetch", "put", "build"}, poll'.at \in {"put", "build"},
         poll'.batch = poll.batch, poll'.missed = poll.missed,
         poll'.at = "put" => poll'.seen = poll.seen /\ poll.at = "fetch",
         poll'.at = "build" =>
           /\ builder'["poller"].at \in {"number", "write", "activate"} =>
                \A i \in poll.batch : outbox[i].change <= builder'["poller"].got
           /\ builder'["poller"].at = "unlock" /\ builder'["poller"].ok =>
                \A i \in poll.batch : StillAccounted(outbox[i].change)
  PROVE  PollInv'
<1>1. \A i \in 1..Len(outbox) : Accounted(outbox[i].change) => StillAccounted(outbox[i].change)
  <2> SUFFICES ASSUME NEW i \in 1..Len(outbox), Accounted(outbox[i].change)
               PROVE  StillAccounted(outbox[i].change)
    OBVIOUS
  <2>1. outbox[i].change \in Nat
    BY RowType, Sizes
  <2> QED
    BY <2>1, AccountsKept
<1>2. poll.batch \subseteq 1..Len(outbox) /\ \A j \in poll.batch : 1..j \subseteq 1..Len(outbox)
  BY TypeParts, Sizes DEF PollType
<1>3. Batched'
  BY DEF PollInv, Batched
<1>4. Covered'
  BY <1>1, <1>2 DEF PollInv, Covered, Accounted, StillAccounted
<1>5. Handled'
  BY <1>1, <1>2 DEF PollInv, Handled, Accounted, StillAccounted
<1>6. Built'
  BY DEF Built, Accounted, StillAccounted
<1> QED
  BY <1>3, <1>4, <1>5, <1>6 DEF PollInv

\* The worker is through with an event.
LEMMA PollHandles ==
  ASSUME TypeOK, Telltale, PollInv, Next, UNCHANGED <<outbox, watermark>>,
         poll.at \in {"put", "build"}, EventHandled,
         \A i \in poll.batch : i = First => StillAccounted(outbox[i].change),
         poll.seen => \A i \in poll.batch : StillAccounted(outbox[i].change)
  PROVE  PollInv'
<1>1. \A i \in 1..Len(outbox) : Accounted(outbox[i].change) => StillAccounted(outbox[i].change)
  <2> SUFFICES ASSUME NEW i \in 1..Len(outbox), Accounted(outbox[i].change)
               PROVE  StillAccounted(outbox[i].change)
    OBVIOUS
  <2>1. outbox[i].change \in Nat
    BY RowType, Sizes
  <2> QED
    BY <2>1, AccountsKept
<1>2. poll.batch \subseteq 1..Len(outbox) /\ \A j \in poll.batch : 1..j \subseteq 1..Len(outbox)
  BY TypeParts, Sizes DEF PollType
<1>3. First \in poll.batch /\ \A j \in poll.batch : First <= j
  BY FirstIsLeast DEF PollInv, Batched
<1>4. /\ poll'.batch \subseteq poll.batch /\ poll'.missed = poll.missed /\ poll'.seen = poll.seen
      /\ \A i \in poll.batch : i \in poll'.batch \/ i = First
      /\ (poll'.at = "mark" /\ poll'.batch = {First}) \/ (poll'.at = "fetch" /\ poll.batch # {First}
                                                           /\ poll'.batch = poll.batch \ {First})
  BY <1>3 DEF EventHandled, Polling
<1>5. Batched'
  BY <1>3, <1>4 DEF Batched
<1>6. Covered'
  <2> SUFFICES ASSUME NEW j \in poll'.batch, NEW i \in 1..j, i > watermark
               PROVE  i \in poll'.batch \/ i \in poll'.missed \/ StillAccounted(outbox[i].change)
    BY DEF Covered, Accounted, StillAccounted
  <2>1. i \in poll.batch \/ i \in poll.missed \/ Accounted(outbox[i].change)
    BY <1>4 DEF PollInv, Covered
  <2>2. i \in 1..Len(outbox)
    BY <1>2, <1>4
  <2> QED
    BY <1>1, <1>4, <2>1, <2>2
<1>7. Handled'
  BY <1>3, <1>4 DEF Handled, Accounted, StillAccounted
<1>8. Built'
  BY <1>4 DEF Built
<1> QED
  BY <1>5, <1>6, <1>7, <1>8 DEF PollInv


LEMMA PollInvStep ==
  ASSUME TypeOK, Telltale, Passed, PollInv, Next
  PROVE  PollInv'
<1> USE TypeParts, SchedulerSnapshotAssumption DEF Builders
<1>a. \A i \in 1..Len(outbox) : Accounted(outbox[i].change) => StillAccounted(outbox[i].change)
  <2> SUFFICES ASSUME NEW i \in 1..Len(outbox), Accounted(outbox[i].change)
               PROVE  StillAccounted(outbox[i].change)
    OBVIOUS
  <2>1. outbox[i].change \in Nat
    BY RowType, Sizes
  <2> QED
    BY <2>1, AccountsKept
<1>b. poll.batch \subseteq 1..Len(outbox)
  BY DEF PollType
<1>1. ASSUME NEW w \in Writers, NEW kind \in Kinds, Save(w, kind) PROVE PollInv'
  BY <1>1, PollRests DEF Save, cache
<1>2. ASSUME NEW w \in Writers, Uncache(w) PROVE PollInv'
  BY <1>2, PollRests DEF Uncache, cache
<1>3. ASSUME NEW w \in Writers, Insert(w) PROVE PollInv'
  BY <1>3, PollRests DEF Insert, cache
<1>4. ASSUME NEW w \in Writers, NotInserted(w) PROVE PollInv'
  BY <1>4, PollRests DEF NotInserted, cache
<1>5. ASSUME NEW w \in Writers, Commit(w) PROVE PollInv'
  BY <1>5, PollRests DEF Commit, cache
<1>6. ASSUME NEW w \in Writers, Sync(w) PROVE PollInv'
  BY <1>6, PollRests DEF Sync, cache
<1>7. ASSUME NEW w \in Writers, SyncPut(w) PROVE PollInv'
  BY <1>7, PollRests DEF SyncPut, cache
<1>8. ASSUME PollReads PROVE PollInv'
  <2>1. /\ poll'.at = "fetch" /\ poll'.batch = Pending /\ poll'.missed = Unseen
        /\ poll'.seen = FALSE /\ Pending # {} /\ outbox' = outbox /\ watermark' = watermark
    BY <1>8 DEF PollReads
  <2>2. \A j \in Pending : j \in 1..Len(outbox) /\ outbox[j].st = "committed"
    BY LenProperties DEF Pending, OutboxType
  <2>3. Covered'
    <3> SUFFICES ASSUME NEW j \in Pending, NEW i \in 1..j, i > watermark
                 PROVE  i \in Pending \/ i \in Unseen \/ StillAccounted(outbox[i].change)
      BY <2>1 DEF Covered, Accounted, StillAccounted
    <3>1. i \in 1..Len(outbox) /\ i \in DOMAIN outbox
      BY <2>2, Sizes, LenProperties DEF OutboxType
    <3>2. outbox[i].st \in {"open", "committed", "aborted"}
      BY <3>1, RowType DEF Events
    <3>3. CASE outbox[i].st = "open"
      <4>1. i < j
        BY <2>2, <3>1, <3>3, Sizes
      <4> QED
        BY <3>1, <3>3, <4>1 DEF Unseen
    <3>4. CASE outbox[i].st = "committed"
      BY <3>1, <3>4 DEF Pending
    <3>5. CASE outbox[i].st = "aborted"
      BY <1>a, <3>1, <3>5 DEF Passed
    <3> QED
      BY <3>2, <3>3, <3>4, <3>5
  <2>4. Batched' /\ Handled' /\ Built'
    BY <2>1 DEF Batched, Handled, Built
  <2> QED
    BY <2>3, <2>4 DEF PollInv
<1>9. ASSUME EventFetch PROVE PollInv'
  <2>1. CASE poll' = Polling("put", poll.batch, poll.seen, Now)
    <3>1. /\ poll'.at = "put" /\ poll'.batch = poll.batch /\ poll'.missed = poll.missed
          /\ poll'.seen = poll.seen
      BY <2>1 DEF Polling
    <3> QED
      BY <1>9, <3>1, PollMoves DEF EventFetch
  <2>2. CASE poll' = Resting
    BY <2>2, PollEnds DEF Resting
  <2> QED
    BY <1>9, <2>1, <2>2 DEF EventFetch, PollGivesUp
<1>10. ASSUME EventPut PROVE PollInv'
  <2>1. CASE /\ poll' = Polling("build", poll.batch, TRUE, 0)
             /\ builder' = [builder EXCEPT !["poller"].at = "lock"]
    <3>1. /\ poll'.at = "build" /\ poll'.batch = poll.batch /\ poll'.missed = poll.missed
          /\ builder'["poller"].at = "lock"
      BY <2>1 DEF Polling, BuilderType
    <3> QED
      BY <1>10, <3>1, PollMoves DEF EventPut
  <2>2. CASE EventHandled
    <3>1. Event.change \in excused' \/ poll.seen \/ poll' = Polling("build", poll.batch, TRUE, 0)
            \/ PollGivesUp
      BY <1>10 DEF EventPut
    <3>2. poll' # Polling("build", poll.batch, TRUE, 0) /\ ~PollGivesUp
      BY <2>2 DEF EventHandled, Polling, PollGivesUp, Resting
    <3>3. poll.seen => \A i \in poll.batch : StillAccounted(outbox[i].change)
      BY <1>10, <1>a, <1>b DEF EventPut, PollInv, Handled
    <3>4. \A i \in poll.batch : i = First => StillAccounted(outbox[i].change)
      BY <3>1, <3>2, <3>3 DEF Event, StillAccounted
    <3> QED
      BY <1>10, <2>2, <3>3, <3>4, PollHandles DEF EventPut
  <2>3. CASE PollGivesUp
    BY <2>3, PollEnds DEF PollGivesUp, Resting
  <2> QED
    BY <1>10, <2>1, <2>2, <2>3 DEF EventPut
<1>11. ASSUME NEW lag \in BOOLEAN, Mark(lag) PROVE PollInv'
  <2>1. poll'.at \in {"idle", "lag"}
    BY <1>11, Zenon DEF Mark, Resting
  <2> QED
    BY <2>1, PollEnds
<1>12. ASSUME NEW r \in Requests, Ask(r) PROVE PollInv'
  <2>1. UNCHANGED <<poll, watermark>> /\ builder'["poller"] = builder["poller"]
    BY <1>12 DEF Ask, BuilderType
  <2> QED
    BY <2>1, PollRests
<1>13. ASSUME NEW p \in Builders, Lock(p) PROVE PollInv'
  <2>1. CASE p # "poller"
    <3>1. builder'["poller"] = builder["poller"]
      BY <1>13, <2>1 DEF Lock, BuilderType
    <3> QED
      BY <1>13, <3>1, PollRests DEF Lock, bounds
  <2>2. CASE p = "poller" /\ poll.at = "lag"
    BY <1>13, <2>2, PollEnds DEF Lock
  <2>3. CASE p = "poller" /\ poll.at = "build"
    <3>1. CASE builder' = [builder EXCEPT ![p].at = "read"]
      <4>1. builder'["poller"].at = "read"
        BY <2>3, <3>1 DEF BuilderType
      <4> QED
        BY <1>13, <2>3, <4>1, PollMoves DEF Lock
    <3>2. CASE builder' = builder
      BY <1>13, <3>2, PollRests DEF Lock
    <3> QED
      BY <1>13, <3>1, <3>2 DEF Lock
  <2> QED
    BY <1>13, <2>1, <2>2, <2>3 DEF Lock, BuilderType, Comes
<1>14. ASSUME LockTaken PROVE PollInv'
  <2>1. poll.at = "lag" \/ poll.at = "build"
    BY <1>14 DEF LockTaken, BuilderType
  <2>2. \A i \in poll.batch : StillAccounted(outbox[i].change)
    BY <1>14 DEF LockTaken, StillAccounted
  <2>3. poll' = Resting \/ (poll.at = "build" /\ EventHandled)
    BY <1>14 DEF LockTaken, BuildEnds
  <2>4. CASE poll' = Resting
    BY <2>4, PollEnds DEF Resting
  <2>5. CASE poll.at = "build" /\ EventHandled
    BY <1>14, <2>2, <2>5, PollHandles DEF LockTaken
  <2> QED
    BY <2>3, <2>4, <2>5
<1>15. ASSUME LockFails PROVE PollInv'
  <2>1. poll' = Resting
    BY <1>15 DEF LockFails, BuildEnds, PollGivesUp
  <2> QED
    BY <2>1, PollEnds DEF Resting
<1>16. ASSUME NEW p \in Builders, Read(p) PROVE PollInv'
  <2>1. CASE p # "poller"
    <3>1. builder'["poller"] = builder["poller"]
      BY <1>16, <2>1 DEF Read, BuilderType
    <3> QED
      BY <1>16, <3>1, PollRests DEF Read, bounds
  <2>2. CASE p = "poller" /\ poll.at = "lag"
    BY <1>16, <2>2, PollEnds DEF Read
  <2>3. CASE p = "poller" /\ poll.at = "build"
    <3>1. /\ builder'["poller"].at = "number"
          /\ \A i \in poll.batch : outbox[i].change <= builder'["poller"].got
      BY <1>16, <2>3, <1>b, RowType, Sizes DEF Read, BuilderType
    <3> QED
      BY <1>16, <2>3, <3>1, PollMoves DEF Read
  <2> QED
    BY <1>16, <2>1, <2>2, <2>3 DEF Read, BuilderType
<1>17. ASSUME NEW p \in Builders, Number(p) PROVE PollInv'
  <2>1. CASE p # "poller"
    <3>1. builder'["poller"] = builder["poller"]
      BY <1>17, <2>1 DEF Number, BuilderType
    <3> QED
      BY <1>17, <3>1, PollRests DEF Number, bounds
  <2>2. CASE p = "poller" /\ poll.at = "lag"
    BY <1>17, <2>2, PollEnds DEF Number
  <2>3. CASE p = "poller" /\ poll.at = "build"
    <3>1. /\ builder'["poller"].at = "write"
          /\ \A i \in poll.batch : outbox[i].change <= builder'["poller"].got
      BY <1>17, <2>3 DEF Number, BuilderType, PollInv, Built
    <3> QED
      BY <1>17, <2>3, <3>1, PollMoves DEF Number
  <2> QED
    BY <1>17, <2>1, <2>2, <2>3 DEF Number, BuilderType
<1>18. ASSUME NEW p \in Builders, Write(p) PROVE PollInv'
  <2>1. CASE p # "poller"
    <3>1. builder'["poller"] = builder["poller"]
      BY <1>18, <2>1 DEF Write, BuilderType
    <3> QED
      BY <1>18, <3>1, PollRests DEF Write, bounds
  <2>2. CASE p = "poller" /\ poll.at = "lag"
    BY <1>18, <2>2, PollEnds DEF Write
  <2>3. CASE p = "poller" /\ poll.at = "build"
    <3>1. /\ builder'["poller"].at = "activate"
          /\ \A i \in poll.batch : outbox[i].change <= builder'["poller"].got
      BY <1>18, <2>3 DEF Write, BuilderType, PollInv, Built
    <3> QED
      BY <1>18, <2>3, <3>1, PollMoves DEF Write
  <2> QED
    BY <1>18, <2>1, <2>2, <2>3 DEF Write, BuilderType
<1>19. ASSUME NEW p \in Builders, Activate(p) PROVE PollInv'
  <2>1. CASE p # "poller"
    <3>1. builder'["poller"] = builder["poller"]
      BY <1>19, <2>1 DEF Activate, BuilderType, AfterSetSnapshot
    <3> QED
      BY <1>19, <3>1, PollRests DEF Activate, bounds
  <2>2. CASE p = "poller" /\ poll.at = "lag"
    BY <1>19, <2>2, PollEnds DEF Activate
  <2>3. CASE p = "poller" /\ poll.at = "build"
    <3>1. /\ builder'["poller"].at = "unlock"
          /\ \A i \in poll.batch : StillAccounted(outbox[i].change)
      <4>1. \A i \in poll.batch : outbox[i].change \in Nat /\ outbox[i].change <= builder["poller"].got
        BY <1>19, <2>3, <1>b, RowType, Sizes DEF Activate, PollInv, Built
      <4>2. \A i \in poll.batch : StillAccounted(outbox[i].change)
        BY <1>19, <2>3, <4>1, ReadingAccounts
      <4> QED
        BY <1>19, <2>3, <4>2 DEF Activate, AfterSetSnapshot, BuilderType
    <3> QED
      BY <1>19, <2>3, <3>1, PollMoves DEF Activate
  <2> QED
    BY <1>19, <2>1, <2>2, <2>3 DEF Activate, BuilderType
<1>20. ASSUME NEW p \in Builders, BuildFails(p) PROVE PollInv'
  <2>1. CASE p # "poller"
    <3>1. builder'["poller"] = builder["poller"]
      BY <1>20, <2>1 DEF BuildFails, BuilderType, AfterSetSnapshot
    <3> QED
      BY <1>20, <3>1, PollRests DEF BuildFails, bounds
  <2>2. CASE p = "poller" /\ poll.at = "lag"
    BY <1>20, <2>2, PollEnds DEF BuildFails
  <2>3. CASE p = "poller" /\ poll.at = "build"
    <3>1. builder'["poller"].at = "unlock" /\ ~builder'["poller"].ok
      BY <1>20, <2>3 DEF BuildFails, AfterSetSnapshot, BuilderType
    <3> QED
      BY <1>20, <2>3, <3>1, PollMoves DEF BuildFails
  <2> QED
    BY <1>20, <2>1, <2>2, <2>3 DEF BuildFails, BuilderType
<1>21. ASSUME NEW p \in Builders, Unlock(p) PROVE PollInv'
  <2>1. CASE p # "poller"
    <3>1. builder'["poller"] = builder["poller"] /\ poll' = poll
      BY <1>21, <2>1 DEF Unlock, BuildEnds, BuilderType
    <3> QED
      BY <1>21, <3>1, PollRests DEF Unlock
  <2>2. CASE p = "poller" /\ poll' = Resting
    BY <2>2, PollEnds DEF Resting
  <2>3. CASE p = "poller" /\ poll.at = "build" /\ builder["poller"].ok /\ EventHandled
    <3>1. \A i \in poll.batch : StillAccounted(outbox[i].change)
      BY <1>21, <2>3, <1>a, <1>b DEF Unlock, PollInv, Built
    <3> QED
      BY <1>21, <2>3, <3>1, PollHandles DEF Unlock
  <2> QED
    BY <1>21, <2>1, <2>2, <2>3 DEF Unlock, BuildEnds, PollGivesUp
<1>22. ASSUME OrphanLapses PROVE PollInv'
  BY <1>22, PollRests DEF OrphanLapses, cache
<1>23. ASSUME LockLapses PROVE PollInv'
  BY <1>23, PollRests DEF LockLapses, cache
<1>24. ASSUME Crash PROVE PollInv'
  <2>1. poll'.at \in {"idle", "lag"}
    BY <1>24, Zenon DEF Crash, Resting
  <2> QED
    BY <2>1, PollEnds
<1> QED
  BY <1>1, <1>2, <1>3, <1>4, <1>5, <1>6, <1>7, <1>8, <1>9, <1>10, <1>11,
     <1>12, <1>13, <1>14, <1>15, <1>16, <1>17, <1>18, <1>19, <1>20, <1>21,
     <1>22, <1>23, <1>24 DEF Next, WriterStep, PollStep, BuilderStep


-------------------------------------------------------------------------------
(* Rows that are passed, and changes that are told of.                     *)

LEMMA PassedStep ==
  ASSUME TypeOK, Telltale, Told, Passed, PollInv, Next
  PROVE  Passed'
<1> USE TypeParts, Sizes
<1>a. \A i \in 1..Len(outbox) : /\ outbox'[i].change = outbox[i].change
                                /\ Accounted(outbox[i].change) => StillAccounted(outbox'[i].change)
  <2> SUFFICES ASSUME NEW i \in 1..Len(outbox)
               PROVE  /\ outbox'[i].change = outbox[i].change
                      /\ Accounted(outbox[i].change) => StillAccounted(outbox'[i].change)
    OBVIOUS
  <2>1. outbox[i].change \in Nat
    BY RowType
  <2> QED
    BY <2>1, AccountsKept, RowsStay DEF RowsKept
<1>b. ASSUME outbox' = outbox, watermark' = watermark PROVE Passed'
  BY <1>a, <1>b DEF Passed, Accounted, StillAccounted
<1>c. DOMAIN outbox = 1..Len(outbox)
  BY LenProperties DEF OutboxType
<1>1. ASSUME NEW w \in Writers, NEW kind \in Kinds, Save(w, kind) PROVE Passed'
  BY <1>1, <1>b DEF Save
<1>2. ASSUME NEW w \in Writers, Uncache(w) PROVE Passed'
  BY <1>2, <1>b DEF Uncache
<1>3. ASSUME NEW w \in Writers, Insert(w) PROVE Passed'
  <2> DEFINE n == Len(outbox) + 1
             row == [account |-> TargetOf[w], change |-> writer[w].change,
                     named |-> writer[w].kind = "delete", st |-> "open"]
  <2>1. row \in Events(Now)
    <3>1. writer[w].change \in 0..Now /\ writer[w].change # 0
      BY <1>3 DEF Insert, Telltale, Telling, WriterType
    <3>2. writer[w].change \in 1..Now
      BY <3>1
    <3> QED
      BY <3>2, SchedulerSnapshotAssumption DEF Events
  <2>2. /\ Len(outbox') = n
        /\ \A i \in 1..Len(outbox) : outbox'[i] = outbox[i]
        /\ outbox'[n].st = "open" /\ watermark' = watermark
    BY <1>3, <2>1, AppendProperties DEF Insert, OutboxType
  <2>3. n > watermark
    BY DEF RestType
  <2>4. ASSUME NEW i \in 1..Len(outbox'), i <= watermark \/ outbox'[i].st = "aborted"
        PROVE  StillAccounted(outbox'[i].change)
    <3>1. i # n
      <4>1. watermark \in Nat /\ ~(n <= watermark)
        BY <2>3 DEF RestType
      <4> QED
        BY <2>2, <2>4, <4>1
    <3>2. i \in 1..Len(outbox)
      BY <2>2, <3>1
    <3> QED
      BY <1>a, <2>2, <2>4, <3>2 DEF Passed
  <2> QED
    BY <2>2, <2>4 DEF Passed, Accounted, StillAccounted
<1>4. ASSUME NEW w \in Writers, NotInserted(w) PROVE Passed'
  BY <1>4, <1>b DEF NotInserted
<1>5. ASSUME NEW w \in Writers, Commit(w) PROVE Passed'
  <2>1. \A i \in 1..Len(outbox) :
          outbox'[i] = IF outbox[i].change = writer[w].change
                       THEN [outbox[i] EXCEPT !.st = "committed"] ELSE outbox[i]
    BY <1>5, <1>c DEF Commit
  <2>2. \A i \in 1..Len(outbox) : outbox'[i].st = "aborted" => outbox[i].st = "aborted"
    <3> SUFFICES ASSUME NEW i \in 1..Len(outbox), outbox'[i].st = "aborted"
                 PROVE  outbox[i].st = "aborted"
      OBVIOUS
    <3>1. outbox[i] \in Events(Now)
      BY RowType
    <3>2. CASE outbox[i].change = writer[w].change
      BY <2>1, <3>1, <3>2 DEF Events
    <3>3. CASE outbox[i].change # writer[w].change
      BY <2>1, <3>1, <3>3
    <3> QED
      BY <3>2, <3>3
  <2>3. Len(outbox') = Len(outbox)
    <3>1. DOMAIN outbox' = DOMAIN outbox
      BY <1>5 DEF Commit
    <3>2. outbox' = [i \in DOMAIN outbox |-> outbox'[i]]
      BY <1>5 DEF Commit
    <3>3. \A i \in DOMAIN outbox : outbox'[i] \in {outbox'[j] : j \in DOMAIN outbox}
      OBVIOUS
    <3> QED
      BY <3>2, <3>3, RowsRewritten DEF OutboxType
  <2>4. watermark' = watermark
    BY <1>5 DEF Commit
  <2> QED
    BY <1>a, <2>2, <2>3, <2>4 DEF Passed, Accounted, StillAccounted
<1>6. ASSUME NEW w \in Writers, Sync(w) PROVE Passed'
  BY <1>6, <1>b DEF Sync
<1>7. ASSUME NEW w \in Writers, SyncPut(w) PROVE Passed'
  BY <1>7, <1>b DEF SyncPut
<1>8. ASSUME PollReads PROVE Passed'
  BY <1>8, <1>b DEF PollReads
<1>9. ASSUME EventFetch PROVE Passed'
  BY <1>9, <1>b DEF EventFetch
<1>10. ASSUME EventPut PROVE Passed'
  BY <1>10, <1>b DEF EventPut
<1>11. ASSUME NEW lag \in BOOLEAN, Mark(lag) PROVE Passed'
  <2>1. outbox' = outbox
    BY <1>11 DEF Mark
  <2>2. CASE watermark' = watermark
    BY <1>b, <2>1, <2>2
  <2>3. CASE /\ watermark' = First
             /\ excused' = excused \cup {outbox[i].change : i \in poll.missed}
    <3>1. poll.at = "mark"
      BY <1>11 DEF Mark
    <3>2. First \in poll.batch /\ poll.batch \subseteq 1..Len(outbox) /\ poll.batch = {First}
      BY <3>1, FirstIsLeast DEF PollInv, Batched, PollType
    <3>3. ASSUME NEW i \in 1..Len(outbox), i <= First
          PROVE  StillAccounted(outbox[i].change)
      <4>1. CASE i <= watermark
        BY <1>a, <2>1, <4>1 DEF Passed
      <4>2. CASE i > watermark
        <5>1. i \in 1..First
          BY <3>2, <3>3
        <5>2. i \in poll.batch \/ i \in poll.missed \/ Accounted(outbox[i].change)
          BY <3>1, <3>2, <4>2, <5>1 DEF PollInv, Covered
        <5>3. i \in poll.batch => Accounted(outbox[i].change)
          BY <3>1 DEF PollInv, Handled
        <5>4. i \in poll.missed => StillAccounted(outbox[i].change)
          BY <2>3 DEF StillAccounted
        <5> QED
          BY <1>a, <2>1, <5>2, <5>3, <5>4
      <4> QED
        BY <4>1, <4>2 DEF RestType
    <3> QED
      BY <1>a, <2>1, <2>3, <3>3 DEF Passed, Accounted, StillAccounted
  <2> QED
    BY <1>11, <2>2, <2>3 DEF Mark
<1>12. ASSUME NEW r \in Requests, Ask(r) PROVE Passed'
  BY <1>12, <1>b DEF Ask
<1>13. ASSUME NEW p \in Builders, Lock(p) PROVE Passed'
  BY <1>13, <1>b DEF Lock
<1>14. ASSUME LockTaken PROVE Passed'
  BY <1>14, <1>b DEF LockTaken
<1>15. ASSUME LockFails PROVE Passed'
  BY <1>15, <1>b DEF LockFails
<1>16. ASSUME NEW p \in Builders, Read(p) PROVE Passed'
  BY <1>16, <1>b DEF Read
<1>17. ASSUME NEW p \in Builders, Number(p) PROVE Passed'
  BY <1>17, <1>b DEF Number
<1>18. ASSUME NEW p \in Builders, Write(p) PROVE Passed'
  BY <1>18, <1>b DEF Write
<1>19. ASSUME NEW p \in Builders, Activate(p) PROVE Passed'
  BY <1>19, <1>b DEF Activate
<1>20. ASSUME NEW p \in Builders, BuildFails(p) PROVE Passed'
  BY <1>20, <1>b DEF BuildFails
<1>21. ASSUME NEW p \in Builders, Unlock(p) PROVE Passed'
  BY <1>21, <1>b DEF Unlock
<1>22. ASSUME OrphanLapses PROVE Passed'
  BY <1>22, <1>b DEF OrphanLapses
<1>23. ASSUME LockLapses PROVE Passed'
  BY <1>23, <1>b DEF LockLapses
<1>24. ASSUME Crash PROVE Passed'
  <2>1. \A i \in 1..Len(outbox) :
          outbox'[i] = IF outbox[i].st = "open" THEN [outbox[i] EXCEPT !.st = "aborted"] ELSE outbox[i]
    BY <1>24, <1>c DEF Crash
  <2>2. Len(outbox') = Len(outbox)
    <3>1. outbox' = [i \in DOMAIN outbox |-> outbox'[i]]
      BY <1>24 DEF Crash
    <3>2. \A i \in DOMAIN outbox : outbox'[i] \in {outbox'[j] : j \in DOMAIN outbox}
      OBVIOUS
    <3> QED
      BY <3>1, <3>2, RowsRewritten DEF OutboxType
  <2>3. watermark' = watermark
    BY <1>24 DEF Crash
  <2>4. ASSUME NEW i \in 1..Len(outbox), outbox'[i].st = "aborted"
        PROVE  StillAccounted(outbox'[i].change)
    <3>1. CASE outbox[i].st = "open"
      <4>1. PICK w \in Writers : writer[w].at = "commit" /\ writer[w].change = outbox[i].change
        BY <3>1 DEF Told
      <4>2. writer[w].change \in excused'
        BY <1>24, <4>1 DEF Crash
      <4> QED
        BY <1>a, <4>1, <4>2 DEF StillAccounted
    <3>2. CASE outbox[i].st # "open"
      BY <1>a, <2>1, <2>4, <3>2 DEF Passed
    <3> QED
      BY <3>1, <3>2
  <2> QED
    BY <1>a, <2>2, <2>3, <2>4 DEF Passed, Accounted, StillAccounted
<1> QED
  BY <1>1, <1>2, <1>3, <1>4, <1>5, <1>6, <1>7, <1>8, <1>9, <1>10, <1>11,
     <1>12, <1>13, <1>14, <1>15, <1>16, <1>17, <1>18, <1>19, <1>20, <1>21,
     <1>22, <1>23, <1>24 DEF Next, WriterStep, PollStep, BuilderStep


LEMMA KnownStep ==
  ASSUME TypeOK, Telltale, Told, Passed, Known, Next, TypeOK', Passed'
  PROVE  Known'
<1> USE TypeParts, Sizes DEF WriterType, WriterAts
<1> DEFINE StillTold(c) == \E w \in Writers : writer'[w].at \in Telling /\ writer'[w].change = c
           StillAhead(c) == \E i \in 1..Len(outbox') : outbox'[i].change = c /\ i > watermark'
           Kept(c) == StillAccounted(c) \/ StillTold(c) \/ StillAhead(c)
<1>a. \A c \in 2..Now : Ahead(c) => Kept(c)
  <2> SUFFICES ASSUME NEW c \in 2..Now, NEW i \in 1..Len(outbox), outbox[i].change = c
               PROVE  StillAccounted(c) \/ StillAhead(c)
    BY DEF Ahead
  <2>1. /\ Len(outbox') >= Len(outbox) /\ Len(outbox) \in Nat
        /\ outbox'[i].change = outbox[i].change
    BY RowsStay DEF RowsKept
  <2>2. Len(outbox') \in Nat /\ watermark' \in Nat
    <3>1. outbox' \in Seq(Events(Now')) /\ watermark' \in 0..Len(outbox')
      BY DEF TypeOK, Events
    <3>2. Len(outbox') \in Nat
      BY <3>1, LenProperties
    <3> QED
      BY <3>1, <3>2
  <2>3. i \in 1..Len(outbox')
    BY <2>1, <2>2
  <2>4. CASE i > watermark'
    BY <2>1, <2>3, <2>4
  <2>5. CASE i <= watermark'
    BY <2>1, <2>3, <2>5 DEF Passed, Accounted, StillAccounted
  <2> QED
    BY <2>2, <2>4, <2>5
<1>b. \A c \in 2..Now : Accounted(c) => Kept(c)
  BY AccountsKept
<1>c. ASSUME Now' = Now, \A c \in 2..Now : ToBeTold(c) => Kept(c) \/ Ahead(c) \/ Accounted(c)
      PROVE  Known'
  <2>1. \A c \in 2..Now : Kept(c)
    BY <1>a, <1>b, <1>c DEF Known
  <2> QED
    BY <1>c, <2>1 DEF Known, Accounted, StillAccounted, ToBeTold, Ahead
<1>d. ASSUME hist' = hist,
             \A w \in Writers : writer[w].at \in Telling =>
               writer'[w].at \in Telling /\ writer'[w].change = writer[w].change
      PROVE  Known'
  <2>1. Now' = Now
    BY <1>d DEF Now
  <2>2. \A c \in 2..Now : ToBeTold(c) => Kept(c)
    BY <1>d DEF ToBeTold
  <2> QED
    BY <1>c, <2>1, <2>2
<1>1. ASSUME NEW w \in Writers, NEW kind \in Kinds, Save(w, kind) PROVE Known'
  <2>1. Now' = Now + 1
    BY <1>1, AppendProperties DEF Save, HistType, Now
  <2>2. writer'[w].at \in Telling /\ writer'[w].change = Now + 1
    BY <1>1 DEF Save, Telling
  <2>3. \A v \in Writers : writer[v].at \in Telling => writer'[v] = writer[v]
    BY <1>1 DEF Save, Telling
  <2>4. \A c \in 2..Now : ToBeTold(c) => Kept(c)
    BY <2>3 DEF ToBeTold
  <2>5. \A c \in 2..Now : Kept(c)
    BY <1>a, <1>b, <2>4 DEF Known
  <2>6. Kept(Now + 1)
    BY <2>2
  <2>7. \A c \in 2..Now' : c \in 2..Now \/ c = Now + 1
    BY <2>1
  <2>8. \A c \in 2..Now' : Kept(c)
    BY <2>5, <2>6, <2>7
  <2> QED
    BY <2>8 DEF Known, Accounted, StillAccounted, ToBeTold, Ahead
<1>2. ASSUME NEW w \in Writers, Uncache(w) PROVE Known'
  BY <1>2, <1>d DEF Uncache, Telling, Done
<1>3. ASSUME NEW w \in Writers, Insert(w) PROVE Known'
  BY <1>3, <1>d DEF Insert, Telling, Done
<1>4. ASSUME NEW w \in Writers, NotInserted(w) PROVE Known'
  <2>1. Now' = Now /\ writer[w].change \in excused'
    BY <1>4 DEF NotInserted, Now
  <2>2. \A v \in Writers : v # w => writer'[v] = writer[v]
    BY <1>4 DEF NotInserted
  <2>3. \A c \in 2..Now : ToBeTold(c) => Kept(c)
    BY <2>1, <2>2 DEF ToBeTold, StillAccounted
  <2> QED
    BY <1>c, <2>1, <2>3
<1>5. ASSUME NEW w \in Writers, Commit(w) PROVE Known'
  <2>1. Now' = Now /\ writer[w].at = "commit"
    BY <1>5 DEF Commit, Now
  <2>2. \A v \in Writers : v # w => writer'[v] = writer[v]
    BY <1>5 DEF Commit
  <2>3. PICK i \in 1..Len(outbox) : outbox[i].change = writer[w].change
    BY <2>1 DEF Told
  <2>4. Ahead(writer[w].change) \/ Accounted(writer[w].change)
    <3>1. i \in Nat /\ watermark \in Nat
      BY DEF RestType
    <3>2. i > watermark \/ i <= watermark
      BY <3>1
    <3> QED
      BY <2>3, <3>2 DEF Ahead, Passed
  <2>5. \A c \in 2..Now : ToBeTold(c) => Kept(c) \/ Ahead(c) \/ Accounted(c)
    BY <2>2, <2>4 DEF ToBeTold
  <2> QED
    BY <1>c, <2>1, <2>5
<1>6. ASSUME NEW w \in Writers, Sync(w) PROVE Known'
  BY <1>6, <1>d DEF Sync, Telling, Done
<1>7. ASSUME NEW w \in Writers, SyncPut(w) PROVE Known'
  BY <1>7, <1>d DEF SyncPut, Telling, Done
<1>8. ASSUME PollReads PROVE Known'
  BY <1>8, <1>d DEF PollReads
<1>9. ASSUME EventFetch PROVE Known'
  BY <1>9, <1>d DEF EventFetch
<1>10. ASSUME EventPut PROVE Known'
  BY <1>10, <1>d DEF EventPut
<1>11. ASSUME NEW lag \in BOOLEAN, Mark(lag) PROVE Known'
  BY <1>11, <1>d DEF Mark
<1>12. ASSUME NEW r \in Requests, Ask(r) PROVE Known'
  BY <1>12, <1>d DEF Ask
<1>13. ASSUME NEW p \in Builders, Lock(p) PROVE Known'
  BY <1>13, <1>d DEF Lock
<1>14. ASSUME LockTaken PROVE Known'
  BY <1>14, <1>d DEF LockTaken
<1>15. ASSUME LockFails PROVE Known'
  BY <1>15, <1>d DEF LockFails
<1>16. ASSUME NEW p \in Builders, Read(p) PROVE Known'
  BY <1>16, <1>d DEF Read
<1>17. ASSUME NEW p \in Builders, Number(p) PROVE Known'
  BY <1>17, <1>d DEF Number
<1>18. ASSUME NEW p \in Builders, Write(p) PROVE Known'
  BY <1>18, <1>d DEF Write
<1>19. ASSUME NEW p \in Builders, Activate(p) PROVE Known'
  BY <1>19, <1>d DEF Activate
<1>20. ASSUME NEW p \in Builders, BuildFails(p) PROVE Known'
  BY <1>20, <1>d DEF BuildFails
<1>21. ASSUME NEW p \in Builders, Unlock(p) PROVE Known'
  BY <1>21, <1>d DEF Unlock
<1>22. ASSUME OrphanLapses PROVE Known'
  BY <1>22, <1>d DEF OrphanLapses
<1>23. ASSUME LockLapses PROVE Known'
  BY <1>23, <1>d DEF LockLapses
<1>24. ASSUME Crash PROVE Known'
  <2>1. Now' = Now
    BY <1>24 DEF Crash, Now
  <2>2. \A w \in Writers : writer[w].at \in Telling => writer[w].change \in excused'
    BY <1>24 DEF Crash, Telling
  <2>3. \A c \in 2..Now : ToBeTold(c) => Kept(c)
    BY <2>2 DEF ToBeTold, StillAccounted
  <2> QED
    BY <1>c, <2>1, <2>3
<1> QED
  BY <1>1, <1>2, <1>3, <1>4, <1>5, <1>6, <1>7, <1>8, <1>9, <1>10, <1>11,
     <1>12, <1>13, <1>14, <1>15, <1>16, <1>17, <1>18, <1>19, <1>20, <1>21,
     <1>22, <1>23, <1>24 DEF Next, WriterStep, PollStep, BuilderStep


-------------------------------------------------------------------------------
(* Rebuilds under the lock.                                                *)

Workers == {"poller", "full"}

\* A request deletes no lock; and while no lock has lapsed under its holder, a
\* worker in the section holds the lock, and the other one is not in the section.
Alone ==
    /\ \A r \in Requests : builder[r].at # "unlock"
    /\ lapses = 0 =>
         /\ \A p \in Workers : builder[p].at \in Section => locked
         /\ ~(builder["poller"].at \in Section /\ builder["full"].at \in Section)

\* With no fallback either, a worker carries a reading that is not older than
\* the one in force.
Undisturbed == lapses = 0 /\ \A r \in Requests : builder[r].at = "idle"

NewerRead ==
    Undisturbed => \A p \in Workers : builder[p].at \in {"number", "write", "activate"} =>
                                        builder[p].got >= active

LEMMA AloneStep ==
  ASSUME TypeOK, Alone, Next
  PROVE  Alone'
<1> USE TypeParts, SchedulerSnapshotAssumption DEF Builders, BuilderType, Workers, Section
<1>a. ASSUME lapses' = lapses, locked' = locked,
             \A p \in Workers : builder'[p].at \in Section => builder[p].at \in Section,
             \A r \in Requests : builder'[r].at = "unlock" => builder[r].at = "unlock"
      PROVE  Alone'
  BY <1>a DEF Alone
<1>b. NoFault \/ Fault => lapses' = lapses
  BY DEF NoFault, Fault, bounds
<1>1. ASSUME NEW w \in Writers, NEW kind \in Kinds, Save(w, kind) PROVE Alone'
  BY <1>1, <1>a DEF Save, cache, bounds
<1>2. ASSUME NEW w \in Writers, Uncache(w) PROVE Alone'
  BY <1>2, <1>a, <1>b DEF Uncache, cache
<1>3. ASSUME NEW w \in Writers, Insert(w) PROVE Alone'
  BY <1>3, <1>a DEF Insert, cache, bounds
<1>4. ASSUME NEW w \in Writers, NotInserted(w) PROVE Alone'
  BY <1>4, <1>a, <1>b DEF NotInserted, cache
<1>5. ASSUME NEW w \in Writers, Commit(w) PROVE Alone'
  BY <1>5, <1>a DEF Commit, cache, bounds
<1>6. ASSUME NEW w \in Writers, Sync(w) PROVE Alone'
  BY <1>6, <1>a, <1>b DEF Sync, cache
<1>7. ASSUME NEW w \in Writers, SyncPut(w) PROVE Alone'
  BY <1>7, <1>a, <1>b DEF SyncPut, cache
<1>8. ASSUME PollReads PROVE Alone'
  BY <1>8, <1>a DEF PollReads, cache, bounds
<1>9. ASSUME EventFetch PROVE Alone'
  BY <1>9, <1>a, <1>b DEF EventFetch, cache
<1>10. ASSUME EventPut PROVE Alone'
  <2>1. lapses' = lapses /\ locked' = locked
    BY <1>10, <1>b DEF EventPut
  <2>2. builder' = builder \/ builder' = [builder EXCEPT !["poller"].at = "lock"]
    BY <1>10 DEF EventPut
  <2> QED
    BY <1>a, <2>1, <2>2
<1>11. ASSUME NEW lag \in BOOLEAN, Mark(lag) PROVE Alone'
  <2>1. lapses' = lapses /\ locked' = locked
    BY <1>11, <1>b DEF Mark, cache
  <2>2. builder' = builder \/ builder' = [builder EXCEPT !["poller"].at = "lock"]
    BY <1>11 DEF Mark
  <2> QED
    BY <1>a, <2>1, <2>2
<1>12. ASSUME NEW r \in Requests, Ask(r) PROVE Alone'
  BY <1>12, <1>a DEF Ask, cache, bounds
<1>13. ASSUME NEW p \in Builders, Lock(p) PROVE Alone'
  <2>1. ~locked /\ locked' = TRUE /\ lapses' = lapses /\ p \in Workers
    BY <1>13 DEF Lock, bounds, NoFault, Fault
  <2>2. lapses = 0 => \A q \in Workers : builder[q].at \notin Section
    BY <2>1 DEF Alone
  <2>3. CASE builder' = [builder EXCEPT ![p].at = "read"]
    BY <2>1, <2>2, <2>3 DEF Alone
  <2>4. CASE builder' = builder
    BY <2>1, <2>2, <2>4 DEF Alone
  <2> QED
    BY <1>13, <2>3, <2>4 DEF Lock
<1>14. ASSUME LockTaken PROVE Alone'
  BY <1>14, <1>a, <1>b DEF LockTaken, BuildEnds, cache, bounds
<1>15. ASSUME LockFails PROVE Alone'
  BY <1>15, <1>a, <1>b DEF LockFails, BuildEnds, cache, bounds
<1>16. ASSUME NEW p \in Builders, Read(p) PROVE Alone'
  BY <1>16, <1>a DEF Read, cache, bounds
<1>17. ASSUME NEW p \in Builders, Number(p) PROVE Alone'
  BY <1>17, <1>a DEF Number, cache, bounds
<1>18. ASSUME NEW p \in Builders, Write(p) PROVE Alone'
  BY <1>18, <1>a DEF Write, cache, bounds
<1>19. ASSUME NEW p \in Builders, Activate(p) PROVE Alone'
  BY <1>19, <1>a DEF Activate, AfterSetSnapshot, bounds
<1>20. ASSUME NEW p \in Builders, BuildFails(p) PROVE Alone'
  <2>1. lapses' = lapses /\ locked' = locked
    BY <1>20, <1>b DEF BuildFails
  <2> QED
    BY <1>20, <1>a, <2>1 DEF BuildFails, AfterSetSnapshot
<1>21. ASSUME NEW p \in Builders, Unlock(p) PROVE Alone'
  <2>1. lapses' = lapses
    BY <1>21, <1>b DEF Unlock
  <2>2. CASE p \in Requests
    BY <1>21, <2>2 DEF Unlock, Alone
  <2>3. CASE p \in Workers
    <3>1. /\ builder[p].at = "unlock" /\ builder'[p].at = "idle"
          /\ \A q \in Builders : q # p => builder'[q] = builder[q]
      BY <1>21, <2>3 DEF Unlock, BuildEnds
    <3> QED
      BY <2>1, <2>3, <3>1 DEF Alone
  <2> QED
    BY <2>2, <2>3
<1>22. ASSUME OrphanLapses PROVE Alone'
  BY <1>22 DEF OrphanLapses, Orphaned, Alone, bounds
<1>23. ASSUME LockLapses PROVE Alone'
  <2>1. lapses' = lapses + 1 /\ lapses \in Nat /\ builder' = builder
    BY <1>23 DEF LockLapses, RestType
  <2> QED
    BY <2>1 DEF Alone
<1>24. ASSUME Crash PROVE Alone'
  <2>1. /\ \A p \in Workers : builder'[p].at = "idle"
        /\ \A r \in Requests : builder'[r].at # "unlock"
    BY <1>24 DEF Crash
  <2> QED
    BY <2>1 DEF Alone
<1> QED
  BY <1>1, <1>2, <1>3, <1>4, <1>5, <1>6, <1>7, <1>8, <1>9, <1>10, <1>11,
     <1>12, <1>13, <1>14, <1>15, <1>16, <1>17, <1>18, <1>19, <1>20, <1>21,
     <1>22, <1>23, <1>24 DEF Next, WriterStep, PollStep, BuilderStep


\* A lapse is not forgotten, and a request that has come is not undone.
LEMMA DisturbedStays ==
  ASSUME TypeOK, Next, lapses' = 0, \A r \in Requests : builder'[r].at = "idle"
  PROVE  Undisturbed
<1> USE TypeParts, SchedulerSnapshotAssumption DEF Builders, BuilderType
<1>a. ASSUME lapses' = lapses, \A r \in Requests : builder'[r] = builder[r] PROVE Undisturbed
  BY <1>a DEF Undisturbed
<1>b. NoFault \/ Fault => lapses' = lapses
  BY DEF NoFault, Fault, bounds
<1>1. ASSUME NEW w \in Writers, NEW kind \in Kinds, Save(w, kind) PROVE Undisturbed
  BY <1>1, <1>a DEF Save, cache, bounds
<1>2. ASSUME NEW w \in Writers, Uncache(w) PROVE Undisturbed
  BY <1>2, <1>a, <1>b DEF Uncache, cache
<1>3. ASSUME NEW w \in Writers, Insert(w) PROVE Undisturbed
  BY <1>3, <1>a DEF Insert, cache, bounds
<1>4. ASSUME NEW w \in Writers, NotInserted(w) PROVE Undisturbed
  BY <1>4, <1>a, <1>b DEF NotInserted, cache
<1>5. ASSUME NEW w \in Writers, Commit(w) PROVE Undisturbed
  BY <1>5, <1>a DEF Commit, cache, bounds
<1>6. ASSUME NEW w \in Writers, Sync(w) PROVE Undisturbed
  BY <1>6, <1>a, <1>b DEF Sync, cache
<1>7. ASSUME NEW w \in Writers, SyncPut(w) PROVE Undisturbed
  BY <1>7, <1>a, <1>b DEF SyncPut, cache
<1>8. ASSUME PollReads PROVE Undisturbed
  BY <1>8, <1>a DEF PollReads, cache, bounds
<1>9. ASSUME EventFetch PROVE Undisturbed
  BY <1>9, <1>a, <1>b DEF EventFetch, cache
<1>10. ASSUME EventPut PROVE Undisturbed
  <2>1. lapses' = lapses
    BY <1>10, <1>b DEF EventPut
  <2>2. builder' = builder \/ builder' = [builder EXCEPT !["poller"].at = "lock"]
    BY <1>10 DEF EventPut
  <2> QED
    BY <1>a, <2>1, <2>2
<1>11. ASSUME NEW lag \in BOOLEAN, Mark(lag) PROVE Undisturbed
  <2>1. lapses' = lapses
    BY <1>11, <1>b DEF Mark
  <2>2. builder' = builder \/ builder' = [builder EXCEPT !["poller"].at = "lock"]
    BY <1>11 DEF Mark
  <2> QED
    BY <1>a, <2>1, <2>2
<1>12. ASSUME NEW r \in Requests, Ask(r) PROVE Undisturbed
  <2>1. builder'[r].at # "idle"
    BY <1>12 DEF Ask
  <2> QED
    BY <2>1
<1>13. ASSUME NEW p \in Builders, Lock(p) PROVE Undisturbed
  BY <1>13, <1>a DEF Lock, cache, bounds, NoFault, Fault
<1>14. ASSUME LockTaken PROVE Undisturbed
  BY <1>14, <1>a, <1>b DEF LockTaken, BuildEnds, cache, bounds
<1>15. ASSUME LockFails PROVE Undisturbed
  BY <1>15, <1>a, <1>b DEF LockFails, BuildEnds, cache, bounds
<1>16. ASSUME NEW p \in Builders, Read(p) PROVE Undisturbed
  <2>1. p \in Requests => builder'[p].at # "idle"
    BY <1>16 DEF Read
  <2>2. \A r \in Requests : r # p => builder'[r] = builder[r]
    BY <1>16 DEF Read
  <2>3. lapses' = lapses
    BY <1>16 DEF Read, bounds
  <2> QED
    BY <1>a, <2>1, <2>2, <2>3
<1>17. ASSUME NEW p \in Builders, Number(p) PROVE Undisturbed
  <2>1. p \in Requests => builder'[p].at # "idle"
    BY <1>17 DEF Number
  <2>2. \A r \in Requests : r # p => builder'[r] = builder[r]
    BY <1>17 DEF Number
  <2>3. lapses' = lapses
    BY <1>17 DEF Number, bounds
  <2> QED
    BY <1>a, <2>1, <2>2, <2>3
<1>18. ASSUME NEW p \in Builders, Write(p) PROVE Undisturbed
  <2>1. p \in Requests => builder'[p].at # "idle"
    BY <1>18 DEF Write
  <2>2. \A r \in Requests : r # p => builder'[r] = builder[r]
    BY <1>18 DEF Write
  <2>3. lapses' = lapses
    BY <1>18 DEF Write, bounds
  <2> QED
    BY <1>a, <2>1, <2>2, <2>3
<1>19. ASSUME NEW p \in Builders, Activate(p) PROVE Undisturbed
  <2>1. p \in Requests => builder'[p].at # "idle"
    BY <1>19 DEF Activate, AfterSetSnapshot
  <2>2. \A r \in Requests : r # p => builder'[r] = builder[r]
    BY <1>19 DEF Activate, AfterSetSnapshot
  <2>3. lapses' = lapses
    BY <1>19 DEF Activate, bounds
  <2> QED
    BY <1>a, <2>1, <2>2, <2>3
<1>20. ASSUME NEW p \in Builders, BuildFails(p) PROVE Undisturbed
  <2>1. p \in Requests => builder'[p].at # "idle"
    BY <1>20 DEF BuildFails, AfterSetSnapshot
  <2>2. \A r \in Requests : r # p => builder'[r] = builder[r]
    BY <1>20 DEF BuildFails, AfterSetSnapshot
  <2>3. lapses' = lapses
    BY <1>20, <1>b DEF BuildFails
  <2> QED
    BY <1>a, <2>1, <2>2, <2>3
<1>21. ASSUME NEW p \in Builders, Unlock(p) PROVE Undisturbed
  <2>1. p \in Requests => builder'[p].at # "idle"
    BY <1>21 DEF Unlock, BuildEnds
  <2>2. \A r \in Requests : r # p => builder'[r] = builder[r]
    BY <1>21 DEF Unlock, BuildEnds
  <2>3. lapses' = lapses
    BY <1>21, <1>b DEF Unlock
  <2> QED
    BY <1>a, <2>1, <2>2, <2>3
<1>22. ASSUME OrphanLapses PROVE Undisturbed
  BY <1>22, <1>a DEF OrphanLapses, cache, bounds
<1>23. ASSUME LockLapses PROVE Undisturbed
  <2>1. lapses' = lapses + 1 /\ lapses \in Nat
    BY <1>23 DEF LockLapses, RestType
  <2> QED
    BY <2>1
<1>24. ASSUME Crash PROVE Undisturbed
  <2>1. \A r \in Requests : builder'[r].at = "idle" => builder[r].at = "idle"
    BY <1>24 DEF Crash
  <2>2. lapses' = lapses
    BY <1>24 DEF Crash
  <2> QED
    BY <2>1, <2>2 DEF Undisturbed
<1> QED
  BY <1>1, <1>2, <1>3, <1>4, <1>5, <1>6, <1>7, <1>8, <1>9, <1>10, <1>11,
     <1>12, <1>13, <1>14, <1>15, <1>16, <1>17, <1>18, <1>19, <1>20, <1>21,
     <1>22, <1>23, <1>24 DEF Next, WriterStep, PollStep, BuilderStep


Carrying == {"number", "write", "activate"}

LEMMA NewerReadStep ==
  ASSUME TypeOK, Alone, NewerRead, Next
  PROVE  NewerRead'
<1> USE TypeParts, SchedulerSnapshotAssumption DEF Builders, BuilderType, Workers, Carrying
<1> SUFFICES ASSUME Undisturbed, NEW q \in Workers, builder'[q].at \in Carrying
             PROVE  builder'[q].got >= active'
  BY DisturbedStays DEF NewerRead, Undisturbed
<1> DEFINE Goal == builder'[q].got >= active'
<1>a. ASSUME active' = active, builder[q].at \in Carrying, builder'[q].got = builder[q].got
      PROVE  Goal
  BY <1>a DEF NewerRead
<1>1. ASSUME NEW w \in Writers, NEW kind \in Kinds, Save(w, kind) PROVE Goal
  BY <1>1, <1>a DEF Save, cache
<1>2. ASSUME NEW w \in Writers, Uncache(w) PROVE Goal
  BY <1>2, <1>a DEF Uncache, cache
<1>3. ASSUME NEW w \in Writers, Insert(w) PROVE Goal
  BY <1>3, <1>a DEF Insert, cache
<1>4. ASSUME NEW w \in Writers, NotInserted(w) PROVE Goal
  BY <1>4, <1>a DEF NotInserted, cache
<1>5. ASSUME NEW w \in Writers, Commit(w) PROVE Goal
  BY <1>5, <1>a DEF Commit, cache
<1>6. ASSUME NEW w \in Writers, Sync(w) PROVE Goal
  BY <1>6, <1>a DEF Sync, cache
<1>7. ASSUME NEW w \in Writers, SyncPut(w) PROVE Goal
  BY <1>7, <1>a DEF SyncPut, cache
<1>8. ASSUME PollReads PROVE Goal
  BY <1>8, <1>a DEF PollReads, cache
<1>9. ASSUME EventFetch PROVE Goal
  BY <1>9, <1>a DEF EventFetch, cache
<1>10. ASSUME EventPut PROVE Goal
  <2>1. active' = active
    BY <1>10 DEF EventPut, cache
  <2>2. builder' = builder \/ builder' = [builder EXCEPT !["poller"].at = "lock"]
    BY <1>10 DEF EventPut
  <2> QED
    BY <1>a, <2>1, <2>2
<1>11. ASSUME NEW lag \in BOOLEAN, Mark(lag) PROVE Goal
  <2>1. active' = active
    BY <1>11 DEF Mark, cache
  <2>2. builder' = builder \/ builder' = [builder EXCEPT !["poller"].at = "lock"]
    BY <1>11 DEF Mark
  <2> QED
    BY <1>a, <2>1, <2>2
<1>12. ASSUME NEW r \in Requests, Ask(r) PROVE Goal
  BY <1>12, <1>a DEF Ask, cache
<1>13. ASSUME NEW p \in Builders, Lock(p) PROVE Goal
  BY <1>13, <1>a DEF Lock, cache
<1>14. ASSUME LockTaken PROVE Goal
  BY <1>14, <1>a DEF LockTaken, BuildEnds, cache
<1>15. ASSUME LockFails PROVE Goal
  BY <1>15, <1>a DEF LockFails, BuildEnds, cache
<1>16. ASSUME NEW p \in Builders, Read(p) PROVE Goal
  <2>1. CASE p = q
    <3>1. builder'[q].got = Now /\ active' = active
      BY <1>16, <2>1 DEF Read, cache
    <3> QED
      BY <3>1, Sizes DEF RestType
  <2>2. CASE p # q
    BY <1>16, <1>a, <2>2 DEF Read, cache
  <2> QED
    BY <2>1, <2>2
<1>17. ASSUME NEW p \in Builders, Number(p) PROVE Goal
  BY <1>17, <1>a DEF Number, cache
<1>18. ASSUME NEW p \in Builders, Write(p) PROVE Goal
  BY <1>18, <1>a DEF Write, cache
<1>19. ASSUME NEW p \in Builders, Activate(p) PROVE Goal
  <2>1. builder'[p].at \in {"done", "unlock"} /\ builder[p].at = "activate"
    BY <1>19 DEF Activate, AfterSetSnapshot
  <2>2. p # q
    BY <2>1
  <2>3. builder'[q] = builder[q]
    BY <1>19, <2>2 DEF Activate, AfterSetSnapshot
  <2>4. p \notin Workers
    BY <2>1, <2>2, <2>3 DEF Alone, Undisturbed, Section
  <2> QED
    BY <2>1, <2>4 DEF Undisturbed
<1>20. ASSUME NEW p \in Builders, BuildFails(p) PROVE Goal
  BY <1>20, <1>a DEF BuildFails, AfterSetSnapshot
<1>21. ASSUME NEW p \in Builders, Unlock(p) PROVE Goal
  BY <1>21, <1>a DEF Unlock, BuildEnds, cache
<1>22. ASSUME OrphanLapses PROVE Goal
  BY <1>22, <1>a DEF OrphanLapses, cache
<1>23. ASSUME LockLapses PROVE Goal
  BY <1>23, <1>a DEF LockLapses, cache
<1>24. ASSUME Crash PROVE Goal
  <2>1. builder'[q].at = "idle"
    BY <1>24 DEF Crash
  <2> QED
    BY <2>1
<1> QED
  BY <1>1, <1>2, <1>3, <1>4, <1>5, <1>6, <1>7, <1>8, <1>9, <1>10, <1>11,
     <1>12, <1>13, <1>14, <1>15, <1>16, <1>17, <1>18, <1>19, <1>20, <1>21,
     <1>22, <1>23, <1>24 DEF Next, WriterStep, PollStep, BuilderStep


\* Nothing but an activation changes what is in force.
LEMMA OnlyActivateMoves ==
  ASSUME Next, active' # active
  PROVE  \E p \in Builders : Activate(p)
<1>1. ASSUME NEW w \in Writers, NEW kind \in Kinds, Save(w, kind) PROVE \E b \in Builders : Activate(b)
  BY <1>1 DEF Save, cache
<1>2. ASSUME NEW w \in Writers, Uncache(w) PROVE \E b \in Builders : Activate(b)
  BY <1>2 DEF Uncache, cache
<1>3. ASSUME NEW w \in Writers, Insert(w) PROVE \E b \in Builders : Activate(b)
  BY <1>3 DEF Insert, cache
<1>4. ASSUME NEW w \in Writers, NotInserted(w) PROVE \E b \in Builders : Activate(b)
  BY <1>4 DEF NotInserted, cache
<1>5. ASSUME NEW w \in Writers, Commit(w) PROVE \E b \in Builders : Activate(b)
  BY <1>5 DEF Commit, cache
<1>6. ASSUME NEW w \in Writers, Sync(w) PROVE \E b \in Builders : Activate(b)
  BY <1>6 DEF Sync, cache
<1>7. ASSUME NEW w \in Writers, SyncPut(w) PROVE \E b \in Builders : Activate(b)
  BY <1>7 DEF SyncPut, cache
<1>8. ASSUME PollReads PROVE \E b \in Builders : Activate(b)
  BY <1>8 DEF PollReads, cache
<1>9. ASSUME EventFetch PROVE \E b \in Builders : Activate(b)
  BY <1>9 DEF EventFetch, cache
<1>10. ASSUME EventPut PROVE \E b \in Builders : Activate(b)
  BY <1>10 DEF EventPut, cache
<1>11. ASSUME NEW lag \in BOOLEAN, Mark(lag) PROVE \E b \in Builders : Activate(b)
  BY <1>11 DEF Mark, cache
<1>12. ASSUME NEW r \in Requests, Ask(r) PROVE \E b \in Builders : Activate(b)
  BY <1>12 DEF Ask, cache
<1>13. ASSUME NEW p \in Builders, Lock(p) PROVE \E b \in Builders : Activate(b)
  BY <1>13 DEF Lock, cache
<1>14. ASSUME LockTaken PROVE \E b \in Builders : Activate(b)
  BY <1>14 DEF LockTaken, cache
<1>15. ASSUME LockFails PROVE \E b \in Builders : Activate(b)
  BY <1>15 DEF LockFails, cache
<1>16. ASSUME NEW p \in Builders, Read(p) PROVE \E b \in Builders : Activate(b)
  BY <1>16 DEF Read, cache
<1>17. ASSUME NEW p \in Builders, Number(p) PROVE \E b \in Builders : Activate(b)
  BY <1>17 DEF Number, cache
<1>18. ASSUME NEW p \in Builders, Write(p) PROVE \E b \in Builders : Activate(b)
  BY <1>18 DEF Write, cache
<1>19. ASSUME NEW p \in Builders, Activate(p) PROVE \E b \in Builders : Activate(b)
  BY <1>19
<1>20. ASSUME NEW p \in Builders, BuildFails(p) PROVE \E b \in Builders : Activate(b)
  BY <1>20 DEF BuildFails, cache
<1>21. ASSUME NEW p \in Builders, Unlock(p) PROVE \E b \in Builders : Activate(b)
  BY <1>21 DEF Unlock, cache
<1>22. ASSUME OrphanLapses PROVE \E b \in Builders : Activate(b)
  BY <1>22 DEF OrphanLapses, cache
<1>23. ASSUME LockLapses PROVE \E b \in Builders : Activate(b)
  BY <1>23 DEF LockLapses, cache
<1>24. ASSUME Crash PROVE \E b \in Builders : Activate(b)
  BY <1>24 DEF Crash, cache
<1> QED
  BY <1>1, <1>2, <1>3, <1>4, <1>5, <1>6, <1>7, <1>8, <1>9, <1>10, <1>11,
     <1>12, <1>13, <1>14, <1>15, <1>16, <1>17, <1>18, <1>19, <1>20, <1>21,
     <1>22, <1>23, <1>24 DEF Next, WriterStep, PollStep, BuilderStep


-------------------------------------------------------------------------------
(* The invariant, and what follows from it.                                *)

Inv == TypeOK /\ Telltale /\ Told /\ Passed /\ Known /\ PollInv /\ Alone /\ NewerRead

LEMMA InitInv ==
  Init => Inv
<1> SUFFICES ASSUME Init PROVE Inv
  OBVIOUS
<1> USE SchedulerSnapshotAssumption DEF Init, Builders
<1>1. Len(hist) = 1 /\ Now = 1 /\ hist \in Seq([Accounts -> Statuses]) /\ hist # <<>>
  BY DEF Now, Statuses
<1>2. Len(outbox) = 0
  OBVIOUS
<1>3. HistType /\ OutboxType /\ RestType
  <2>1. HistType /\ OutboxType
    BY <1>1 DEF HistType, OutboxType
  <2>2. locked \in BOOLEAN
    OBVIOUS
  <2>3. inFlight \in Seq(Builders) /\ entry \in [Accounts -> 0..Now] /\ excused \in SUBSET (1..Now)
    BY <1>1
  <2>4. watermark \in 0..Len(outbox) /\ active \in 0..Now /\ faults \in Nat /\ lapses \in Nat /\ crashes \in Nat
    BY <1>1, <1>2
  <2> QED
    BY <2>1, <2>2, <2>3, <2>4 DEF RestType
<1>4. PollType
  BY <1>1, <1>2 DEF PollType, PollAts, Resting
<1>5. BuilderType
  BY <1>1 DEF BuilderType, Resting
<1>6. WriterType
  BY <1>1 DEF WriterType, WriterAts, Kinds
<1>7. TypeOK
  BY <1>3, <1>4, <1>5, <1>6, TypeParts
<1>8. Telltale /\ Told /\ Passed /\ Known
  BY <1>1, <1>2 DEF Telltale, Telling, Told, Passed, Known
<1>9. PollInv
  BY DEF PollInv, Batched, Covered, Handled, Built, Resting
<1>10. Alone /\ NewerRead
  BY DEF Alone, NewerRead, Workers, Section
<1> QED
  BY <1>7, <1>8, <1>9, <1>10 DEF Inv

LEMMA InvStep ==
  Inv /\ [Next]_vars => Inv'
<1>1. CASE Inv /\ Next
  <2> USE <1>1 DEF Inv
  <2>1. TypeOK'
    BY TypeStep DEF PollInv
  <2>2. Telltale'
    BY TelltaleStep
  <2>3. Told'
    BY ToldStep
  <2>4. Passed'
    BY PassedStep
  <2>5. Known'
    BY <2>1, <2>4, KnownStep
  <2>6. PollInv'
    BY PollInvStep
  <2>7. Alone'
    BY AloneStep
  <2>8. NewerRead'
    BY NewerReadStep
  <2> QED
    BY <2>1, <2>2, <2>3, <2>4, <2>5, <2>6, <2>7, <2>8
<1>2. CASE Inv /\ UNCHANGED vars
  <2> USE <1>2 DEF Inv, vars, cache, bounds
  <2>1. TypeOK'
    BY DEF TypeOK, Now
  <2>2. Telltale' /\ Told' /\ Passed' /\ Known'
    BY DEF Telltale, Told, Passed, Known, Accounted, ToBeTold, Ahead, Now
  <2>3. PollInv'
    BY DEF PollInv, Batched, Covered, Handled, Built, Accounted
  <2>4. Alone' /\ NewerRead'
    BY DEF Alone, NewerRead, Undisturbed
  <2> QED
    BY <2>1, <2>2, <2>3, <2>4
<1> QED
  BY <1>1, <1>2

\* The invariant holds in every reachable state.
LEMMA AlwaysInv ==
  Spec => []Inv
BY InitInv, InvStep, PTL DEF Spec

\* The model's values keep their types: rows, readings and numbers in flight
\* refer to what there is, and the worker waits exactly while its rebuild runs.
THEOREM TypeCorrect ==
  Spec => []TypeOK
<1>1. Inv => TypeOK
  BY DEF Inv
<1> QED
  BY <1>1, AlwaysInv, PTL

\* For any number of accounts, writers, requests and faults, and every order of
\* their calls with the polls and rebuilds: a change that the active snapshot has
\* not seen is about to be told of, or told of in an event that is still to be
\* read, unless its notice was lost as excused says.
THEOREM NoticesAreKept ==
  Spec => []LostOnlyAsExcused
<1>1. ASSUME Inv PROVE LostOnlyAsExcused
  <2> SUFFICES ASSUME NEW c \in 2..Now, active \in 1..(c - 1), c \notin excused
               PROVE  Notified(c)
    BY DEF LostOnlyAsExcused
  <2>1. TypeOK /\ DOMAIN outbox = 1..Len(outbox)
    BY <1>1, TypeParts, LenProperties DEF Inv, OutboxType
  <2>2. ~Accounted(c)
    BY <2>1, Sizes DEF Accounted
  <2>3. ToBeTold(c) \/ Ahead(c)
    BY <1>1, <2>2 DEF Inv, Known
  <2> QED
    BY <2>1, <2>3 DEF ToBeTold, Ahead, Telling, Notified
<1> QED
  BY <1>1, AlwaysInv, PTL

\* Only a rebuild whose lock lapsed under its holder, or a request's fallback
\* beside it, replaces a snapshot by an older reading.
THEOREM RebuildsNeverGoBack ==
  Spec => NeverOlder
<1>1. ASSUME Inv, [Next]_vars
      PROVE  [active' < active => lapses > 0 \/ \E r \in Requests : builder[r].at # "idle"]_vars
  <2> SUFFICES ASSUME Next, active' < active, Undisturbed PROVE FALSE
    BY <1>1, TypeParts DEF Inv, RestType, Undisturbed
  <2>1. active' # active
    <3>1. active \in Nat
      BY <1>1, TypeParts, Sizes DEF Inv, RestType
    <3> QED
      BY <3>1
  <2>2. PICK p \in Builders : Activate(p)
    BY <2>1, OnlyActivateMoves
  <2> QED
    BY <1>1, <2>2, TypeParts DEF Activate, Inv, NewerRead, Workers, Undisturbed, Builders, RestType, BuilderType
<1> QED
  BY <1>1, AlwaysInv, PTL DEF Spec, NeverOlder
================================================================================
