--------------------------- MODULE UsageBillingProofs ---------------------------
(***************************************************************************)
(* What billing promises, for any records, request ids and loads, any size *)
(* of pool and queues, and any number of failures.                         *)
(*                                                                         *)
(* The ledger part rests on who may hold a claim: a transaction past its   *)
(* first lookup is alone on its id and finds no earlier payer, and whoever *)
(* paid for an id is past its transaction.  The cache part rests on one    *)
(* token per charge: its deduction is with its record or in the queue,     *)
(* never with both, and a load that a token overlaps marks it drifted.     *)
(***************************************************************************)
EXTENDS UsageBilling, FiniteSetTheorems, TLAPS

InTransaction == {r \in Records : rec[r].at \in {"archive", "commit"}}

Before == {r \in Records : rec[r].at \in {"new", "queued", "start", "archive", "commit"}}

\* The transaction is through, the deduction is still with the record.
Deducting == {r \in Records : rec[r].at \in {"look", "send", "fallback"}}

Paid(r, i) == dedup[i] = r \/ archive[i] = r

Payers == {r \in Records : \E i \in Ids : Paid(r, i)}

\* The types of what the transactions read and write.
BillTypeOK ==
    /\ rec \in [Records -> [at : Places, pooled : BOOLEAN]]
    /\ bill \in [Records -> {NoBill} \cup [id : Ids, print : Prints]]
    /\ \A r \in Records : rec[r].at = "new" <=> bill[r] = NoBill
    /\ answer \in [Records -> {"none", "applied", "duplicate", "conflict", "failed", "dropped"}]
    /\ \A r \in Deducting : answer[r] = "applied"
    /\ dedup \in [Ids -> Records \cup {NoRecord}]
    /\ archive \in [Ids -> Records \cup {NoRecord}]
    /\ \A i \in Ids : dedup[i] = NoRecord \/ archive[i] = NoRecord
    /\ pool \in {"open", "stopping", "stopped"}
    /\ down \in BOOLEAN

Unanswered == \A r \in Before : answer[r] = "none"

OneClaim ==
    /\ \A r, s \in InTransaction : bill[r].id = bill[s].id => r = s
    /\ \A r \in InTransaction : dedup[bill[r].id] = NoRecord
    /\ \A r \in Records : rec[r].at = "commit" => archive[bill[r].id] = NoRecord

PayersAreThrough ==
    \A r \in Records, i \in Ids : Paid(r, i) => r \notin Before /\ bill[r].id = i

DeductingPaid == \A r \in Deducting : Paid(r, bill[r].id)

SpentByPayers == spent = Cardinality(Payers)

BillInv ==
    /\ BillTypeOK /\ Unanswered /\ OneClaim /\ PayersAreThrough /\ DeductingPaid
    /\ SpentByPayers

-------------------------------------------------------------------------------
\* The charges whose deduction is still with their record.
WithRecord == {bill[r].id : r \in Deducting}

\* A charge has one deduction, and only charges have one.
OneDeduction ==
    /\ Pending \subseteq Charged /\ IsFiniteSet(deducts)
    /\ WithRecord \cap deducts = {}

\* What the database does not have is counted nowhere.
UnchargedUncounted ==
    \A i \in Ids \ Charged :
        /\ cached # NoEntry => cached[i] = 0
        /\ \A l \in Loads : load[l].counts # NoEntry => load[l].counts[i] = 0

\* A charge is counted by the balance that was loaded, by its deduction, and by
\* every deduction that was upset.
RoomForOneMore ==
    cached # NoEntry =>
        \A i \in Ids : cached[i] <= (IF i \in Pending THEN 1 ELSE 2) + upsets

\* While a balance is on its way to the cache, every charge whose deduction is
\* still to come has been overlapped by it.
Overlapped == Outstanding # {} => Pending \subseteq drifted

LoadsRight ==
    \A l \in Outstanding, i \in Ids \ drifted :
        load[l].counts[i] = IF i \in Charged \ Pending THEN 1 ELSE 0

CacheInv ==
    /\ CacheTypeOK /\ OneDeduction /\ UnchargedUncounted /\ RoomForOneMore
    /\ Overlapped /\ LoadsRight /\ CountedOnce

IInv == BillInv /\ CacheInv

-------------------------------------------------------------------------------
USE DEF InTransaction, Before, Deducting, Paid

LEMMA InitBillInv == Init => BillInv
<1> SUFFICES ASSUME Init PROVE BillInv
  OBVIOUS
<1>1. BillTypeOK
  BY UsageBillingAssumption DEF Init, BillTypeOK, Places
<1>2. Unanswered /\ OneClaim /\ DeductingPaid
  BY DEF Init, Unanswered, OneClaim, DeductingPaid
<1>3. PayersAreThrough /\ Payers = {}
  BY UsageBillingAssumption DEF Init, PayersAreThrough, Payers
<1>4. SpentByPayers
  BY <1>3, FS_EmptySet DEF Init, SpentByPayers
<1> QED
  BY <1>1, <1>2, <1>3, <1>4 DEF BillInv

LEMMA BillInvFrame ==
  ASSUME BillInv, UNCHANGED <<rec, bill, answer, dedup, archive, spent>>,
         pool' \in {"open", "stopping", "stopped"}, down' \in BOOLEAN
  PROVE  BillInv'
<1>1. BillTypeOK'
  BY DEF BillInv, BillTypeOK
<1>2. (Unanswered /\ OneClaim /\ DeductingPaid /\ PayersAreThrough)'
  BY DEF BillInv, Unanswered, OneClaim, DeductingPaid, PayersAreThrough
<1>3. SpentByPayers'
  BY DEF BillInv, SpentByPayers, Payers
<1> QED
  BY <1>1, <1>2, <1>3 DEF BillInv

\* A step of one record that claims nothing keeps every payer.
LEMMA SameTables ==
  ASSUME BillInv, UNCHANGED <<dedup, archive, spent>>
  PROVE  SpentByPayers'
BY DEF BillInv, SpentByPayers, Payers

LEMMA RecAt ==
  ASSUME NEW x \in [at : Places, pooled : BOOLEAN], NEW p
  PROVE  [x EXCEPT !.at = p] = [at |-> p, pooled |-> x.pooled]
BY SMT

LEMMA Moves ==
  ASSUME BillInv, NEW r \in Records, NEW p \in Places, At(r, p)
  PROVE  rec' = [rec EXCEPT ![r] = [at |-> p, pooled |-> rec[r].pooled]]
<1>1. rec[r] \in [at : Places, pooled : BOOLEAN]
  BY DEF BillInv, BillTypeOK
<1>2. rec' = [rec EXCEPT ![r] = [rec[r] EXCEPT !.at = p]]
  BY Zenon DEF At
<1> QED
  BY <1>1, <1>2, RecAt, Zenon

LEMMA SubmitKeepsBillInv ==
  ASSUME BillInv, NEW r \in Records, NEW ask \in Asks[r], Submit(r, ask)
  PROVE  BillInv'
<1> USE DEF BillInv
<1>1. ask \in [id : Ids, print : Prints] /\ ask # NoBill
  BY UsageBillingAssumption
<1>2. PICK p \in {"queued", "start", "done"}, b \in BOOLEAN :
        /\ rec' = [rec EXCEPT ![r] = [at |-> p, pooled |-> b]]
        /\ \/ p # "done" /\ answer' = answer
           \/ p = "done" /\ answer' = [answer EXCEPT ![r] = "dropped"]
  <2>1. CASE rec' = [rec EXCEPT ![r] = [at |-> "queued", pooled |-> TRUE]] /\ UNCHANGED answer
    BY <2>1
  <2>2. CASE At(r, "start") /\ UNCHANGED answer
    BY <2>2, Moves DEF BillTypeOK, Places
  <2>3. CASE Ends(r, "dropped")
    BY <2>3, Moves DEF Ends, BillTypeOK, Places
  <2> QED
    BY <2>1, <2>2, <2>3 DEF Submit
<1>3. rec[r].at = "new" /\ bill' = [bill EXCEPT ![r] = ask] /\ UNCHANGED <<dedup, archive, spent, pool, down>>
  BY DEF Submit
<1>4. BillTypeOK'
  BY <1>1, <1>2, <1>3 DEF BillTypeOK, Places
<1>5. Unanswered'
  BY <1>2, <1>3 DEF Unanswered, BillTypeOK
<1>6. OneClaim'
  BY <1>2, <1>3 DEF OneClaim, BillTypeOK
<1>7. PayersAreThrough' /\ DeductingPaid'
  BY <1>2, <1>3 DEF PayersAreThrough, DeductingPaid, BillTypeOK
<1>8. SpentByPayers'
  BY <1>3, SameTables
<1> QED
  BY <1>4, <1>5, <1>6, <1>7, <1>8

\* How a record goes on when it changes neither table.
Turn(r, p) ==
    \/ /\ answer' = answer
       /\ \/ p = "start" /\ rec[r].at = "queued"
          \/ /\ p = "archive" /\ rec[r].at = "start"
             /\ Claiming(bill[r].id) = {} /\ dedup[bill[r].id] = NoRecord
          \/ p = "commit" /\ rec[r].at = "archive" /\ archive[bill[r].id] = NoRecord
          \/ p \in {"send", "fallback", "done"} /\ r \in Deducting
    \/ /\ p = "done" /\ rec[r].at \in {"start", "archive", "commit"}
       /\ \E a \in {"duplicate", "conflict", "failed"} : answer' = [answer EXCEPT ![r] = a]

LEMMA TurnKeepsBillInv ==
  ASSUME BillInv, NEW r \in Records, NEW p \in Places, At(r, p), Turn(r, p),
         UNCHANGED <<bill, dedup, archive, spent, pool, down>>
  PROVE  BillInv'
<1> USE DEF BillInv
<1>1. rec' = [rec EXCEPT ![r] = [at |-> p, pooled |-> rec[r].pooled]]
  BY Moves
<1>2. rec' \in [Records -> [at : Places, pooled : BOOLEAN]] /\ rec'[r].at = p
      /\ \A s \in Records \ {r} : rec'[s] = rec[s]
  BY <1>1 DEF BillTypeOK
<1>3. BillTypeOK'
  <2>1. \A s \in Deducting' : answer'[s] = "applied"
    BY <1>2 DEF Turn, BillTypeOK
  <2>2. rec[r].at # "new" /\ p # "new"
    BY DEF Turn
  <2>3. answer' \in [Records -> {"none", "applied", "duplicate", "conflict", "failed", "dropped"}]
    BY DEF Turn, BillTypeOK
  <2> QED
    BY <1>2, <2>1, <2>2, <2>3 DEF BillTypeOK
<1>4. Unanswered'
  BY <1>2 DEF Unanswered, BillTypeOK, Turn
<1>5. OneClaim'
  <2>1. CASE p = "archive"
    <3>1. \A s \in InTransaction : bill[s].id # bill[r].id
      BY <2>1 DEF Turn, Claiming
    <3>2. dedup[bill[r].id] = NoRecord
      BY <2>1 DEF Turn
    <3> QED
      BY <1>2, <2>1, <3>1, <3>2 DEF OneClaim
  <2>2. CASE p # "archive"
    <3>1. InTransaction' \subseteq InTransaction
      BY <1>2, <2>2 DEF Turn
    <3>2. p = "commit" => archive[bill[r].id] = NoRecord
      BY <2>2 DEF Turn
    <3> QED
      BY <1>2, <3>1, <3>2 DEF OneClaim
  <2> QED
    BY <2>1, <2>2
<1>6. PayersAreThrough'
  <2>1. r \in Before \/ p \in {"send", "fallback", "done"}
    BY DEF Turn
  <2>2. \A s \in Before' : s \in Before
    BY <1>2, <2>1 DEF Turn
  <2> QED
    BY <2>2 DEF PayersAreThrough
<1>7. DeductingPaid'
  BY <1>2 DEF DeductingPaid, Turn
<1>8. SpentByPayers'
  BY SameTables
<1> QED
  BY <1>3, <1>4, <1>5, <1>6, <1>7, <1>8

\* The steps of a record but its commit are turns.
LEMMA RecordTurns ==
  ASSUME BillInv, NEW r \in Records,
         \/ Start(r) \/ Claim(r) \/ CheckArchive(r) \/ Rollback(r)
         \/ Looks(r) \/ Sends(r) \/ FallsBack(r)
  PROVE  /\ UNCHANGED <<bill, dedup, archive, spent, pool, down>>
         /\ \E p \in Places : At(r, p) /\ Turn(r, p)
<1>1. CASE Start(r)
  BY <1>1 DEF Start, Turn, Places
<1>2. CASE Claim(r)
  BY <1>2 DEF Claim, Claimed, Ends, Turn, Places
<1>3. CASE CheckArchive(r)
  BY <1>3 DEF CheckArchive, Claimed, Ends, Turn, Places
<1>4. CASE Rollback(r)
  BY <1>4 DEF Rollback, Ends, Turn, Places
<1>5. CASE Looks(r)
  BY <1>5 DEF Looks, Turn, Places
<1>6. CASE Sends(r)
  BY <1>6 DEF Sends, Turn, Places
<1>7. CASE FallsBack(r)
  BY <1>7 DEF FallsBack, Turn, Places
<1> QED
  BY <1>1, <1>2, <1>3, <1>4, <1>5, <1>6, <1>7

\* A commit pays for an id nobody paid for.
LEMMA CommitPays ==
  ASSUME BillInv, NEW r \in Records, Commit(r)
  PROVE  /\ bill[r] \in [id : Ids, print : Prints] /\ bill[r] # NoBill
         /\ answer[r] = "none" /\ rec[r].at = "commit"
         /\ dedup[bill[r].id] = NoRecord /\ archive[bill[r].id] = NoRecord
         /\ dedup' = [dedup EXCEPT ![bill[r].id] = r] /\ spent' = spent + 1
         /\ UNCHANGED <<bill, archive, pool, down>>
         /\ \E a \in {"applied", "failed"} : answer' = [answer EXCEPT ![r] = a]
BY DEF Commit, Ends, BillInv, BillTypeOK, Unanswered, OneClaim

LEMMA CommitKeepsBillInv ==
  ASSUME BillInv, NEW r \in Records, Commit(r)
  PROVE  BillInv'
<1> USE DEF BillInv
<1> DEFINE i == bill[r].id
<1>1. /\ i \in Ids /\ rec[r].at = "commit" /\ bill[r] # NoBill
      /\ dedup[i] = NoRecord /\ archive[i] = NoRecord
      /\ dedup' = [dedup EXCEPT ![i] = r] /\ spent' = spent + 1
      /\ UNCHANGED <<bill, archive, pool, down>>
  BY CommitPays
<1>2. PICK p \in {"look", "done"} :
        /\ rec' = [rec EXCEPT ![r] = [at |-> p, pooled |-> rec[r].pooled]]
        /\ \/ p = "look" /\ answer' = [answer EXCEPT ![r] = "applied"]
           \/ p = "done" /\ answer' = [answer EXCEPT ![r] = "failed"]
  BY Moves DEF Commit, Ends, Places
<1>3. rec' \in [Records -> [at : Places, pooled : BOOLEAN]] /\ rec'[r].at = p
      /\ \A s \in Records \ {r} : rec'[s] = rec[s]
  BY <1>2 DEF BillTypeOK, Places
<1> HIDE DEF i
<1>4. BillTypeOK'
  <2>1. \A s \in Deducting' : answer'[s] = "applied"
    BY <1>2, <1>3 DEF BillTypeOK
  <2>2. dedup' \in [Ids -> Records \cup {NoRecord}]
        /\ \A j \in Ids : dedup'[j] = NoRecord \/ archive'[j] = NoRecord
    BY <1>1 DEF BillTypeOK
  <2>3. answer' \in [Records -> {"none", "applied", "duplicate", "conflict", "failed", "dropped"}]
    BY <1>2 DEF BillTypeOK
  <2> QED
    BY <1>1, <1>2, <1>3, <2>1, <2>2, <2>3 DEF BillTypeOK
<1>5. Unanswered'
  BY <1>2, <1>3 DEF Unanswered, BillTypeOK
<1>6. OneClaim'
  <2>1. InTransaction' = InTransaction \ {r}
    BY <1>2, <1>3
  <2>2. \A s \in InTransaction' : bill[s].id # i
    BY <1>1, <2>1 DEF OneClaim, i
  <2> QED
    BY <1>1, <1>2, <1>3, <2>1, <2>2 DEF OneClaim, BillTypeOK
<1>7. Before' = Before \ {r}
  BY <1>2, <1>3
<1>8. PayersAreThrough'
  BY <1>1, <1>7 DEF PayersAreThrough, BillTypeOK, i
<1>9. DeductingPaid'
  <2> SUFFICES ASSUME NEW s \in Deducting' PROVE Paid(s, bill[s].id)'
    BY <1>1 DEF DeductingPaid
  <2>1. CASE s = r
    BY <1>1, <2>1 DEF i, BillTypeOK
  <2>2. CASE s # r
    <3>1. s \in Deducting /\ Paid(s, bill[s].id) /\ bill[s].id \in Ids
      BY <1>3, <2>2 DEF DeductingPaid, BillTypeOK
    <3> QED
      BY <1>1, <3>1, UsageBillingAssumption DEF BillTypeOK
  <2> QED
    BY <2>1, <2>2
<1>10. SpentByPayers'
  <2>1. r \notin Payers
    BY <1>1 DEF Payers, PayersAreThrough
  <2>2. Payers' = Payers \cup {r}
    BY <1>1, UsageBillingAssumption DEF Payers, BillTypeOK
  <2>3. IsFiniteSet(Payers)
    BY UsageBillingAssumption, FS_Subset DEF Payers
  <2> QED
    BY <1>1, <2>1, <2>2, <2>3, FS_AddElement DEF SpentByPayers
<1> QED
  BY <1>4, <1>5, <1>6, <1>8, <1>9, <1>10

LEMMA MoveToArchiveKeepsBillInv ==
  ASSUME BillInv, NEW i \in Ids, MoveToArchive(i)
  PROVE  BillInv'
<1> USE DEF BillInv
<1>1. /\ dedup[i] # NoRecord /\ archive[i] = NoRecord
      /\ archive' = [archive EXCEPT ![i] = dedup[i]]
      /\ dedup' = [dedup EXCEPT ![i] = NoRecord]
      /\ UNCHANGED <<rec, bill, answer, spent, pool, down>>
  BY DEF MoveToArchive, BillTypeOK
<1>2. BillTypeOK'
  BY <1>1 DEF BillTypeOK
<1>3. \A s \in Records, j \in Ids : Paid(s, j)' <=> Paid(s, j)
  BY <1>1, UsageBillingAssumption DEF BillTypeOK
<1>4. Unanswered' /\ PayersAreThrough'
  BY <1>1, <1>3 DEF Unanswered, PayersAreThrough
<1>5. DeductingPaid'
  <2>1. \A s \in Deducting : bill[s].id \in Ids
    BY DEF BillTypeOK
  <2> QED
    BY <1>1, <1>3, <2>1 DEF DeductingPaid
<1>6. OneClaim'
  <2>1. \A s \in InTransaction : bill[s].id \in Ids /\ bill[s].id # i
    BY <1>1 DEF OneClaim, BillTypeOK
  <2> QED
    BY <1>1, <2>1 DEF OneClaim, BillTypeOK
<1>7. Payers' = Payers
  BY <1>3 DEF Payers
<1> QED
  BY <1>1, <1>2, <1>4, <1>5, <1>6, <1>7 DEF SpentByPayers

\* After a crash every record is new or done.
LEMMA CrashEnds ==
  ASSUME BillInv, Crash
  PROVE  \A r \in Records :
            /\ rec'[r] = IF rec[r].at = "new" THEN rec[r]
                         ELSE [at |-> "done", pooled |-> rec[r].pooled]
            /\ rec'[r].at = IF rec[r].at = "new" THEN "new" ELSE "done"
<1> TAKE r \in Records
<1>1. rec'[r] = IF rec[r].at = "new" THEN rec[r]
                ELSE [at |-> "done", pooled |-> rec[r].pooled]
  BY RecAt DEF Crash, BillInv, BillTypeOK
<1>2. CASE rec[r].at = "new"
  BY <1>1, <1>2
<1>3. CASE rec[r].at # "new"
  <2>1. rec'[r] = [at |-> "done", pooled |-> rec[r].pooled]
    BY <1>1, <1>3
  <2> QED
    BY <1>3, <2>1
<1> QED
  BY <1>2, <1>3

LEMMA CrashKeepsBillInv ==
  ASSUME BillInv, Crash
  PROVE  BillInv'
<1> USE DEF BillInv
<1>1. UNCHANGED <<bill, dedup, archive, spent, pool, down>>
  BY DEF Crash
<1>2. \A r \in Records :
            /\ rec'[r] = IF rec[r].at = "new" THEN rec[r]
                         ELSE [at |-> "done", pooled |-> rec[r].pooled]
            /\ rec'[r].at = IF rec[r].at = "new" THEN "new" ELSE "done"
  BY CrashEnds
<1>3. rec' \in [Records -> [at : Places, pooled : BOOLEAN]]
  <2>1. rec' = [r \in Records |-> rec'[r]]
    BY DEF Crash
  <2> QED
    BY <1>2, <2>1 DEF BillTypeOK, Places
<1>4. answer' = [r \in Records |-> IF rec[r].at # "new" /\ answer[r] = "none"
                                   THEN "failed" ELSE answer[r]]
  BY DEF Crash
<1>5. \A r \in Records : rec'[r].at = IF rec[r].at = "new" THEN "new" ELSE "done"
  BY <1>2
<1>6. InTransaction' = {} /\ Deducting' = {}
  BY <1>5
<1>7. BillTypeOK'
  BY <1>1, <1>2, <1>3, <1>4, <1>6 DEF BillTypeOK
<1>8. Unanswered' /\ OneClaim' /\ DeductingPaid'
  BY <1>1, <1>4, <1>6, <1>5 DEF Unanswered, OneClaim, DeductingPaid
<1>9. PayersAreThrough'
  <2>1. Before' \subseteq Before
    BY <1>5
  <2>2. \A r \in Records, i \in Ids : Paid(r, i)' <=> Paid(r, i)
    BY <1>1
  <2> HIDE DEF Before, Paid
  <2> QED
    BY <1>1, <2>1, <2>2 DEF PayersAreThrough
<1>10. SpentByPayers'
  BY <1>1, SameTables
<1> QED
  BY <1>7, <1>8, <1>9, <1>10

LEMMA NextKeepsBillInv ==
  ASSUME BillInv, [Next]_vars
  PROVE  BillInv'
<1>1. ASSUME NEW r \in Records, RecordStep(r) PROVE BillInv'
  <2>1. CASE Commit(r)
    BY <2>1, CommitKeepsBillInv
  <2>2. CASE ~ Commit(r)
    BY <1>1, <2>2, RecordTurns, TurnKeepsBillInv DEF RecordStep
  <2> QED
    BY <2>1, <2>2
<1>2. ASSUME NEW r \in Records, NEW ask \in Asks[r], Submit(r, ask) PROVE BillInv'
  BY <1>2, SubmitKeepsBillInv
<1>3. ASSUME NEW i \in Ids, MoveToArchive(i) PROVE BillInv'
  BY <1>3, MoveToArchiveKeepsBillInv
<1>4. CASE UNCHANGED billVars
  BY <1>4, BillInvFrame DEF billVars, BillInv, BillTypeOK
<1>5. CASE Shutdown \/ StopPool
  BY <1>5, BillInvFrame DEF Shutdown, StopPool, BillInv, BillTypeOK
<1>6. CASE Crash
  BY <1>6, CrashKeepsBillInv
<1>7. CASE UNCHANGED vars
  BY <1>7, <1>4 DEF vars
<1>8. CASE \/ \E l \in Loads : CheckBalance(l) \/ LoadStep(l)
           \/ CacheStep \/ CacheIsInvalidated \/ StopCache
  BY <1>8, <1>4 DEF CheckBalance, LoadStep, CacheStep, CacheIsInvalidated, StopCache
<1>9. ASSUME NEW r \in Records, FallsBackAgain(r) PROVE UNCHANGED billVars
  BY <1>9 DEF FallsBackAgain
<1> QED
  BY <1>1, <1>2, <1>3, <1>4, <1>5, <1>6, <1>7, <1>8, <1>9 DEF Next

LEMMA AlwaysBillInv == Spec => []BillInv
BY InitBillInv, NextKeepsBillInv, PTL DEF Spec

-------------------------------------------------------------------------------
(***************************************************************************)
(* The refinement of UsageLedger, step by step.                            *)
(***************************************************************************)
payerBar == [i \in Ids |-> IF dedup[i] = NoRecord THEN archive[i] ELSE dedup[i]]

LEMMA InitIsLedgerInit == Init => Ledger!Init
BY DEF Init, Ledger!Init

LEMMA SubmitIsAsk ==
  ASSUME BillInv, NEW r \in Records, NEW ask \in Asks[r], Submit(r, ask)
  PROVE  Ledger!Ask(r)
<1>1. PICK i \in Ids, p \in Prints : ask = [id |-> i, print |-> p]
  BY UsageBillingAssumption
<1>2. rec[r].at = "new" /\ bill[r] = NoBill /\ bill' = [bill EXCEPT ![r] = ask]
      /\ UNCHANGED <<dedup, archive, spent>>
  BY DEF Submit, BillInv, BillTypeOK
<1>3. answer' = answer \/ answer' = [answer EXCEPT ![r] = "dropped"]
  BY DEF Submit, Ends
<1>4. \E a \in {"none", "dropped"} : answer' = [answer EXCEPT ![r] = a]
  <2>1. answer[r] = "none" /\ answer = [answer EXCEPT ![r] = answer[r]]
    BY <1>2 DEF BillInv, BillTypeOK, Unanswered
  <2> QED
    BY <1>3, <2>1
<1> QED
  BY <1>1, <1>2, <1>4 DEF Ledger!Ask

LEMMA CommitIsCharge ==
  ASSUME BillInv, NEW r \in Records, Commit(r)
  PROVE  Ledger!Charge(r)
<1> DEFINE i == bill[r].id
<1>1. /\ i \in Ids /\ bill[r] # NoBill /\ answer[r] = "none"
      /\ dedup[i] = NoRecord /\ archive[i] = NoRecord
      /\ dedup' = [dedup EXCEPT ![i] = r] /\ spent' = spent + 1
      /\ UNCHANGED <<bill, archive>>
      /\ \E a \in {"applied", "failed"} : answer' = [answer EXCEPT ![r] = a]
  BY CommitPays
<1>2. payerBar' = [payerBar EXCEPT ![i] = r] /\ payerBar[i] = NoRecord
  BY <1>1, UsageBillingAssumption DEF payerBar, BillInv, BillTypeOK
<1> QED
  BY <1>1, <1>2 DEF Ledger!Charge, payerBar

\* Whoever finds its id claimed is told what the payer's fingerprint says.
LEMMA ClaimedIsRefuse ==
  ASSUME BillInv, NEW r \in Records, rec[r].at \in {"start", "archive"},
         NEW other \in Records, payerBar[bill[r].id] = other,
         Claimed(r, other), UNCHANGED <<bill, dedup, archive, spent>>
  PROVE  Ledger!Refuse(r)
<1>1. bill[r] # NoBill /\ bill[r].id \in Ids /\ answer[r] = "none" /\ r \in Before
  BY DEF BillInv, BillTypeOK, Unanswered
<1>2. Paid(other, bill[r].id) /\ other # r
  BY <1>1 DEF payerBar, BillInv, PayersAreThrough
<1> QED
  BY <1>1, <1>2, UsageBillingAssumption DEF Ledger!Refuse, payerBar, Claimed, Ends

LEMMA FailsIsFail ==
  ASSUME BillInv, NEW S \in SUBSET {r \in Records : bill[r] # NoBill /\ answer[r] = "none"},
         answer' = [r \in Records |-> IF r \in S THEN "failed" ELSE answer[r]],
         UNCHANGED <<bill, dedup, archive, spent>>
  PROVE  [Ledger!Next]_(Ledger!vars)
<1>1. CASE S = {}
  <2>1. answer' = answer
    BY <1>1 DEF BillInv, BillTypeOK
  <2> QED
    BY <2>1 DEF Ledger!vars
<1>2. CASE S # {}
  BY <1>2 DEF Ledger!Next, Ledger!Fail
<1> QED
  BY <1>1, <1>2

\* Everything else changes nothing the ledger has.
LEMMA LedgerStutters ==
  ASSUME UNCHANGED <<bill, answer, dedup, archive, spent>>
  PROVE  UNCHANGED Ledger!vars
BY DEF Ledger!vars

LEMMA RecordStepIsLedgerStep ==
  ASSUME BillInv, NEW r \in Records, RecordStep(r)
  PROVE  [Ledger!Next]_(Ledger!vars)
<1>1. CASE Start(r) \/ Looks(r) \/ Sends(r) \/ FallsBack(r)
  BY <1>1, LedgerStutters DEF Start, Looks, Sends, FallsBack
<1>2. CASE Claim(r)
  <2>1. rec[r].at = "start" /\ bill[r].id \in Ids /\ UNCHANGED <<bill, dedup, archive, spent>>
    BY <1>2 DEF Claim, BillInv, BillTypeOK
  <2>2. CASE dedup[bill[r].id] = NoRecord
    BY <1>2, <2>1, <2>2, LedgerStutters DEF Claim
  <2>3. CASE dedup[bill[r].id] # NoRecord
    <3>1. dedup[bill[r].id] \in Records /\ payerBar[bill[r].id] = dedup[bill[r].id]
      BY <2>1, <2>3 DEF payerBar, BillInv, BillTypeOK
    <3> QED
      BY <1>2, <2>1, <2>3, <3>1, ClaimedIsRefuse DEF Claim, Ledger!Next
  <2> QED
    BY <2>2, <2>3
<1>3. CASE CheckArchive(r)
  <2>1. rec[r].at = "archive" /\ bill[r].id \in Ids /\ UNCHANGED <<bill, dedup, archive, spent>>
    BY <1>3 DEF CheckArchive, BillInv, BillTypeOK
  <2>2. CASE archive[bill[r].id] = NoRecord
    BY <1>3, <2>1, <2>2, LedgerStutters DEF CheckArchive
  <2>3. CASE archive[bill[r].id] # NoRecord
    <3>1. archive[bill[r].id] \in Records /\ payerBar[bill[r].id] = archive[bill[r].id]
      BY <2>1, <2>3 DEF payerBar, BillInv, BillTypeOK
    <3> QED
      BY <1>3, <2>1, <2>3, <3>1, ClaimedIsRefuse DEF CheckArchive, Ledger!Next
  <2> QED
    BY <2>2, <2>3
<1>4. CASE Commit(r)
  BY <1>4, CommitIsCharge DEF Ledger!Next
<1>5. CASE Rollback(r)
  <2>1. bill[r] # NoBill /\ answer[r] = "none" /\ UNCHANGED <<bill, dedup, archive, spent>>
        /\ answer' = [answer EXCEPT ![r] = "failed"]
    BY <1>5 DEF Rollback, Ends, BillInv, BillTypeOK, Unanswered
  <2>2. answer' = [s \in Records |-> IF s \in {r} THEN "failed" ELSE answer[s]]
    BY <2>1 DEF BillInv, BillTypeOK
  <2> QED
    BY <2>1, <2>2, FailsIsFail
<1> QED
  BY <1>1, <1>2, <1>3, <1>4, <1>5 DEF RecordStep

LEMMA NextIsLedgerNext ==
  ASSUME BillInv, [Next]_vars
  PROVE  [Ledger!Next]_(Ledger!vars)
<1>1. ASSUME NEW r \in Records, RecordStep(r) PROVE [Ledger!Next]_(Ledger!vars)
  BY <1>1, RecordStepIsLedgerStep
<1>2. ASSUME NEW r \in Records, NEW ask \in Asks[r], Submit(r, ask)
      PROVE [Ledger!Next]_(Ledger!vars)
  BY <1>2, SubmitIsAsk DEF Ledger!Next
<1>3. ASSUME NEW i \in Ids, MoveToArchive(i) PROVE UNCHANGED Ledger!vars
  <2>1. payerBar' = payerBar
    BY <1>3, UsageBillingAssumption DEF payerBar, MoveToArchive, BillInv, BillTypeOK
  <2> QED
    BY <1>3, <2>1 DEF MoveToArchive, Ledger!vars, payerBar
<1>4. CASE UNCHANGED billVars
  BY <1>4, LedgerStutters DEF billVars
<1>5. CASE Shutdown \/ StopPool
  BY <1>5, LedgerStutters DEF Shutdown, StopPool
<1>6. CASE Crash
  <2> DEFINE S == {r \in Records : rec[r].at # "new" /\ answer[r] = "none"}
  <2>1. S \in SUBSET {r \in Records : bill[r] # NoBill /\ answer[r] = "none"}
    BY DEF BillInv, BillTypeOK
  <2>2. answer' = [r \in Records |-> IF r \in S THEN "failed" ELSE answer[r]]
        /\ UNCHANGED <<bill, dedup, archive, spent>>
    BY <1>6 DEF Crash
  <2> QED
    BY <2>1, <2>2, FailsIsFail
<1>7. CASE UNCHANGED vars
  BY <1>7, <1>4 DEF vars
<1>8. CASE \/ \E l \in Loads : CheckBalance(l) \/ LoadStep(l)
           \/ CacheStep \/ CacheIsInvalidated \/ StopCache
  BY <1>8, <1>4 DEF CheckBalance, LoadStep, CacheStep, CacheIsInvalidated, StopCache
<1>9. ASSUME NEW r \in Records, FallsBackAgain(r) PROVE UNCHANGED billVars
  BY <1>9 DEF FallsBackAgain
<1> QED
  BY <1>1, <1>2, <1>3, <1>4, <1>5, <1>6, <1>7, <1>8, <1>9 DEF Next

\* Whatever is queued, repeated, archived, rolled back, lost or answered to
\* nobody, the billing transactions do what the ledger promises: an id is paid
\* once, and every record is told truly whether it paid, repeats or conflicts.
THEOREM ImplementsLedger == Spec => BilledAsLedger
<1>1. BillInv /\ [Next]_vars => [Ledger!Next]_(Ledger!vars)
  BY NextIsLedgerNext
<1> QED
  BY <1>1, InitIsLedgerInit, AlwaysBillInv, PTL DEF Spec, BilledAsLedger, Ledger!Spec

-------------------------------------------------------------------------------
(***************************************************************************)
(* The cached balance.  First what a step does to it, whatever the cause.  *)
(***************************************************************************)
LEMMA PendingIs ==
  /\ Pending = deducts \cup WithRecord
  /\ Pending' = deducts' \cup WithRecord'
BY DEF Pending, WithRecord

LEMMA InitCacheInv == Init => CacheInv
<1> SUFFICES ASSUME Init PROVE CacheInv
  OBVIOUS
<1>1. cached = NoEntry /\ deducts = {} /\ load = [l \in Loads |-> NoLoad] /\ channel = "open"
      /\ upsets = 0 /\ drifted = {}
  BY DEF Init, CacheInit
<1>2. Deducting = {} /\ Pending = {} /\ WithRecord = {}
  BY <1>1, PendingIs DEF Init, WithRecord
<1>3. CacheTypeOK
  BY <1>1, BalanceCacheAssumption DEF CacheTypeOK, NoLoad, Channels
<1>4. Outstanding = {}
  BY <1>1 DEF Outstanding, NoLoad
<1>5. OneDeduction /\ CountedOnce /\ RoomForOneMore
  BY <1>1, <1>2, FS_EmptySet DEF OneDeduction, CountedOnce, RoomForOneMore
<1>6. UnchargedUncounted
  BY <1>1 DEF UnchargedUncounted, NoLoad
<1> QED
  BY <1>2, <1>3, <1>4, <1>5, <1>6 DEF CacheInv, Overlapped, LoadsRight

\* The step changes neither the cache nor what it is owed.
LEMMA CacheQuiet ==
  ASSUME CacheInv, UNCHANGED <<cached, deducts, load, channel, drifted>>,
         upsets' \in upsets..MaxUpsets, Charged' = Charged, WithRecord' = WithRecord
  PROVE  CacheInv'
<1>1. Pending' = Pending /\ Outstanding' = Outstanding
  BY PendingIs DEF Outstanding
<1> QED
  BY <1>1 DEF CacheInv, CacheTypeOK, OneDeduction, UnchargedUncounted, RoomForOneMore,
              Overlapped, LoadsRight, CountedOnce

\* A new charge: its deduction is with its record, or lost and noted.
LEMMA CacheCharged ==
  ASSUME CacheInv, UNCHANGED <<cached, deducts, load, channel>>, upsets' \in upsets..MaxUpsets,
         NEW i \in Ids, i \notin Charged, Charged' = Charged \cup {i},
         \/ /\ WithRecord' = WithRecord \cup {i}
            /\ drifted' = IF Outstanding = {} THEN drifted ELSE drifted \cup {i}
         \/ WithRecord' = WithRecord /\ drifted' = drifted \cup {i}
  PROVE  CacheInv'
<1> USE DEF CacheInv
<1>1. Outstanding' = Outstanding
  BY DEF Outstanding
<1>2. Pending' = Pending \cup {i} \/ (Pending' = Pending /\ i \in drifted')
  BY PendingIs
<1>3. i \notin Pending
  BY DEF OneDeduction
<1>4. CacheTypeOK'
  BY DEF CacheTypeOK
<1>5. OneDeduction'
  BY <1>2, <1>3, PendingIs DEF OneDeduction
<1>6. UnchargedUncounted' /\ RoomForOneMore'
  <2>1. UnchargedUncounted'
    BY DEF UnchargedUncounted
  <2>2. upsets \in Nat /\ upsets' \in Nat /\ upsets <= upsets'
    BY BalanceCacheAssumption DEF CacheTypeOK
  <2>3. cached # NoEntry => cached[i] = 0 /\ \A j \in Ids : cached[j] \in Nat
    BY DEF UnchargedUncounted, CacheTypeOK
  <2>4. \A j \in Ids \ {i} : j \in Pending' => j \in Pending
    BY <1>2
  <2>5. cached # NoEntry => cached[i] <= (IF i \in Pending' THEN 1 ELSE 2) + upsets'
    BY <2>2, <2>3
  <2>6. cached # NoEntry =>
          \A j \in Ids \ {i} : cached[j] <= (IF j \in Pending' THEN 1 ELSE 2) + upsets'
    BY <1>2, <2>2, <2>3, <2>4 DEF RoomForOneMore
  <2> QED
    BY <2>1, <2>5, <2>6 DEF RoomForOneMore
<1>7. Overlapped'
  BY <1>1, <1>2 DEF Overlapped
<1>8. LoadsRight'
  BY <1>1, <1>2, <1>3 DEF LoadsRight, Overlapped
<1>9. CountedOnce'
  BY <1>2, <1>3 DEF CountedOnce, UnchargedUncounted
<1> QED
  BY <1>4, <1>5, <1>6, <1>7, <1>8, <1>9

\* A deduction goes from its record into the queue.
LEMMA CacheEnqueued ==
  ASSUME CacheInv, UNCHANGED <<cached, load, channel, upsets, drifted>>, Charged' = Charged,
         channel # "gone", NEW i \in Ids, i \in WithRecord,
         WithRecord' = WithRecord \ {i}, deducts' = deducts \cup {i}
  PROVE  CacheInv'
<1> USE DEF CacheInv
<1>1. Pending' = Pending /\ Outstanding' = Outstanding
  BY PendingIs DEF Outstanding
<1>2. CacheTypeOK'
  BY DEF CacheTypeOK
<1>3. OneDeduction'
  BY <1>1, FS_AddElement DEF OneDeduction
<1> QED
  BY <1>1, <1>2, <1>3 DEF UnchargedUncounted, RoomForOneMore, Overlapped, LoadsRight, CountedOnce

\* Deductions that are lost are noted.
LEMMA CacheLost ==
  ASSUME CacheInv, UNCHANGED <<cached, channel>>, Charged' = Charged, upsets' \in upsets..MaxUpsets,
         load' = load \/ load' = [l \in Loads |-> NoLoad],
         WithRecord' \subseteq WithRecord, deducts' \subseteq deducts,
         drifted' \subseteq Ids, drifted \subseteq drifted', Pending \ Pending' \subseteq drifted'
  PROVE  CacheInv'
<1> USE DEF CacheInv
<1>1. Pending' \subseteq Pending
  BY PendingIs
<1>2. \A l \in Loads : load'[l] = load[l] \/ load'[l] = NoLoad
  OBVIOUS
<1>3. Outstanding' \subseteq Outstanding /\ \A l \in Outstanding' : load'[l] = load[l]
  BY <1>2 DEF Outstanding, NoLoad
<1>4. CacheTypeOK'
  <2>1. load' \in [Loads -> [at : {"idle", "miss", "look", "send", "queued"},
                             counts : {NoEntry} \cup [Ids -> 0..1]]]
    BY DEF CacheTypeOK, NoLoad
  <2>2. \A l \in Loads : load'[l].at \in {"idle", "miss"} <=> load'[l].counts = NoEntry
    BY <1>2 DEF CacheTypeOK, NoLoad
  <2>3. \A l \in Loads : load'[l].at = "queued" => load[l].at = "queued"
    BY <1>2 DEF NoLoad
  <2> QED
    BY <2>1, <2>2, <2>3 DEF CacheTypeOK
<1>5. OneDeduction'
  BY <1>1, FS_Subset DEF OneDeduction
<1>6. UnchargedUncounted'
  BY <1>2 DEF UnchargedUncounted, NoLoad
<1>7. RoomForOneMore' /\ Overlapped'
  <2>1. Overlapped'
    BY <1>1, <1>3 DEF Overlapped
  <2>2. RoomForOneMore'
    BY <1>1, BalanceCacheAssumption DEF RoomForOneMore, CacheTypeOK
  <2> QED
    BY <2>1, <2>2
<1>8. LoadsRight'
  BY <1>1, <1>3 DEF LoadsRight
<1>9. CountedOnce'
  BY <1>1 DEF CountedOnce
<1> QED
  BY <1>4, <1>5, <1>6, <1>7, <1>8, <1>9

\* A deduction is counted in the entry, if there is one: once more when it will be
\* sent again.
LEMMA CacheDeducted ==
  ASSUME CacheInv, UNCHANGED <<load, channel>>, Charged' = Charged,
         NEW i \in Pending, cached' = Deducted(i),
         WithRecord' \subseteq WithRecord, deducts' \subseteq deducts,
         \/ /\ Pending' = Pending \ {i} /\ upsets' \in upsets..MaxUpsets
            /\ drifted' \in {drifted, drifted \cup {i}}
         \/ /\ Pending' = Pending /\ upsets' = upsets + 1 /\ upsets' <= MaxUpsets
            /\ drifted' = drifted \cup {i}
  PROVE  CacheInv'
<1> USE DEF CacheInv
<1>1. i \in Ids /\ i \in Charged
  BY DEF OneDeduction, Charged
<1>2. /\ MaxUpsets \in Nat /\ upsets \in Nat /\ upsets' \in 0..MaxUpsets /\ upsets <= upsets'
      /\ drifted \subseteq drifted' /\ drifted' \subseteq Ids
      /\ Pending' \subseteq Pending /\ (i \in drifted' \/ i \notin Pending')
  BY <1>1, BalanceCacheAssumption DEF CacheTypeOK
<1>3. cached # NoEntry => /\ cached \in [Ids -> 0..(2 + MaxUpsets)]
                          /\ cached' = [cached EXCEPT ![i] = @ + 1]
  BY DEF Deducted, CacheTypeOK
<1>4. cached # NoEntry => /\ cached'[i] = cached[i] + 1 /\ cached[i] \in Nat
                          /\ \A j \in Ids \ {i} : cached'[j] = cached[j]
  BY <1>1, <1>3
<1>5. cached # NoEntry => \A j \in Ids : cached'[j] <= (IF j \in Pending' THEN 1 ELSE 2) + upsets'
  <2> SUFFICES ASSUME cached # NoEntry, NEW j \in Ids
               PROVE  cached'[j] <= (IF j \in Pending' THEN 1 ELSE 2) + upsets'
    OBVIOUS
  <2>1. cached[j] \in Nat /\ cached[j] <= (IF j \in Pending THEN 1 ELSE 2) + upsets
    BY <1>3 DEF RoomForOneMore
  <2>2. CASE j = i
    BY <1>2, <1>4, <2>1, <2>2
  <2>3. CASE j # i
    BY <1>2, <1>4, <2>1, <2>3
  <2> QED
    BY <2>2, <2>3
<1>6. cached # NoEntry => cached' \in [Ids -> 0..(2 + MaxUpsets)]
  <2> SUFFICES ASSUME cached # NoEntry PROVE cached' \in [Ids -> 0..(2 + MaxUpsets)]
    OBVIOUS
  <2>1. \A j \in Ids : cached[j] \in Nat
    BY <1>3
  <2>2. \A j \in Ids : cached'[j] \in 0..(2 + MaxUpsets)
    BY <1>1, <1>2, <1>4, <1>5, <2>1
  <2> QED
    BY <1>3, <2>2
<1>7. (cached = NoEntry) <=> (cached' = NoEntry)
  BY <1>6, BalanceCacheAssumption DEF Deducted
<1>8. Outstanding' = Outstanding
  BY DEF Outstanding
<1>9. CacheTypeOK'
  BY <1>2, <1>6, <1>7 DEF CacheTypeOK
<1>10. OneDeduction'
  BY <1>2, FS_Subset DEF OneDeduction
<1>11. UnchargedUncounted'
  BY <1>1, <1>4, <1>7 DEF UnchargedUncounted
<1>12. RoomForOneMore'
  BY <1>5, <1>7 DEF RoomForOneMore
<1>13. Overlapped'
  BY <1>2, <1>8 DEF Overlapped
<1>14. LoadsRight'
  BY <1>2, <1>8 DEF LoadsRight, Overlapped
<1>15. CountedOnce'
  BY <1>1, <1>2, <1>4, <1>7 DEF CountedOnce
<1> QED
  BY <1>9, <1>10, <1>11, <1>12, <1>13, <1>14, <1>15

\* The entry is gone.
LEMMA CacheForgotten ==
  ASSUME CacheInv, UNCHANGED <<deducts, load, channel, drifted>>, cached' = NoEntry,
         upsets' \in upsets..MaxUpsets, Charged' = Charged, WithRecord' = WithRecord
  PROVE  CacheInv'
<1>1. Pending' = Pending /\ Outstanding' = Outstanding
  BY PendingIs DEF Outstanding
<1> QED
  BY <1>1 DEF CacheInv, CacheTypeOK, OneDeduction, UnchargedUncounted, RoomForOneMore,
              Overlapped, LoadsRight, CountedOnce

LoadTypes == [at : {"idle", "miss", "look", "send", "queued"}, counts : {NoEntry} \cup [Ids -> 0..1]]

\* A load goes on, with the counts it has or with none.
LEMMA CacheLoadMoves ==
  ASSUME CacheInv, UNCHANGED <<cached, deducts, channel, drifted>>,
         upsets' \in upsets..MaxUpsets, Charged' = Charged, WithRecord' = WithRecord,
         NEW l \in Loads, NEW x \in LoadTypes, load' = [load EXCEPT ![l] = x],
         \/ x = NoLoad
         \/ x.at = "miss" /\ x.counts = NoEntry
         \/ l \in Outstanding /\ x.at \in {"send", "queued"} /\ x.counts = load[l].counts,
         x.at = "queued" => channel # "gone"
  PROVE  CacheInv'
<1> USE DEF CacheInv
<1>1. Pending' = Pending
  BY PendingIs
<1>2. load \in [Loads -> LoadTypes] /\ load' \in [Loads -> LoadTypes] /\ load'[l] = x
      /\ \A m \in Loads \ {l} : load'[m] = load[m]
  BY DEF CacheTypeOK, LoadTypes
<1>3. Outstanding' \subseteq Outstanding
      /\ \A m \in Outstanding' : load'[m].counts = load[m].counts
  BY <1>2 DEF Outstanding, NoLoad
<1>4. \A m \in Loads : load'[m].counts \in {NoEntry, load[m].counts}
  BY <1>2 DEF NoLoad
<1>5. CacheTypeOK'
  <2>1. x.at \in {"idle", "miss"} <=> x.counts = NoEntry
    BY <1>2 DEF CacheTypeOK, NoLoad, Outstanding
  <2>2. \A m \in Loads : load'[m].at \in {"idle", "miss"} <=> load'[m].counts = NoEntry
    BY <1>2, <2>1 DEF CacheTypeOK
  <2>3. channel = "gone" => \A m \in Loads : load'[m].at # "queued"
    BY <1>2 DEF CacheTypeOK
  <2> QED
    BY <1>2, <2>2, <2>3 DEF CacheTypeOK, LoadTypes
<1>6. OneDeduction' /\ RoomForOneMore' /\ CountedOnce'
  <2>1. OneDeduction' /\ CountedOnce'
    BY <1>1 DEF OneDeduction, CountedOnce
  <2>2. RoomForOneMore'
    BY <1>1, BalanceCacheAssumption DEF RoomForOneMore, CacheTypeOK
  <2> QED
    BY <2>1, <2>2
<1>7. UnchargedUncounted'
  BY <1>4 DEF UnchargedUncounted
<1>8. Overlapped' /\ LoadsRight'
  BY <1>1, <1>3 DEF Overlapped, LoadsRight
<1> QED
  BY <1>5, <1>6, <1>7, <1>8

LEMMA LoadAt ==
  ASSUME NEW x \in LoadTypes, NEW p
  PROVE  [x EXCEPT !.at = p] = [at |-> p, counts |-> x.counts]
BY SMT DEF LoadTypes

\* A balance read from the database counts every charge the database has.
LEMMA CacheLoaded ==
  ASSUME CacheInv, UNCHANGED <<cached, deducts, channel, upsets>>,
         Charged' = Charged, WithRecord' = WithRecord, drifted' = drifted \cup Pending,
         NEW l \in Loads,
         load' = [load EXCEPT ![l] = [at |-> "look",
                                      counts |-> [i \in Ids |-> IF i \in Charged THEN 1 ELSE 0]]]
  PROVE  CacheInv'
<1> USE DEF CacheInv
<1> DEFINE read == [i \in Ids |-> IF i \in Charged THEN 1 ELSE 0]
<1>1. Pending' = Pending
  BY PendingIs
<1>2. read \in [Ids -> 0..1] /\ read # NoEntry
  <2>1. read \in [Ids -> 0..1]
    OBVIOUS
  <2>2. read \in [Ids -> 0..(2 + MaxUpsets)]
    BY BalanceCacheAssumption
  <2> QED
    BY <2>1, <2>2, BalanceCacheAssumption
<1>3. /\ load'[l].at = "look" /\ load'[l].counts = read
      /\ \A m \in Loads \ {l} : load'[m] = load[m]
  BY DEF CacheTypeOK
<1>4. Pending \subseteq Ids
  BY DEF OneDeduction, Charged
<1>5. CacheTypeOK'
  <2>1. load' \in [Loads -> LoadTypes]
    BY <1>2 DEF CacheTypeOK, LoadTypes
  <2>2. \A m \in Loads : load'[m].at \in {"idle", "miss"} <=> load'[m].counts = NoEntry
    BY <1>2, <1>3 DEF CacheTypeOK
  <2>3. channel = "gone" => \A m \in Loads : load'[m].at # "queued"
    BY <1>3 DEF CacheTypeOK
  <2> QED
    BY <1>4, <2>1, <2>2, <2>3 DEF CacheTypeOK, LoadTypes
<1>6. OneDeduction' /\ RoomForOneMore' /\ CountedOnce' /\ Overlapped'
  BY <1>1 DEF OneDeduction, RoomForOneMore, CountedOnce, Overlapped
<1>7. UnchargedUncounted'
  BY <1>3 DEF UnchargedUncounted
<1>8. LoadsRight'
  <2> SUFFICES ASSUME NEW m \in Outstanding', NEW i \in Ids \ drifted'
               PROVE  load'[m].counts[i] = IF i \in Charged \ Pending THEN 1 ELSE 0
    BY <1>1 DEF LoadsRight
  <2>1. CASE m = l
    BY <1>3, <2>1
  <2>2. CASE m # l
    BY <1>3, <2>2 DEF LoadsRight, Outstanding
  <2> QED
    BY <2>1, <2>2
<1> QED
  BY <1>5, <1>6, <1>7, <1>8

\* A worker writes a loaded balance to the cache, and may write it again.
LEMMA CacheSet ==
  ASSUME CacheInv, UNCHANGED <<deducts, channel, drifted>>,
         upsets' \in upsets..MaxUpsets,
         Charged' = Charged, WithRecord' = WithRecord,
         NEW l \in Loads, load[l].at = "queued", cached' = load[l].counts,
         load' \in {load, [load EXCEPT ![l] = NoLoad]}
  PROVE  CacheInv'
<1> USE DEF CacheInv
<1>1. Pending' = Pending /\ l \in Outstanding
  BY PendingIs DEF Outstanding
<1>2. load \in [Loads -> LoadTypes] /\ load[l].counts \in [Ids -> 0..1] /\ load'[l] \in {load[l], NoLoad}
      /\ \A m \in Loads \ {l} : load'[m] = load[m]
  BY DEF CacheTypeOK, LoadTypes
<1>3. Outstanding' \subseteq Outstanding
      /\ \A m \in Outstanding' : load'[m].counts = load[m].counts
  BY <1>2 DEF Outstanding, NoLoad
<1>4. \A m \in Loads : load'[m].counts \in {NoEntry, load[m].counts}
  BY <1>2 DEF NoLoad
<1>5. CacheTypeOK'
  <2>1. load' \in [Loads -> LoadTypes]
    BY <1>2 DEF NoLoad, LoadTypes
  <2>2. \A m \in Loads : load'[m].at \in {"idle", "miss"} <=> load'[m].counts = NoEntry
    BY <1>2 DEF CacheTypeOK, NoLoad
  <2>3. channel = "gone" => \A m \in Loads : load'[m].at # "queued"
    BY <1>2 DEF CacheTypeOK, NoLoad
  <2>4. cached' \in [Ids -> 0..(2 + MaxUpsets)] /\ upsets' \in 0..MaxUpsets
    BY <1>2, BalanceCacheAssumption DEF CacheTypeOK
  <2> QED
    BY <2>1, <2>2, <2>3, <2>4 DEF CacheTypeOK, LoadTypes
<1>6. OneDeduction'
  BY <1>1 DEF OneDeduction
<1>7. RoomForOneMore'
  BY <1>1, <1>2 DEF RoomForOneMore, CacheTypeOK
<1>8. CountedOnce'
  BY <1>1 DEF CountedOnce, LoadsRight
<1>9. UnchargedUncounted'
  BY <1>2, <1>4 DEF UnchargedUncounted
<1>10. Overlapped' /\ LoadsRight'
  BY <1>1, <1>3 DEF Overlapped, LoadsRight
<1> QED
  BY <1>5, <1>6, <1>7, <1>8, <1>9, <1>10

\* The service stops, and forgets its queue only when that is empty.
LEMMA CacheStops ==
  ASSUME CacheInv, UNCHANGED <<cached, deducts, load, upsets, drifted>>,
         Charged' = Charged, WithRecord' = WithRecord,
         \/ channel # "gone" /\ channel' \in {"flagged", "closed"}
         \/ channel' = "gone" /\ Queued = 0
  PROVE  CacheInv'
<1> USE DEF CacheInv
<1>1. Pending' = Pending /\ Outstanding' = Outstanding
  BY PendingIs DEF Outstanding
<1>2. channel' = "gone" => deducts = {} /\ \A l \in Loads : load[l].at # "queued"
  <2> SUFFICES ASSUME Queued = 0
               PROVE  deducts = {} /\ \A l \in Loads : load[l].at # "queued"
    OBVIOUS
  <2> DEFINE Q == {l \in Loads : load[l].at = "queued"}
  <2>1. IsFiniteSet(deducts) /\ IsFiniteSet(Q)
    BY BalanceCacheAssumption, FS_Subset DEF OneDeduction
  <2>2. Cardinality(deducts) \in Nat /\ Cardinality(Q) \in Nat
    BY <2>1, FS_CardinalityType
  <2>3. Cardinality(deducts) = 0 /\ Cardinality(Q) = 0
    BY <2>2 DEF Queued
  <2>4. deducts = {} /\ Q = {}
    BY <2>1, <2>3, FS_EmptySet
  <2> QED
    BY <2>4
<1>3. CacheTypeOK'
  BY <1>2 DEF CacheTypeOK, Channels
<1> QED
  BY <1>1, <1>3 DEF OneDeduction, UnchargedUncounted, RoomForOneMore, Overlapped, LoadsRight,
                    CountedOnce

-------------------------------------------------------------------------------
(***************************************************************************)
(* Now which of these each action is.                                      *)
(***************************************************************************)
LEMMA UpsetBound ==
  ASSUME upsets \in 0..MaxUpsets, Upset \/ UNCHANGED upsets
  PROVE  upsets' \in upsets..MaxUpsets
BY BalanceCacheAssumption DEF Upset

\* A record that hands its deduction over leaves the others theirs.
LEMMA LeavesDeducting ==
  ASSUME BillInv, NEW r \in Deducting, NEW p \in Places \ {"look", "send", "fallback"},
         At(r, p), UNCHANGED bill
  PROVE  /\ bill[r].id \in Ids /\ bill[r].id \in WithRecord
         /\ WithRecord' = WithRecord \ {bill[r].id}
<1>1. rec' = [rec EXCEPT ![r] = [at |-> p, pooled |-> rec[r].pooled]]
  BY Moves
<1>2. rec'[r].at = p /\ \A s \in Records \ {r} : rec'[s] = rec[s]
  BY <1>1 DEF BillInv, BillTypeOK
<1>3. Deducting' = Deducting \ {r}
  BY <1>2
<1>4. \A s \in Deducting : bill[s].id \in Ids /\ Paid(s, bill[s].id)
  BY DEF BillInv, BillTypeOK, DeductingPaid
<1>5. \A s \in Deducting : bill[s].id = bill[r].id => s = r
  BY <1>4, UsageBillingAssumption DEF BillInv, BillTypeOK
<1> HIDE DEF Deducting
<1> QED
  BY <1>3, <1>4, <1>5 DEF WithRecord

LEMMA SameCharges ==
  ASSUME UNCHANGED <<dedup, archive>>
  PROVE  Charged' = Charged
BY DEF Charged

LEMMA BillStepsAreQuiet ==
  ASSUME BillInv, CacheInv, NEW r \in Records,
         \/ Start(r) \/ Claim(r) \/ CheckArchive(r) \/ Rollback(r) \/ Looks(r)
         \/ \E ask \in Asks[r] : Submit(r, ask)
  PROVE  CacheInv'
<1>1. UNCHANGED <<cached, deducts, load, channel, drifted>> /\ UNCHANGED <<dedup, archive>>
  BY DEF Start, Claim, CheckArchive, Rollback, Looks, Submit, cacheVars
<1>2. upsets' \in upsets..MaxUpsets
  BY UpsetBound DEF CacheInv, CacheTypeOK, Start, Claim, CheckArchive, Rollback, Looks, Submit, cacheVars
<1>3. /\ rec[r].at \in Places
      /\ \E p \in Places, b \in BOOLEAN :
           /\ rec' = [rec EXCEPT ![r] = [at |-> p, pooled |-> b]]
           /\ r \in Deducting <=> p \in {"look", "send", "fallback"}
      /\ bill' = bill \/ (r \notin Deducting /\ \E ask : bill' = [bill EXCEPT ![r] = ask])
  <2>1. rec[r].at \in Places /\ rec[r].pooled \in BOOLEAN
    BY DEF BillInv, BillTypeOK
  <2>2. CASE \E ask \in Asks[r] : Submit(r, ask)
    BY <2>1, <2>2, Moves DEF Submit, Ends, Places
  <2>3. CASE ~ \E ask \in Asks[r] : Submit(r, ask)
    <3>1. PICK p \in Places : At(r, p) /\ Turn(r, p) /\ UNCHANGED bill
                              /\ (r \in Deducting => p # "done")
      <4>1. CASE Looks(r)
        BY <4>1 DEF Looks, Turn, Places
      <4>2. CASE ~ Looks(r)
        BY <2>3, <4>2, RecordTurns DEF Start, Claim, CheckArchive, Rollback
      <4> QED
        BY <4>1, <4>2
    <3> QED
      BY <2>1, <3>1, Moves DEF Turn
  <2> QED
    BY <2>2, <2>3
<1>4. Deducting' = Deducting
  BY <1>3 DEF BillInv, BillTypeOK
<1>5. \A s \in Deducting : bill'[s] = bill[s]
  BY <1>3 DEF BillInv, BillTypeOK
<1>6. WithRecord' = WithRecord
  <2> HIDE DEF Deducting
  <2> QED
    BY <1>4, <1>5 DEF WithRecord
<1> QED
  BY <1>1, <1>2, <1>6, SameCharges, CacheQuiet

LEMMA CommitKeepsCacheInv ==
  ASSUME BillInv, CacheInv, NEW r \in Records, Commit(r)
  PROVE  CacheInv'
<1> DEFINE i == bill[r].id
<1>1. /\ i \in Ids /\ rec[r].at = "commit"
      /\ dedup[i] = NoRecord /\ archive[i] = NoRecord
      /\ dedup' = [dedup EXCEPT ![i] = r] /\ UNCHANGED <<bill, archive>>
  BY CommitPays
<1>2. i \notin Charged /\ Charged' = Charged \cup {i}
  BY <1>1, UsageBillingAssumption DEF Charged, BillInv, BillTypeOK
<1>3. UNCHANGED <<cached, deducts, load, channel>> /\ upsets' \in upsets..MaxUpsets
  BY UpsetBound DEF Commit, CacheInv, CacheTypeOK
<1>4. PICK p \in {"look", "done"} :
        /\ rec' = [rec EXCEPT ![r] = [at |-> p, pooled |-> rec[r].pooled]]
        /\ \/ p = "look" /\ drifted' = IF Outstanding = {} THEN drifted ELSE drifted \cup {i}
           \/ p = "done" /\ drifted' = drifted \cup {i}
  BY Moves DEF Commit, Ends, Places
<1>5. /\ rec'[r].at = p /\ \A s \in Records \ {r} : rec'[s] = rec[s]
  BY <1>4 DEF BillInv, BillTypeOK
<1>6. Deducting' = IF p = "look" THEN Deducting \cup {r} ELSE Deducting
  BY <1>1, <1>5
<1>7. WithRecord' = IF p = "look" THEN WithRecord \cup {i} ELSE WithRecord
  <2> HIDE DEF Deducting
  <2> QED
    BY <1>1, <1>6 DEF WithRecord
<1> HIDE DEF i
<1> QED
  BY <1>1, <1>2, <1>3, <1>4, <1>7, CacheCharged

LEMMA SendsKeepsCacheInv ==
  ASSUME BillInv, CacheInv, NEW r \in Records, Sends(r)
  PROVE  CacheInv'
<1> DEFINE i == bill[r].id
<1>1. /\ UNCHANGED <<cached, load, channel, upsets>> /\ UNCHANGED <<dedup, archive>>
      /\ UNCHANGED bill /\ r \in Deducting
  BY DEF Sends
<1>2. Charged' = Charged
  BY <1>1, SameCharges
<1>3. upsets' \in upsets..MaxUpsets /\ drifted \subseteq Ids
  BY <1>1 DEF CacheInv, CacheTypeOK
<1>4. \/ /\ At(r, "done") /\ deducts' = deducts \cup {i} /\ drifted' = drifted /\ channel # "gone"
      \/ /\ At(r, "done") /\ drifted' = drifted \cup {i} /\ deducts' = deducts
      \/ At(r, "fallback") /\ UNCHANGED <<deducts, drifted>>
  BY Zenon DEF Sends, CanSend
<1>5. CASE At(r, "done")
  <2>1. i \in Ids /\ i \in WithRecord /\ WithRecord' = WithRecord \ {i}
    BY <1>1, <1>5, LeavesDeducting DEF Places
  <2>2. CASE deducts' = deducts \cup {i} /\ drifted' = drifted /\ channel # "gone"
    BY <1>1, <1>2, <2>1, <2>2, CacheEnqueued
  <2>3. CASE drifted' = drifted \cup {i} /\ deducts' = deducts
    <3>1. Pending \ Pending' \subseteq {i}
      BY <2>1, <2>3, PendingIs
    <3> QED
      BY <1>1, <1>2, <1>3, <2>1, <2>3, <3>1, CacheLost
  <2>4. CASE At(r, "fallback")
    <3>1. rec'[r].at = "done" /\ rec'[r].at = "fallback"
      BY <1>5, <2>4, Moves DEF Places, BillInv, BillTypeOK
    <3> QED
      BY <3>1
  <2> QED
    BY <1>4, <2>2, <2>3, <2>4
<1>6. CASE At(r, "fallback") /\ UNCHANGED <<deducts, drifted>>
  <2>1. rec' = [rec EXCEPT ![r] = [at |-> "fallback", pooled |-> rec[r].pooled]]
    BY <1>6, Moves DEF Places
  <2>2. Deducting' = Deducting
    BY <1>1, <2>1 DEF BillInv, BillTypeOK
  <2>3. WithRecord' = WithRecord
    <3> HIDE DEF Deducting
    <3> QED
      BY <1>1, <2>2 DEF WithRecord
  <2> QED
    BY <1>1, <1>2, <1>3, <1>6, <2>3, CacheQuiet
<1> QED
  BY <1>4, <1>5, <1>6

\* Whoever calls deductBalanceScript, the deduction is counted, or noted as upset.
LEMMA DeductCallKeepsCacheInv ==
  ASSUME CacheInv, UNCHANGED <<load, channel>>, Charged' = Charged,
         NEW i \in Pending, DeductCall(i), Pending' = Pending \ {i},
         WithRecord' \subseteq WithRecord, deducts' \subseteq deducts
  PROVE  CacheInv'
<1>1. CASE cached' = Deducted(i) /\ UNCHANGED <<upsets, drifted>>
  <2>1. upsets' \in upsets..MaxUpsets
    BY <1>1, BalanceCacheAssumption DEF CacheInv, CacheTypeOK
  <2> QED
    BY <1>1, <2>1, CacheDeducted
<1>2. CASE Upset /\ cached' \in {cached, Deducted(i)} /\ drifted' = drifted \cup {i}
  <2>1. upsets' \in upsets..MaxUpsets /\ drifted' \subseteq Ids
    BY <1>2, UpsetBound DEF CacheInv, CacheTypeOK, OneDeduction, Charged
  <2>2. CASE cached' = cached
    BY <1>2, <2>1, <2>2, CacheLost
  <2>3. CASE cached' = Deducted(i)
    BY <1>2, <2>1, <2>3, CacheDeducted
  <2> QED
    BY <1>2, <2>2, <2>3
<1> QED
  BY <1>1, <1>2 DEF DeductCall

LEMMA DeductUnheardKeepsCacheInv ==
  ASSUME CacheInv, UNCHANGED <<load, channel, deducts>>, Charged' = Charged,
         WithRecord' = WithRecord, NEW i \in Pending, DeductUnheard(i)
  PROVE  CacheInv'
<1>1. Pending' = Pending
  BY PendingIs
<1>2. upsets' = upsets + 1 /\ upsets' <= MaxUpsets
  BY BalanceCacheAssumption DEF DeductUnheard, Upset, CacheInv, CacheTypeOK
<1> QED
  BY <1>1, <1>2, CacheDeducted DEF DeductUnheard

LEMMA FallsBackKeepsCacheInv ==
  ASSUME BillInv, CacheInv, NEW r \in Records, FallsBack(r)
  PROVE  CacheInv'
<1> DEFINE i == bill[r].id
<1>1. /\ UNCHANGED <<deducts, load, channel>> /\ UNCHANGED <<dedup, archive>> /\ UNCHANGED bill
      /\ r \in Deducting /\ At(r, "done") /\ DeductCall(i)
  BY DEF FallsBack
<1>2. i \in WithRecord /\ WithRecord' = WithRecord \ {i}
  BY <1>1, LeavesDeducting DEF Places
<1>3. i \in Pending /\ Pending' = Pending \ {i}
  BY <1>1, <1>2, PendingIs DEF CacheInv, OneDeduction
<1> QED
  BY <1>1, <1>2, <1>3, SameCharges, DeductCallKeepsCacheInv

LEMMA SameWithRecord ==
  ASSUME UNCHANGED <<rec, bill>>
  PROVE  WithRecord' = WithRecord
BY DEF WithRecord

\* Nothing of the cache's own doing touches a record or the database.
LEMMA CacheActionsKeepCacheInv ==
  ASSUME CacheInv, UNCHANGED <<rec, bill, dedup, archive>>,
         \/ \E l \in Loads : \/ Miss(l) \/ ReadBalance(l, Charged, Pending)
                             \/ LoadLooks(l) \/ LoadSends(l) \/ WorkerSets(l)
         \/ \E i \in Ids : WorkerDeducts(i) \/ WorkerDeductsAgain(i)
         \/ Expire \/ Invalidate \/ StopFlags \/ StopCloses \/ StopEnds
  PROVE  CacheInv'
<1>1. Charged' = Charged /\ WithRecord' = WithRecord
  BY SameCharges, SameWithRecord
<1>2. upsets \in 0..MaxUpsets /\ load \in [Loads -> LoadTypes] /\ NoLoad \in LoadTypes
  BY DEF CacheInv, CacheTypeOK, LoadTypes, NoLoad
<1>3. ASSUME NEW l \in Loads, Miss(l) PROVE CacheInv'
  <2>1. load' = [load EXCEPT ![l] = [load[l] EXCEPT !.at = "miss"]]
    BY <1>3, Zenon DEF Miss
  <2>2. [load[l] EXCEPT !.at = "miss"] = [at |-> "miss", counts |-> load[l].counts]
    BY <1>2, LoadAt
  <2>3. load[l].counts = NoEntry
    BY <1>3 DEF Miss, CacheInv, CacheTypeOK
  <2>4. UNCHANGED <<cached, deducts, channel, drifted>> /\ upsets' \in upsets..MaxUpsets
    BY <1>2, <1>3, UpsetBound DEF Miss
  <2>5. [at |-> "miss", counts |-> NoEntry] \in LoadTypes
    BY DEF LoadTypes
  <2> QED
    BY <1>1, <2>1, <2>2, <2>3, <2>4, <2>5, CacheLoadMoves
<1>4. ASSUME NEW l \in Loads, ReadBalance(l, Charged, Pending) PROVE CacheInv'
  <2>1. CASE Upset /\ load' = [load EXCEPT ![l] = NoLoad] /\ UNCHANGED drifted
    BY <1>1, <1>2, <1>4, <2>1, UpsetBound, CacheLoadMoves DEF ReadBalance, NoLoad
  <2>2. CASE ~ (Upset /\ load' = [load EXCEPT ![l] = NoLoad] /\ UNCHANGED drifted)
    BY <1>1, <1>4, <2>2, CacheLoaded DEF ReadBalance
  <2> QED
    BY <2>1, <2>2
<1>5. ASSUME NEW l \in Loads, LoadLooks(l) \/ LoadSends(l) PROVE CacheInv'
  <2>1. l \in Outstanding /\ UNCHANGED <<cached, deducts, channel, drifted>>
        /\ upsets' \in upsets..MaxUpsets
    BY <1>2, <1>5, BalanceCacheAssumption DEF LoadLooks, LoadSends, Outstanding
  <2>2. PICK x : /\ load' = [load EXCEPT ![l] = x]
                 /\ \/ x = NoLoad
                    \/ x = [load[l] EXCEPT !.at = "send"]
                    \/ x = [load[l] EXCEPT !.at = "queued"] /\ CanSend
    BY <1>5, Zenon DEF LoadLooks, LoadSends
  <2>3. \/ x = NoLoad
        \/ x = [at |-> "send", counts |-> load[l].counts]
        \/ x = [at |-> "queued", counts |-> load[l].counts] /\ CanSend
    BY <1>2, <2>2, LoadAt, Zenon
  <2>4. x \in LoadTypes /\ (x.at = "queued" => channel # "gone")
    BY <1>2, <2>3 DEF LoadTypes, CanSend, NoLoad
  <2>5. x = NoLoad \/ (x.at \in {"send", "queued"} /\ x.counts = load[l].counts)
    BY <2>3
  <2> QED
    BY <1>1, <1>2, <2>1, <2>2, <2>4, <2>5, CacheLoadMoves
<1>6. ASSUME NEW l \in Loads, WorkerSets(l) PROVE CacheInv'
  <2>1. UNCHANGED <<deducts, channel, drifted>> /\ upsets' \in upsets..MaxUpsets
        /\ load[l].at = "queued" /\ cached' \in {cached, load[l].counts}
        /\ load' \in {load, [load EXCEPT ![l] = NoLoad]}
    BY <1>2, <1>6, UpsetBound DEF WorkerSets
  <2>2. CASE cached' = load[l].counts
    BY <1>1, <2>1, <2>2, CacheSet
  <2>3. CASE cached' = cached /\ load' = [load EXCEPT ![l] = NoLoad]
    BY <1>1, <1>2, <2>1, <2>3, CacheLoadMoves DEF NoLoad
  <2>4. CASE cached' = cached /\ load' = load
    BY <1>1, <2>1, <2>4, CacheQuiet
  <2> QED
    BY <2>1, <2>2, <2>3, <2>4
<1>7. ASSUME NEW i \in Ids, WorkerDeducts(i) PROVE CacheInv'
  <2>1. i \in deducts /\ deducts' = deducts \ {i} /\ UNCHANGED <<load, channel>> /\ DeductCall(i)
    BY <1>7 DEF WorkerDeducts
  <2>2. i \in Pending /\ Pending' = Pending \ {i}
    BY <1>1, <2>1, PendingIs DEF CacheInv, OneDeduction
  <2> QED
    BY <1>1, <2>1, <2>2, DeductCallKeepsCacheInv
<1>10. ASSUME NEW i \in Ids, WorkerDeductsAgain(i) PROVE CacheInv'
  BY <1>1, <1>10, PendingIs, DeductUnheardKeepsCacheInv DEF WorkerDeductsAgain
<1>8. CASE Expire \/ Invalidate
  BY <1>1, <1>2, <1>8, UpsetBound, CacheForgotten DEF Expire, Invalidate
<1>9. CASE StopFlags \/ StopCloses \/ StopEnds
  BY <1>1, <1>9, CacheStops DEF StopFlags, StopCloses, StopEnds
<1> QED
  BY <1>3, <1>4, <1>5, <1>6, <1>7, <1>8, <1>9, <1>10

LEMMA CrashKeepsCacheInv ==
  ASSUME BillInv, CacheInv, Crash
  PROVE  CacheInv'
<1>1. /\ UNCHANGED <<cached, channel>> /\ UNCHANGED <<dedup, archive>>
      /\ deducts' = {} /\ load' = [l \in Loads |-> NoLoad]
      /\ drifted' = drifted \cup Pending
      /\ upsets' \in upsets..MaxUpsets
  BY UpsetBound DEF Crash, CacheInv, CacheTypeOK
<1>2. \A r \in Records : rec'[r].at \in {"new", "done"}
  BY CrashEnds
<1>3. Deducting' = {}
  BY <1>2
<1>4. WithRecord' = {}
  BY <1>3 DEF WithRecord
<1>5. drifted' \subseteq Ids
  BY <1>1 DEF CacheInv, CacheTypeOK, OneDeduction, Charged
<1> QED
  BY <1>1, <1>4, <1>5, SameCharges, CacheLost

LEMMA NextKeepsCacheInv ==
  ASSUME BillInv, CacheInv, [Next]_vars
  PROVE  CacheInv'
<1>1. ASSUME NEW r \in Records, RecordStep(r) \/ \E ask \in Asks[r] : Submit(r, ask)
      PROVE  CacheInv'
  BY <1>1, BillStepsAreQuiet, CommitKeepsCacheInv, SendsKeepsCacheInv, FallsBackKeepsCacheInv
     DEF RecordStep
<1>2. ASSUME NEW i \in Ids, MoveToArchive(i) PROVE CacheInv'
  <2>1. Charged' = Charged
    BY <1>2, UsageBillingAssumption DEF MoveToArchive, Charged, BillInv, BillTypeOK
  <2> QED
    BY <1>2, <2>1, SameWithRecord, CacheQuiet DEF MoveToArchive, cacheVars, CacheInv, CacheTypeOK
<1>3. CASE \/ \E l \in Loads : CheckBalance(l) \/ LoadStep(l)
           \/ CacheStep \/ CacheIsInvalidated \/ StopCache
  BY <1>3, CacheActionsKeepCacheInv
     DEF CheckBalance, LoadStep, CacheStep, CacheWorker, CacheIsInvalidated, StopCache, billVars
<1>4. CASE Shutdown \/ StopPool \/ UNCHANGED vars
  BY <1>4, SameWithRecord, SameCharges, CacheQuiet
     DEF Shutdown, StopPool, vars, cacheVars, billVars, CacheInv, CacheTypeOK
<1>5. CASE Crash
  BY <1>5, CrashKeepsCacheInv
<1>6. ASSUME NEW r \in Records, FallsBackAgain(r) PROVE CacheInv'
  <2>1. bill[r].id \in Pending
    BY <1>6, PendingIs DEF FallsBackAgain, WithRecord
  <2> QED
    BY <1>6, <2>1, SameCharges, SameWithRecord, DeductUnheardKeepsCacheInv
       DEF FallsBackAgain, billVars
<1> QED
  BY <1>1, <1>2, <1>3, <1>4, <1>5, <1>6 DEF Next

LEMMA AlwaysIInv == Spec => []IInv
<1>1. Init => IInv
  BY InitBillInv, InitCacheInv DEF IInv
<1>2. IInv /\ [Next]_vars => IInv'
  BY NextKeepsBillInv, NextKeepsCacheInv DEF IInv
<1> QED
  BY <1>1, <1>2, PTL DEF Spec

\* The state stays in its types: among them that an id is in one of the two
\* tables of claims at most, and that no more is spent than there are records.
THEOREM TypeCorrect == Spec => []TypeOK
<1>1. BillInv /\ CacheInv => TypeOK
  <2> SUFFICES ASSUME BillInv, CacheInv PROVE TypeOK
    OBVIOUS
  <2>1. Payers \subseteq Records
    BY DEF Payers
  <2>2. Cardinality(Payers) \in Nat /\ Cardinality(Records) \in Nat
        /\ Cardinality(Payers) <= Cardinality(Records)
    BY <2>1, UsageBillingAssumption, FS_Subset, FS_CardinalityType
  <2>3. spent \in 0..Cardinality(Records)
    BY <2>2 DEF BillInv, SpentByPayers
  <2>4. CacheTypeOK
    BY DEF CacheInv
  <2> QED
    BY <2>3, <2>4 DEF TypeOK, BillInv, BillTypeOK
<1> QED
  BY <1>1, AlwaysIInv, PTL DEF IInv

\* The cached balance counts a charge exactly when its deduction is through,
\* whichever way the deduction took and whatever expired, was invalidated or
\* failed in between, for every charge no load overlapped and whose deduction
\* neither failed nor was sent again.
THEOREM CountsOnce == Spec => []CountedOnce
<1>1. IInv => CountedOnce
  BY DEF IInv, CacheInv
<1> QED
  BY <1>1, AlwaysIInv, PTL
================================================================================
