------------------------------ MODULE UsageLedger ------------------------------
(***************************************************************************)
(* What billing promises, without queues, transactions or caches: the cost *)
(* of a request id is taken off the balance once, by one of the records    *)
(* that ask for it ("at most once", service/usage_billing.go), and what a  *)
(* record is answered is true.                                             *)
(***************************************************************************)
EXTENDS Naturals

CONSTANTS Records, Ids, Prints, NoBill, NoRecord

VARIABLES
    bill,     \* the id and the fingerprint a record asks to be billed
    payer,    \* the record that paid for an id
    spent,    \* what has been taken off the balance
    answer

vars == <<bill, payer, spent, answer>>

Answers == {"none", "applied", "duplicate", "conflict", "failed", "dropped"}

Init ==
    /\ bill = [r \in Records |-> NoBill]
    /\ payer = [i \in Ids |-> NoRecord]
    /\ spent = 0
    /\ answer = [r \in Records |-> "none"]

Ask(r) ==
    /\ bill[r] = NoBill
    /\ \E i \in Ids, p \in Prints : bill' = [bill EXCEPT ![r] = [id |-> i, print |-> p]]
    /\ \E a \in {"none", "dropped"} : answer' = [answer EXCEPT ![r] = a]
    /\ UNCHANGED <<payer, spent>>

\* The record may hear that this failed: the reply is lost.
Charge(r) ==
    /\ bill[r] # NoBill /\ answer[r] = "none"
    /\ payer[bill[r].id] = NoRecord
    /\ payer' = [payer EXCEPT ![bill[r].id] = r]
    /\ spent' = spent + 1
    /\ \E a \in {"applied", "failed"} : answer' = [answer EXCEPT ![r] = a]
    /\ UNCHANGED bill

\* Another record has paid, with the same fingerprint or with a different one.
Refuse(r) ==
    LET other == payer[bill[r].id] IN
    /\ bill[r] # NoBill /\ answer[r] = "none"
    /\ other \notin {NoRecord, r}
    /\ answer' = [answer EXCEPT ![r] = IF bill[other].print = bill[r].print
                                       THEN "duplicate" ELSE "conflict"]
    /\ UNCHANGED <<bill, payer, spent>>

\* Calls fail, and a process dies with the records it has.
Fail ==
    /\ \E S \in SUBSET {r \in Records : bill[r] # NoBill /\ answer[r] = "none"} :
          /\ S # {}
          /\ answer' = [r \in Records |-> IF r \in S THEN "failed" ELSE answer[r]]
    /\ UNCHANGED <<bill, payer, spent>>

Next == Fail \/ \E r \in Records : Ask(r) \/ Charge(r) \/ Refuse(r)

Spec == Init /\ [][Next]_vars
================================================================================
