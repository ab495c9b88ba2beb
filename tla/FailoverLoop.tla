----------------------------- MODULE FailoverLoop -----------------------------
(***************************************************************************)
(* The account failover of one gateway request: FailoverState of           *)
(* handler/failover_loop.go inside the two nested loops of                 *)
(* GatewayHandler.Messages.  The inner loop selects an account, forwards,  *)
(* and on a failover error retries the account or switches to another one; *)
(* the outer loop starts over once, with the group's fallback group, when  *)
(* the upstream says that the prompt is too long.                          *)
(*                                                                         *)
(* The upstream answers what it likes.  Which accounts the scheduler has   *)
(* to offer is open, but it never offers an excluded one.                  *)
(***************************************************************************)
EXTENDS Integers, FiniteSets

CONSTANTS
    Accounts,
    MaxSwitches,           \* the handler's maxAccountSwitches
    MaxSameAccountRetries, \* maxSameAccountRetries
    HasFallbackGroup       \* the API key's group names a usable fallback group

ASSUME FailoverLoopAssumption ==
    /\ IsFiniteSet(Accounts)
    /\ MaxSwitches \in Nat
    /\ MaxSameAccountRetries \in Nat
    /\ HasFallbackGroup \in BOOLEAN

VARIABLES
    phase,         \* what the loop does next
    account,       \* the selected account
    switchCount,   \* SwitchCount
    failed,        \* FailedAccountIDs
    retries,       \* SameAccountRetryCount
    lastErr,       \* LastFailoverErr: its status class
    fallbackUsed,  \* the outer loop runs for the fallback group
    written,       \* a Forward has written content of its answer to the client
    outcome,       \* how the request ended
    unscheduled,   \* accounts taken out of scheduling by TempUnscheduleRetryableError
    forwards,      \* history: Forward calls of the current group on each account
    calls          \* history: their number

vars == <<phase, account, switchCount, failed, retries, lastErr,
          fallbackUsed, written, outcome, unscheduled, forwards, calls>>

NoAccount == "none"

Phases == {"select", "forward", "errored", "tooLong", "done"}

Outcomes == {"pending", "ok", "exhausted", "exhaustedSimple", "canceled", "unavailable",
             "failed", "rejected"}

\* An upstream failover error, as far as the loop looks at it.
FailoverErrs == [status : {"503", "400/502", "other"}, retryable : BOOLEAN]

NoErr == [status |-> "none", retryable |-> FALSE]

TypeOK ==
    /\ phase \in Phases
    /\ account \in Accounts \cup {NoAccount}
    /\ switchCount \in 0..MaxSwitches
    /\ failed \subseteq Accounts
    /\ retries \in [Accounts -> 0..MaxSameAccountRetries]
    /\ lastErr \in FailoverErrs \cup {NoErr}
    /\ fallbackUsed \in BOOLEAN
    /\ written \in BOOLEAN
    /\ outcome \in Outcomes
    /\ unscheduled \subseteq Accounts
    /\ forwards \in [Accounts -> Nat]
    /\ calls \in Nat

\* NewFailoverState
FreshState ==
    /\ switchCount' = 0
    /\ failed' = {}
    /\ retries' = [a \in Accounts |-> 0]
    /\ lastErr' = NoErr
    /\ forwards' = [a \in Accounts |-> 0] /\ calls' = 0

Init ==
    /\ phase = "select"
    /\ account = NoAccount
    /\ switchCount = 0
    /\ failed = {}
    /\ retries = [a \in Accounts |-> 0]
    /\ lastErr = NoErr
    /\ fallbackUsed = FALSE
    /\ written = FALSE
    /\ outcome = "pending"
    /\ unscheduled = {}
    /\ forwards = [a \in Accounts |-> 0] /\ calls = 0

-------------------------------------------------------------------------------

Forwarded == forwards' = [forwards EXCEPT ![account] = @ + 1] /\ calls' = calls + 1

EndWith(o) == phase' = "done" /\ outcome' = o

\* SelectAccountWithLoadAwareness offers an account that is not excluded.  One
\* that was taken out of scheduling may still be in a scheduler snapshot.
Select(a) ==
    /\ phase = "select"
    /\ a \notin failed
    /\ account' = a
    /\ phase' = "forward"
    /\ UNCHANGED <<switchCount, failed, retries, lastErr, fallbackUsed,
                   written, outcome, unscheduled, forwards, calls>>

\* The account's slot or its wait queue is not to be had, or the request is a
\* warm-up that is answered here: the handler returns.
StopBeforeForward ==
    /\ phase = "forward"
    /\ EndWith("rejected")
    /\ UNCHANGED <<account, switchCount, failed, retries, lastErr,
                   fallbackUsed, written, unscheduled, forwards, calls>>

\* Nothing to select and nothing excluded: "No available accounts".
NoneAvailable ==
    /\ phase = "select"
    /\ failed = {}
    /\ EndWith("unavailable")
    /\ UNCHANGED <<account, switchCount, failed, retries, lastErr,
                   fallbackUsed, written, unscheduled, forwards, calls>>

\* HandleSelectionExhausted: after a 503 the excluded accounts get another
\* chance, unless the client has left during the back-off.
MayStartOver == lastErr.status = "503" /\ switchCount <= MaxSwitches

\* Mutant: a second chance also renews the retries on the same account.
StartOver_RenewsRetries ==
    /\ phase = "select"
    /\ failed # {}
    /\ MayStartOver
    /\ failed' = {}
    /\ retries' = [a \in Accounts |-> 0]
    /\ UNCHANGED <<phase, account, switchCount, lastErr, fallbackUsed, written,
                   outcome, unscheduled, forwards, calls>>

\* Mutant: the excluded accounts stay excluded.
StartOver_KeepsExclusions ==
    /\ phase = "select"
    /\ failed # {}
    /\ MayStartOver
    /\ UNCHANGED vars

StartOver ==
    /\ phase = "select"
    /\ failed # {}
    /\ MayStartOver
    /\ \/ failed' = {} /\ UNCHANGED <<phase, outcome>>
       \/ EndWith("canceled") /\ UNCHANGED failed
    /\ UNCHANGED <<account, switchCount, retries, lastErr, fallbackUsed,
                   written, unscheduled, forwards, calls>>

GiveUpSelecting ==
    /\ phase = "select"
    /\ failed # {}
    /\ ~MayStartOver
    /\ EndWith(IF lastErr # NoErr THEN "exhausted" ELSE "exhaustedSimple")
    /\ UNCHANGED <<account, switchCount, failed, retries, lastErr,
                   fallbackUsed, written, unscheduled, forwards, calls>>

\* Forward succeeds and the answer is complete.
ForwardOK ==
    /\ phase = "forward"
    /\ Forwarded
    /\ written' = TRUE
    /\ EndWith("ok")
    /\ UNCHANGED <<account, switchCount, failed, retries, lastErr,
                   fallbackUsed, unscheduled>>

\* Forward fails for good, with or without content on the wire.
ForwardFails ==
    /\ phase = "forward"
    /\ Forwarded
    /\ written' \in {written, TRUE}
    /\ EndWith("failed")
    /\ UNCHANGED <<account, switchCount, failed, retries, lastErr,
                   fallbackUsed, unscheduled>>

\* Mutant: nobody asks whether content is on the wire.
ForwardFailover_Always(err, wrote) ==
    /\ phase = "forward"
    /\ Forwarded
    /\ written' = (written \/ wrote)
    /\ phase' = "errored"
    /\ lastErr' = err
    /\ UNCHANGED <<account, switchCount, failed, retries, fallbackUsed, outcome,
                   unscheduled>>

\* Forward returns a failover error.  Once it has written content the answer
\* cannot be taken back and the handler ends here.
ForwardFailover(err, wrote) ==
    /\ phase = "forward"
    /\ Forwarded
    /\ written' = (written \/ wrote)
    /\ IF wrote
       THEN EndWith("exhausted") /\ UNCHANGED lastErr
       ELSE /\ phase' = "errored"
            /\ lastErr' = err
            /\ UNCHANGED outcome
    /\ UNCHANGED <<account, switchCount, failed, retries, fallbackUsed, unscheduled>>

\* Mutant: the limit is the error's alone.
RetriesLeft_Unlimited(a) == lastErr.retryable

\* Mutant: the last retry is not made.
RetriesLeft_OneLess(a) == lastErr.retryable /\ retries[a] + 1 < MaxSameAccountRetries

\* HandleFailoverError, on the error it has just stored.
RetriesLeft(a) == lastErr.retryable /\ retries[a] < MaxSameAccountRetries

SameAccountRetry ==
    /\ phase = "errored"
    /\ RetriesLeft(account)
    /\ retries' = [retries EXCEPT ![account] = @ + 1]
    /\ \/ phase' = "select" /\ UNCHANGED outcome
       \/ EndWith("canceled")
    /\ UNCHANGED <<account, switchCount, failed, lastErr, fallbackUsed,
                   written, unscheduled, forwards, calls>>

\* Mutant: the switch is not counted.
SwitchAccount_Uncounted ==
    /\ phase = "errored"
    /\ ~RetriesLeft(account)
    /\ failed' = failed \cup {account}
    /\ phase' = "select"
    /\ UNCHANGED <<account, switchCount, retries, lastErr, fallbackUsed, written,
                   outcome, unscheduled, forwards, calls>>

SwitchAccount ==
    /\ phase = "errored"
    /\ ~RetriesLeft(account)
    /\ unscheduled' = IF lastErr.retryable /\ lastErr.status = "400/502"
                      THEN unscheduled \cup {account} ELSE unscheduled
    /\ failed' = failed \cup {account}
    /\ IF switchCount >= MaxSwitches
       THEN EndWith("exhausted") /\ UNCHANGED switchCount
       ELSE /\ switchCount' = switchCount + 1
            /\ \/ phase' = "select" /\ UNCHANGED outcome
               \/ EndWith("canceled")
    /\ UNCHANGED <<account, retries, lastErr, fallbackUsed, written,
                   forwards, calls>>

\* The upstream refuses the prompt as too long, before any content.
ForwardTooLong ==
    /\ phase = "forward"
    /\ Forwarded
    /\ phase' = "tooLong"
    /\ UNCHANGED <<account, switchCount, failed, retries, lastErr,
                   fallbackUsed, written, outcome, unscheduled>>

\* The outer loop: once, and only to a usable fallback group the user may bill.
UseFallbackGroup ==
    /\ phase = "tooLong"
    /\ HasFallbackGroup /\ ~fallbackUsed
    /\ fallbackUsed' = TRUE
    /\ FreshState
    /\ phase' = "select"
    /\ account' = NoAccount
    /\ UNCHANGED <<written, outcome, unscheduled>>

RefuseFallbackGroup ==
    /\ phase = "tooLong"
    /\ EndWith("failed")
    /\ UNCHANGED <<account, switchCount, failed, retries, lastErr,
                   fallbackUsed, written, unscheduled, forwards, calls>>

\* The block of an account runs out (tempUnschedulableUntil).
BlockRunsOut(a) ==
    /\ phase # "done"
    /\ a \in unscheduled
    /\ unscheduled' = unscheduled \ {a}
    /\ UNCHANGED <<phase, account, switchCount, failed, retries, lastErr,
                   fallbackUsed, written, outcome, forwards, calls>>

Terminated == phase = "done" /\ UNCHANGED vars

Step ==
    \/ \E a \in Accounts : Select(a)
    \/ StopBeforeForward \/ NoneAvailable \/ StartOver \/ GiveUpSelecting
    \/ ForwardOK \/ ForwardFails
    \/ \E err \in FailoverErrs, wrote \in BOOLEAN : ForwardFailover(err, wrote)
    \/ SameAccountRetry \/ SwitchAccount
    \/ ForwardTooLong \/ UseFallbackGroup \/ RefuseFallbackGroup

Next == Step \/ (\E a \in Accounts : BlockRunsOut(a)) \/ Terminated

Spec == Init /\ [][Next]_vars

\* One goroutine runs the loop; Forward, selection and sleeps all return.
FairSpec == Spec /\ WF_vars(Step)

-------------------------------------------------------------------------------
(* What the loop promises.                                                 *)

\* However the upstream and the scheduler behave, a group is forwarded to at
\* most once per allowed switch and once more, plus the retries of each account:
\* starting over after a 503 does not renew either allowance.
ForwardsBudget ==
    calls <= MaxSwitches + 1 + MaxSameAccountRetries * Cardinality(Accounts)

\* Content of two upstream answers never reaches one client: once a Forward has
\* written content no other Forward starts, also not for the fallback group.
ForwardsOnlyUnwritten == (\E a \in Accounts : forwards'[a] > forwards[a]) => ~written

NoSplice == [][ForwardsOnlyUnwritten]_vars

\* An account is taken out of scheduling, for every request, only after this
\* request has forwarded to it once more than it may retry.
BlocksOnlyAfterRetries ==
    \A a \in unscheduled' \ unscheduled : forwards[a] > MaxSameAccountRetries

BlockEarned == [][BlocksOnlyAfterRetries]_vars

\* An account is excluded only because of an error, so that a request that gives
\* up always has the upstream's last error to report: the answer for "no error"
\* is never used.
ExhaustedHasError ==
    /\ failed # {} => lastErr # NoErr
    /\ outcome # "exhaustedSimple"

\* The loop ends.
Terminates == <>(phase = "done")
===============================================================================
