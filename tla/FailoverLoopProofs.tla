-------------------------- MODULE FailoverLoopProofs --------------------------
(***************************************************************************)
(* What FailoverLoop promises, for any set of accounts and any limits.     *)
(* IInv is inductive: next to the types it says that a request that has    *)
(* content on the wire is over, that an error was seen before an account   *)
(* is excluded, and that each retry of an account was preceded by a        *)
(* Forward to it.  Covered, inductive next to it, pays for each Forward.   *)
(***************************************************************************)
EXTENDS FailoverLoop, FiniteSetTheorems, TLAPS

\* Content on the wire ends the request.
WrittenIsDone == written => phase = "done"

\* Each retry of an account, and the error at hand, came from a Forward to it.
RetriesForwarded ==
    \A a \in Accounts :
      forwards[a] >= retries[a] + (IF phase = "errored" /\ account = a THEN 1 ELSE 0)

\* An account is selected whenever the loop is about to use it.
AccountChosen == phase \in {"forward", "errored", "tooLong"} => account \in Accounts

\* There is an error at hand when it is looked at, and one before any account
\* is excluded.
ErrorSeen == phase = "errored" => lastErr # NoErr

IInv ==
    /\ TypeOK
    /\ AccountChosen
    /\ WrittenIsDone
    /\ RetriesForwarded
    /\ ErrorSeen
    /\ ExhaustedHasError

LEMMA NoErrIsNone == NoErr \notin FailoverErrs
  BY DEF NoErr, FailoverErrs

\* A request starts without an error, a retry or content on the wire.
LEMMA InitIInv == Init => IInv
<1> SUFFICES ASSUME Init PROVE IInv
  OBVIOUS
<1>1. TypeOK
  <2>1. 0 \in 0..MaxSwitches /\ 0 \in 0..MaxSameAccountRetries
    BY FailoverLoopAssumption
  <2>2. fallbackUsed \in BOOLEAN /\ written \in BOOLEAN
    BY DEF Init
  <2> QED
    BY <2>1, <2>2 DEF Init, TypeOK, Phases, Outcomes
<1>2. AccountChosen /\ WrittenIsDone /\ ErrorSeen /\ ExhaustedHasError
  BY DEF Init, AccountChosen, WrittenIsDone, ErrorSeen, ExhaustedHasError
<1>3. RetriesForwarded
  BY DEF Init, RetriesForwarded
<1> QED
  BY <1>1, <1>2, <1>3 DEF IInv

\* Every way through the two loops keeps the invariant.
LEMMA StepIInv == IInv /\ [Next]_vars => IInv'
<1> SUFFICES ASSUME IInv, [Next]_vars PROVE IInv'
  OBVIOUS
<1> USE FailoverLoopAssumption, NoErrIsNone
    DEF IInv, TypeOK, AccountChosen, WrittenIsDone, RetriesForwarded, ErrorSeen,
        ExhaustedHasError, NoAccount, Phases, Outcomes, EndWith
<1>1. ASSUME NEW a \in Accounts, Select(a) PROVE IInv'
  BY <1>1 DEF Select
<1>2. CASE StopBeforeForward
  BY <1>2 DEF StopBeforeForward
<1>3. CASE NoneAvailable
  BY <1>3 DEF NoneAvailable
<1>4. CASE StartOver
  BY <1>4 DEF StartOver, MayStartOver
<1>5. CASE GiveUpSelecting
  BY <1>5 DEF GiveUpSelecting
<1>6. CASE ForwardOK
  BY <1>6 DEF ForwardOK, Forwarded
<1>7. CASE ForwardFails
  <2>1. written' \in BOOLEAN
    BY <1>7 DEF ForwardFails
  <2> QED
    BY <1>7, <2>1 DEF ForwardFails, Forwarded
<1>8. ASSUME NEW err \in FailoverErrs, NEW wrote \in BOOLEAN, ForwardFailover(err, wrote)
      PROVE IInv'
  BY <1>8 DEF ForwardFailover, Forwarded
<1>9. CASE SameAccountRetry
  BY <1>9 DEF SameAccountRetry, RetriesLeft
<1>10. CASE SwitchAccount
  BY <1>10 DEF SwitchAccount
<1>11. CASE ForwardTooLong
  BY <1>11 DEF ForwardTooLong, Forwarded
<1>12. CASE UseFallbackGroup
  BY <1>12 DEF UseFallbackGroup, FreshState
<1>13. CASE RefuseFallbackGroup
  BY <1>13 DEF RefuseFallbackGroup
<1>14. ASSUME NEW a \in Accounts, BlockRunsOut(a) PROVE IInv'
  BY <1>14 DEF BlockRunsOut
<1>15. CASE UNCHANGED vars
  BY <1>15 DEF vars
<1> QED
  BY <1>1, <1>2, <1>3, <1>4, <1>5, <1>6, <1>7, <1>8, <1>9, <1>10, <1>11, <1>12, <1>13,
     <1>14, <1>15
  DEF Next, Step, Terminated

\* The inductive invariant of the loop.
THEOREM LoopInvariant == Spec => []IInv
  BY InitIInv, StepIInv, PTL DEF Spec

\* The loop's variables keep their types; SwitchCount and the retries of every
\* account stay within their limits.
THEOREM TypeCorrect == Spec => []TypeOK
<1>1. IInv => TypeOK
  BY DEF IInv
<1> QED
  BY <1>1, LoopInvariant, PTL

\* A request that gives up has an upstream error to report, whatever the
\* upstream and the scheduler do.
THEOREM ErrorReported == Spec => []ExhaustedHasError
<1>1. IInv => ExhaustedHasError
  BY DEF IInv
<1> QED
  BY <1>1, LoopInvariant, PTL

\* No Forward starts once another one has written content to the client: two
\* answers are never spliced.
THEOREM NeverSpliced == Spec => NoSplice
<1>1. IInv /\ [Next]_vars => [ForwardsOnlyUnwritten]_vars
  <2> SUFFICES ASSUME IInv, Next, NEW a \in Accounts, forwards'[a] > forwards[a]
               PROVE ~written
    BY DEF ForwardsOnlyUnwritten
  <2>1. ~UseFallbackGroup
    BY DEF UseFallbackGroup, FreshState, IInv, TypeOK
  <2>2. forwards' # forwards
    BY DEF IInv, TypeOK
  <2>3. phase = "forward"
    BY <2>1, <2>2
    DEF Next, Step, Select, StopBeforeForward, NoneAvailable, StartOver,
        GiveUpSelecting, ForwardOK, ForwardFails, ForwardFailover, SameAccountRetry,
        SwitchAccount, ForwardTooLong, RefuseFallbackGroup, BlockRunsOut, Terminated, vars
  <2> QED
    BY <2>3 DEF IInv, WrittenIsDone
<1> QED
  BY <1>1, LoopInvariant, PTL DEF Spec, NoSplice

\* An account is taken out of scheduling for everybody only after this request
\* has forwarded to it once and retried it as often as it may.
THEOREM BlocksEarned == Spec => BlockEarned
<1>1. IInv /\ [Next]_vars => [BlocksOnlyAfterRetries]_vars
  <2> SUFFICES ASSUME IInv, Next, NEW a \in unscheduled' \ unscheduled
               PROVE forwards[a] > MaxSameAccountRetries
    BY DEF BlocksOnlyAfterRetries
  <2>1. unscheduled' # unscheduled /\ ~\E b \in Accounts : BlockRunsOut(b)
    BY DEF BlockRunsOut
  <2>2. SwitchAccount
    BY <2>1 DEF Next, Step, Select, StopBeforeForward, NoneAvailable, StartOver,
        GiveUpSelecting, ForwardOK, ForwardFails, ForwardFailover, SameAccountRetry,
        ForwardTooLong, UseFallbackGroup, RefuseFallbackGroup, Terminated, vars
  <2>3. lastErr.retryable /\ account = a
    BY <2>2 DEF SwitchAccount
  <2>4. a \in Accounts /\ phase = "errored"
    BY <2>2, <2>3 DEF SwitchAccount, IInv, AccountChosen
  <2>5. retries[a] = MaxSameAccountRetries
    BY <2>2, <2>3, <2>4, FailoverLoopAssumption DEF SwitchAccount, RetriesLeft, IInv, TypeOK
  <2> QED
    BY <2>3, <2>4, <2>5, FailoverLoopAssumption DEF IInv, TypeOK, RetriesForwarded
<1> QED
  BY <1>1, LoopInvariant, PTL DEF Spec, BlockEarned

-------------------------------------------------------------------------------
(* How often a group is forwarded to.                                      *)

\* The retries an account may have, and those it has had, one by one.
Allowance == Accounts \X (1..MaxSameAccountRetries)

Retried == {x \in Allowance : x[2] <= retries[x[1]]}

\* The Forward calls are covered by the switches, the retries and the call that
\* has been answered last.
Covered ==
    calls <= switchCount + Cardinality(Retried)
               + (IF phase \in {"errored", "tooLong", "done"} THEN 1 ELSE 0)

LEMMA AllowanceFinite ==
  IsFiniteSet(Allowance) /\ Cardinality(Allowance) = Cardinality(Accounts) * MaxSameAccountRetries
<1> USE FailoverLoopAssumption
<1>1. IsFiniteSet(1..MaxSameAccountRetries) /\ Cardinality(1..MaxSameAccountRetries) = MaxSameAccountRetries
  <2>1. 0 \in Int /\ 1 \in Int /\ MaxSameAccountRetries \in Int
    OBVIOUS
  <2>2. Cardinality(1..MaxSameAccountRetries)
          = IF 1 > MaxSameAccountRetries THEN 0 ELSE MaxSameAccountRetries - 1 + 1
    BY <2>1, FS_Interval
  <2>3. IsFiniteSet(1..MaxSameAccountRetries)
    BY <2>1, FS_Interval
  <2> QED
    BY <2>2, <2>3
<1> QED
  BY <1>1, FS_Product DEF Allowance

LEMMA RetriedFinite ==
  /\ IsFiniteSet(Retried) /\ Cardinality(Retried) \in Nat
  /\ Cardinality(Retried) <= MaxSameAccountRetries * Cardinality(Accounts)
  /\ MaxSameAccountRetries * Cardinality(Accounts) \in Nat
<1> USE FailoverLoopAssumption
<1>2. IsFiniteSet(Allowance) /\ Cardinality(Allowance) = Cardinality(Accounts) * MaxSameAccountRetries
  BY AllowanceFinite
<1>3. Retried \in SUBSET Allowance
  BY DEF Retried
<1>4. IsFiniteSet(Retried) /\ Cardinality(Retried) <= Cardinality(Allowance)
  BY <1>2, <1>3, FS_Subset
<1>5. Cardinality(Retried) \in Nat /\ Cardinality(Accounts) \in Nat
  BY <1>4, FS_CardinalityType
<1>6. Cardinality(Accounts) * MaxSameAccountRetries = MaxSameAccountRetries * Cardinality(Accounts)
        /\ MaxSameAccountRetries * Cardinality(Accounts) \in Nat
  BY <1>5
<1> QED
  BY <1>2, <1>4, <1>5, <1>6

\* One more retry of an account is one more of its allowance.
LEMMA RetryCounts ==
  ASSUME TypeOK, TypeOK', AccountChosen, SameAccountRetry
  PROVE  Cardinality(Retried') = Cardinality(Retried) + 1
<1> DEFINE new == <<account, retries[account] + 1>>
<1>1. account \in Accounts /\ retries[account] \in 0..MaxSameAccountRetries
        /\ retries[account] < MaxSameAccountRetries
  BY DEF SameAccountRetry, RetriesLeft, AccountChosen, TypeOK
<1>2. retries' = [retries EXCEPT ![account] = retries[account] + 1]
  BY DEF SameAccountRetry
<1>3. new \in Allowance /\ new \notin Retried
  BY <1>1, FailoverLoopAssumption DEF Allowance, Retried
<1>4. Retried' = Retried \cup {new}
  <2>1. ASSUME NEW x \in Allowance
        PROVE  x[2] <= retries'[x[1]] <=> x[2] <= retries[x[1]] \/ x = new
    <3>1. x[1] \in Accounts /\ x[2] \in 1..MaxSameAccountRetries /\ x = <<x[1], x[2]>>
      BY <2>1 DEF Allowance
    <3>2. CASE x[1] = account
      <4>1. retries'[x[1]] = retries[account] + 1
        BY <1>1, <1>2, <3>2 DEF TypeOK
      <4>2. x = new <=> x[2] = retries[account] + 1
        BY <3>1, <3>2
      <4>3. x[2] \in Int /\ retries[account] \in Int
        BY <1>1, <3>1
      <4> HIDE DEF new
      <4> QED
        BY <3>2, <4>1, <4>2, <4>3
    <3>3. CASE x[1] # account
      BY <1>2, <3>1, <3>3 DEF TypeOK
    <3> QED
      BY <3>2, <3>3
  <2>2. Retried' = {x \in Allowance : x[2] <= retries'[x[1]]}
    BY DEF Retried, Allowance
  <2> HIDE DEF new
  <2> QED
    BY <1>3, <2>1, <2>2 DEF Retried
<1>5. IsFiniteSet(Retried)
  BY RetriedFinite
<1> HIDE DEF new
<1> QED
  BY <1>3, <1>4, <1>5, FS_AddElement

LEMMA InitCovered == Init => Covered
<1> SUFFICES ASSUME Init PROVE Covered
  OBVIOUS
<1>2. Cardinality(Retried) \in Nat
  BY RetriedFinite
<1> QED
  BY <1>2 DEF Init, Covered

LEMMA StepCovered == IInv /\ Covered /\ [Next]_vars => Covered'
<1> SUFFICES ASSUME IInv, Covered, [Next]_vars PROVE Covered'
  OBVIOUS
<1>a. TypeOK /\ TypeOK' /\ AccountChosen
  BY StepIInv DEF IInv
<1>b. Cardinality(Retried) \in Nat
  BY RetriedFinite
<1>c. switchCount \in Nat /\ calls \in Nat
  BY <1>a, FailoverLoopAssumption DEF TypeOK
<1>d. ASSUME retries' = retries PROVE Retried' = Retried
  BY <1>d DEF Retried, Allowance
<1> USE <1>b, <1>c DEF Covered, EndWith
<1>1. ASSUME NEW a \in Accounts, Select(a) PROVE Covered'
  BY <1>1, <1>d DEF Select
<1>2. CASE StopBeforeForward
  BY <1>2, <1>d DEF StopBeforeForward
<1>3. CASE NoneAvailable
  BY <1>3, <1>d DEF NoneAvailable
<1>4. CASE StartOver
  BY <1>4, <1>d DEF StartOver
<1>5. CASE GiveUpSelecting
  BY <1>5, <1>d DEF GiveUpSelecting
<1>6. CASE ForwardOK
  BY <1>6, <1>d DEF ForwardOK, Forwarded
<1>7. CASE ForwardFails
  BY <1>7, <1>d DEF ForwardFails, Forwarded
<1>8. ASSUME NEW err \in FailoverErrs, NEW wrote \in BOOLEAN, ForwardFailover(err, wrote)
      PROVE Covered'
  BY <1>8, <1>d DEF ForwardFailover, Forwarded
<1>9. CASE SameAccountRetry
  <2>1. Cardinality(Retried') = Cardinality(Retried) + 1
    BY <1>9, <1>a, RetryCounts
  <2>2. phase = "errored" /\ calls' = calls /\ switchCount' = switchCount
    BY <1>9 DEF SameAccountRetry
  <2> QED
    BY <2>1, <2>2
<1>10. CASE SwitchAccount
  BY <1>10, <1>d DEF SwitchAccount
<1>11. CASE ForwardTooLong
  BY <1>11, <1>d DEF ForwardTooLong, Forwarded
<1>12. CASE UseFallbackGroup
  <2>1. Cardinality(Retried') \in Nat
    <3>1. Retried' \in SUBSET Allowance /\ IsFiniteSet(Allowance)
      BY AllowanceFinite DEF Retried, Allowance
    <3>2. IsFiniteSet(Retried')
      BY <3>1, FS_Subset
    <3> QED
      BY <3>2, FS_CardinalityType
  <2> QED
    BY <1>12, <2>1 DEF UseFallbackGroup, FreshState
<1>13. CASE RefuseFallbackGroup
  BY <1>13, <1>d DEF RefuseFallbackGroup
<1>14. ASSUME NEW a \in Accounts, BlockRunsOut(a) PROVE Covered'
  BY <1>14, <1>d DEF BlockRunsOut
<1>15. CASE UNCHANGED vars
  BY <1>15, <1>d DEF vars
<1> QED
  BY <1>1, <1>2, <1>3, <1>4, <1>5, <1>6, <1>7, <1>8, <1>9, <1>10, <1>11, <1>12, <1>13,
     <1>14, <1>15
  DEF Next, Step, Terminated

\* A group is forwarded to at most once per switch and once more, plus the
\* retries of each account, for any accounts and limits: starting over after a
\* 503, as often as it may happen, renews neither.
THEOREM ForwardsBounded == Spec => []ForwardsBudget
<1>1. ASSUME IInv, Covered PROVE ForwardsBudget
  <2>1. TypeOK
    BY <1>1 DEF IInv
  <2>2. /\ Cardinality(Retried) \in Nat
        /\ Cardinality(Retried) <= MaxSameAccountRetries * Cardinality(Accounts)
        /\ MaxSameAccountRetries * Cardinality(Accounts) \in Nat
    BY RetriedFinite
  <2>3. calls \in Nat /\ switchCount \in 0..MaxSwitches /\ MaxSwitches \in Nat
    BY <2>1, FailoverLoopAssumption DEF TypeOK
  <2>4. calls <= switchCount + Cardinality(Retried) + 1
    BY <1>1, <2>2, <2>3 DEF Covered
  <2> DEFINE most == MaxSameAccountRetries * Cardinality(Accounts)
  <2>5. most \in Nat /\ Cardinality(Retried) <= most
    BY <2>2
  <2> HIDE DEF most
  <2>6. calls <= MaxSwitches + 1 + most
    BY <2>2, <2>3, <2>4, <2>5
  <2> QED
    BY <2>6 DEF ForwardsBudget, most
<1>2. Spec => []Covered
  BY InitCovered, StepCovered, LoopInvariant, PTL DEF Spec
<1> QED
  BY <1>1, <1>2, LoopInvariant, PTL
===============================================================================
