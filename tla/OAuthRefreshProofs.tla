-------------------------- MODULE OAuthRefreshProofs --------------------------
(***************************************************************************)
(* Proofs about OAuthRefresh, for any workers, processes, generations and  *)
(* mishaps.                                                                *)
(*                                                                         *)
(* Two invariants carry them.  Known says how the generations that a       *)
(* worker knows, that are stored and that the upstream accepts follow each *)
(* other: it holds whatever fails, and it is what makes a refresh token    *)
(* that was rotated by one worker useless in the hands of every other.     *)
(* Guarded says what the refresh lock adds for as long as nothing fails.   *)
(***************************************************************************)
EXTENDS OAuthRefresh, TLAPS

\* What a worker has read is stored or was, and the upstream is never behind.
Behind ==
    /\ db <= upstream
    /\ \A w \in Workers : mine[w] <= db /\ fresh[w] <= db

\* One worker at most has credentials to store: the ones the upstream accepts.
OneStores ==
    /\ \A w \in Workers : pc[w] = "persist" => got[w] = upstream /\ db < upstream
    /\ \A v, w \in Workers : pc[v] = "persist" /\ pc[w] = "persist" => v = w

\* The upstream is asked for the next generation only where there is one.
InWindow ==
    /\ due < MaxGen
    /\ \A w \in Workers : pc[w] = "refresh" => fresh[w] <= due

\* Only the context of a request is ever done.
OnlyClientsLeave == \A w \in Workers : gone[w] => w \in Requests

Chain == Behind /\ OneStores /\ InWindow /\ OnlyClientsLeave

Known == TypeOK /\ Chain

Undisturbed == faults = 0 /\ crashes = 0 /\ \A w \in Requests : ~gone[w]

Quiet == Undisturbed /\ lapses = 0

Critical == {"reread", "refresh", "recover", "persist"}

\* While nothing fails, who refreshes owns the lock, and the upstream accepts
\* what it has read: the answer is never invalid_grant.
Guarded ==
    Quiet =>
      /\ status = "active"
      /\ lockOwner # NoWorker => locked[lockOwner]
      /\ \A w \in Workers :
           /\ pc[w] \in Critical => lockOwner = w
           /\ locked[w] => lockOwner = w
           /\ pc[w] = "refresh" => fresh[w] = upstream
           /\ pc[w] \notin {"recover", "condemn"}
           /\ outcome[w] # "invalid"

-------------------------------------------------------------------------------

\* A fault is counted, and there are no more of them than MaxMishaps.
LEMMA FaultCounted ==
  ASSUME TypeOK, NEW w \in Workers, CallOK(w) \/ CallFails(w) \/ Fault
  PROVE  faults' \in 0..MaxMishaps
<1>1. faults \in 0..MaxMishaps /\ lapses \in 0..MaxMishaps /\ crashes \in 0..MaxMishaps
  BY DEF TypeOK
<1>2. \/ faults' = faults
     \/ (faults + lapses + crashes < MaxMishaps /\ faults' = faults + 1)
  BY DEF CallOK, CallFails, Fault, MayFail
<1> QED
  BY <1>1, <1>2, OAuthRefreshAssumption

LEMMA InitKnown == Init => Known /\ TokenKept /\ Guarded
BY OAuthRefreshAssumption
   DEF Init, Known, Chain, Guarded, TypeOK, Behind, OneStores, InWindow, OnlyClientsLeave,
       StartOf, Gens, NoToken, PCs, Outcomes, Quiet, Undisturbed, Critical, TokenKept

LEMMA TypeStep ==
  ASSUME Known, [Next]_vars
  PROVE  TypeOK'
<1> USE OAuthRefreshAssumption DEF Known, Chain, TypeOK, Gens, NoToken, PCs, Outcomes,
      shared, Go, MayFail, Fault, CallOK, CallFails, Return, Stale, Rotate, LockFree,
      InWindow
<1>1. ASSUME NEW w \in Workers, Begin(w) PROVE TypeOK'
  BY <1>1 DEF Begin
<1>2. ASSUME NEW w \in Workers, GetToken(w) PROVE TypeOK'
  BY <1>2 DEF GetToken
<1>3. ASSUME NEW w \in Workers, TakeMutex(w) PROVE TypeOK'
  BY <1>3 DEF TakeMutex
<1>4. ASSUME NEW w \in Workers, TakeLock(w) PROVE TypeOK'
  <2>1. faults' \in 0..MaxMishaps
    BY <1>4, FaultCounted DEF TakeLock
  <2>2. pc' \in [Workers -> PCs] /\ outcome' \in [Workers -> Outcomes]
    BY <1>4 DEF TakeLock
  <2>3. lockOwner' \in Workers \cup {NoWorker} /\ locked' \in [Workers -> BOOLEAN]
    BY <1>4 DEF TakeLock
  <2> QED
    BY <1>4, <2>1, <2>2, <2>3 DEF TakeLock
<1>5. ASSUME NEW w \in Workers, Reread(w) PROVE TypeOK'
  BY <1>5 DEF Reread
<1>6. ASSUME NEW w \in Workers, RefreshOK(w) PROVE TypeOK'
  BY <1>6 DEF RefreshOK
<1>7. ASSUME NEW w \in Workers, RefreshInvalid(w) PROVE TypeOK'
  BY <1>7 DEF RefreshInvalid
<1>8. ASSUME NEW w \in Workers, RefreshFails(w) PROVE TypeOK'
  <2>1. faults' \in 0..MaxMishaps
    BY <1>8, FaultCounted DEF RefreshFails
  <2>2. pc' \in [Workers -> PCs] /\ outcome' \in [Workers -> Outcomes]
    BY <1>8 DEF RefreshFails
  <2>3. upstream' \in Gens
    BY <1>8 DEF RefreshFails
  <2>4. gone' \in [Workers -> BOOLEAN]
    BY <1>8 DEF RefreshFails
  <2> QED
    BY <1>8, <2>1, <2>2, <2>3, <2>4 DEF RefreshFails
<1>9. ASSUME NEW w \in Workers, Recover(w) PROVE TypeOK'
  BY <1>9 DEF Recover
<1>10. ASSUME NEW w \in Workers, Persist(w) PROVE TypeOK'
  BY <1>10 DEF Persist, Stored
<1>11. ASSUME NEW w \in Workers, Unlock(w) PROVE TypeOK'
  <2>1. faults' \in 0..MaxMishaps
    BY <1>11, FaultCounted DEF Unlock
  <2>2. pc' \in [Workers -> PCs]
    <3>1. NextOf(w) \subseteq PCs
      BY DEF NextOf
    <3> QED
      BY <1>11, <3>1 DEF Unlock
  <2>3. lockOwner' \in Workers \cup {NoWorker} /\ locked' \in [Workers -> BOOLEAN]
    BY <1>11 DEF Unlock
  <2>4. mutex' \in [Procs -> Workers \cup {NoWorker}]
    BY <1>11 DEF Unlock, MutexAfter
  <2>5. mine' \in [Workers -> Gens] /\ outcome' \in [Workers -> Outcomes]
    BY <1>11 DEF Unlock
  <2> QED
    BY <1>11, <2>1, <2>2, <2>3, <2>4, <2>5 DEF Unlock
<1>12. ASSUME NEW w \in Workers, PostRefresh(w) PROVE TypeOK'
  BY <1>12 DEF PostRefresh
<1>13. ASSUME NEW w \in Workers, Condemn(w) PROVE TypeOK'
  BY <1>13 DEF Condemn
<1>14. ASSUME NEW w \in Workers, WaitForCache(w) PROVE TypeOK'
  BY <1>14 DEF WaitForCache
<1>15. ASSUME NEW w \in Workers, CheckVersion(w) PROVE TypeOK'
  BY <1>15 DEF CheckVersion
<1>16. ASSUME NEW w \in Workers, SetCache(w) PROVE TypeOK'
  BY <1>16 DEF SetCache
<1>17. ASSUME NEW w \in Workers, ClientLeaves(w) PROVE TypeOK'
  BY <1>17 DEF ClientLeaves
<1>18. CASE LockExpires
  BY <1>18 DEF LockExpires
<1>19. CASE CacheExpires
  BY <1>19 DEF CacheExpires
<1>20. CASE TokenAges
  BY <1>20 DEF TokenAges
<1>21. ASSUME NEW p \in Procs, Crash(p) PROVE TypeOK'
  BY <1>21 DEF Crash
<1>22. CASE Rest \/ UNCHANGED vars
  BY <1>22 DEF Rest, vars
<1> QED
  BY <1>1, <1>2, <1>3, <1>4, <1>5, <1>6, <1>7, <1>8, <1>9, <1>10, <1>11,
     <1>12, <1>13, <1>14, <1>15, <1>16, <1>17, <1>18, <1>19, <1>20, <1>21, <1>22 DEF Next, Work

LEMMA KnownStep ==
  ASSUME Known, [Next]_vars
  PROVE  Chain'
<1> USE OAuthRefreshAssumption DEF Known, Chain, TypeOK, Behind, OneStores, InWindow,
      OnlyClientsLeave, Gens, NoToken, PCs, Outcomes, shared, Go, CallOK, CallFails,
      Return, Stale, Rotate
<1>1. ASSUME NEW w \in Workers, Begin(w) PROVE Chain'
  BY <1>1 DEF Begin
<1>2. ASSUME NEW w \in Workers, GetToken(w) PROVE Chain'
  BY <1>2 DEF GetToken
<1>3. ASSUME NEW w \in Workers, TakeMutex(w) PROVE Chain'
  BY <1>3 DEF TakeMutex
<1>4. ASSUME NEW w \in Workers, TakeLock(w) PROVE Chain'
  BY <1>4 DEF TakeLock
<1>5. ASSUME NEW w \in Workers, Reread(w) PROVE Chain'
  BY <1>5 DEF Reread
<1>6. ASSUME NEW w \in Workers, RefreshOK(w) PROVE Chain'
  BY <1>6 DEF RefreshOK
<1>7. ASSUME NEW w \in Workers, RefreshInvalid(w) PROVE Chain'
  BY <1>7 DEF RefreshInvalid
<1>8. ASSUME NEW w \in Workers, RefreshFails(w) PROVE Chain'
  BY <1>8 DEF RefreshFails
<1>9. ASSUME NEW w \in Workers, Recover(w) PROVE Chain'
  BY <1>9 DEF Recover
<1>10. ASSUME NEW w \in Workers, Persist(w) PROVE Chain'
  BY <1>10 DEF Persist, Stored
<1>11. ASSUME NEW w \in Workers, Unlock(w) PROVE Chain'
  BY <1>11 DEF Unlock, NextOf
<1>12. ASSUME NEW w \in Workers, PostRefresh(w) PROVE Chain'
  BY <1>12 DEF PostRefresh
<1>13. ASSUME NEW w \in Workers, Condemn(w) PROVE Chain'
  BY <1>13 DEF Condemn
<1>14. ASSUME NEW w \in Workers, WaitForCache(w) PROVE Chain'
  BY <1>14 DEF WaitForCache
<1>15. ASSUME NEW w \in Workers, CheckVersion(w) PROVE Chain'
  BY <1>15 DEF CheckVersion
<1>16. ASSUME NEW w \in Workers, SetCache(w) PROVE Chain'
  BY <1>16 DEF SetCache
<1>17. ASSUME NEW w \in Workers, ClientLeaves(w) PROVE Chain'
  BY <1>17 DEF ClientLeaves
<1>18. CASE LockExpires
  BY <1>18 DEF LockExpires
<1>19. CASE CacheExpires
  BY <1>19 DEF CacheExpires
<1>20. CASE TokenAges
  BY <1>20 DEF TokenAges
<1>21. ASSUME NEW p \in Procs, Crash(p) PROVE Chain'
  BY <1>21 DEF Crash
<1>22. CASE Rest \/ UNCHANGED vars
  BY <1>22 DEF Rest, vars
<1> QED
  BY <1>1, <1>2, <1>3, <1>4, <1>5, <1>6, <1>7, <1>8, <1>9, <1>10, <1>11,
     <1>12, <1>13, <1>14, <1>15, <1>16, <1>17, <1>18, <1>19, <1>20, <1>21, <1>22 DEF Next, Work

LEMMA KeptStep ==
  ASSUME Known, TokenKept, [Next]_vars
  PROVE  TokenKept'
<1> USE OAuthRefreshAssumption DEF Known, Chain, TypeOK, Behind, OneStores,
      OnlyClientsLeave, Gens, NoToken, PCs, shared, Go, CallOK, CallFails, Fault,
      MayFail, Return, Rotate, TokenKept
<1>1. ASSUME NEW w \in Workers, Begin(w) PROVE TokenKept'
  BY <1>1 DEF Begin
<1>2. ASSUME NEW w \in Workers, GetToken(w) PROVE TokenKept'
  BY <1>2 DEF GetToken
<1>3. ASSUME NEW w \in Workers, TakeMutex(w) PROVE TokenKept'
  BY <1>3 DEF TakeMutex
<1>4. ASSUME NEW w \in Workers, TakeLock(w) PROVE TokenKept'
  BY <1>4 DEF TakeLock
<1>5. ASSUME NEW w \in Workers, Reread(w) PROVE TokenKept'
  BY <1>5 DEF Reread
<1>6. ASSUME NEW w \in Workers, RefreshOK(w) PROVE TokenKept'
  BY <1>6 DEF RefreshOK
<1>7. ASSUME NEW w \in Workers, RefreshInvalid(w) PROVE TokenKept'
  BY <1>7 DEF RefreshInvalid
<1>8. ASSUME NEW w \in Workers, RefreshFails(w) PROVE TokenKept'
  BY <1>8 DEF RefreshFails
<1>9. ASSUME NEW w \in Workers, Recover(w) PROVE TokenKept'
  BY <1>9 DEF Recover
<1>10. ASSUME NEW w \in Workers, Persist(w) PROVE TokenKept'
  BY <1>10 DEF Persist, Stored
<1>11. ASSUME NEW w \in Workers, Unlock(w) PROVE TokenKept'
  BY <1>11 DEF Unlock, NextOf
<1>12. ASSUME NEW w \in Workers, PostRefresh(w) PROVE TokenKept'
  BY <1>12 DEF PostRefresh
<1>13. ASSUME NEW w \in Workers, Condemn(w) PROVE TokenKept'
  BY <1>13 DEF Condemn
<1>14. ASSUME NEW w \in Workers, WaitForCache(w) PROVE TokenKept'
  BY <1>14 DEF WaitForCache
<1>15. ASSUME NEW w \in Workers, CheckVersion(w) PROVE TokenKept'
  BY <1>15 DEF CheckVersion
<1>16. ASSUME NEW w \in Workers, SetCache(w) PROVE TokenKept'
  BY <1>16 DEF SetCache
<1>17. ASSUME NEW w \in Workers, ClientLeaves(w) PROVE TokenKept'
  BY <1>17 DEF ClientLeaves
<1>18. CASE LockExpires
  BY <1>18 DEF LockExpires
<1>19. CASE CacheExpires
  BY <1>19 DEF CacheExpires
<1>20. CASE TokenAges
  BY <1>20 DEF TokenAges
<1>21. ASSUME NEW p \in Procs, Crash(p) PROVE TokenKept'
  BY <1>21 DEF Crash
<1>22. CASE Rest \/ UNCHANGED vars
  BY <1>22 DEF Rest, vars
<1> QED
  BY <1>1, <1>2, <1>3, <1>4, <1>5, <1>6, <1>7, <1>8, <1>9, <1>10, <1>11,
     <1>12, <1>13, <1>14, <1>15, <1>16, <1>17, <1>18, <1>19, <1>20, <1>21, <1>22 DEF Next, Work

LEMMA GuardedStep ==
  ASSUME Known, TokenKept, Guarded, [Next]_vars
  PROVE  Guarded'
<1> USE OAuthRefreshAssumption DEF Known, Chain, TypeOK, Behind, OneStores,
      OnlyClientsLeave, Gens, NoToken, PCs, Outcomes, shared, Go, CallOK, CallFails,
      Fault, MayFail, Return, Stale, Rotate, Guarded, Quiet, Undisturbed, Critical,
      LockFree
<1>1. ASSUME NEW w \in Workers, Begin(w) PROVE Guarded'
  BY <1>1 DEF Begin
<1>2. ASSUME NEW w \in Workers, GetToken(w) PROVE Guarded'
  BY <1>2 DEF GetToken
<1>3. ASSUME NEW w \in Workers, TakeMutex(w) PROVE Guarded'
  BY <1>3 DEF TakeMutex
<1>4. ASSUME NEW w \in Workers, TakeLock(w) PROVE Guarded'
  <2> SUFFICES ASSUME Quiet' PROVE Guarded'
    OBVIOUS
  <2>1. Quiet
    BY <1>4 DEF TakeLock
  <2>2. CASE LockFree
    <3>1. /\ lockOwner' = w /\ locked' = [locked EXCEPT ![w] = TRUE]
          /\ pc' = [pc EXCEPT ![w] = "reread"] /\ outcome' = outcome
      BY <1>4, <2>1, <2>2 DEF TakeLock
    <3>2. \A v \in Workers : pc[v] \notin Critical /\ ~locked[v]
      BY <2>1, <2>2
    <3> QED
      BY <1>4, <2>1, <3>1, <3>2 DEF TakeLock
  <2>3. CASE ~LockFree
    <3>1. /\ lockOwner' = lockOwner /\ locked' = locked
          /\ pc' = [pc EXCEPT ![w] = "unlock"] /\ outcome' = [outcome EXCEPT ![w] = "held"]
      BY <1>4, <2>1, <2>3 DEF TakeLock
    <3> QED
      BY <1>4, <2>1, <3>1 DEF TakeLock
  <2> QED
    BY <2>2, <2>3
<1>5. ASSUME NEW w \in Workers, Reread(w) PROVE Guarded'
  <2> SUFFICES ASSUME Quiet' PROVE Guarded'
    OBVIOUS
  <2>1. Quiet /\ lockOwner = w
    BY <1>5 DEF Reread
  <2> db = upstream
    BY <1>5, <2>1 DEF Reread, TokenKept
  <2>2. fresh'[w] = upstream /\ \A v \in Workers \ {w} : fresh'[v] = fresh[v]
    <3>1. fresh' = [fresh EXCEPT ![w] = db]
      BY <1>5, <2>1 DEF Reread
    <3> QED
      BY <3>1
  <2>3. lockOwner' = lockOwner /\ locked' = locked /\ status' = status /\ upstream' = upstream
    BY <1>5 DEF Reread
  <2>4. \A v \in Workers : \/ pc'[v] = pc[v] /\ outcome'[v] = outcome[v]
                           \/ v = w /\ pc'[v] = "refresh" /\ outcome'[v] = outcome[v]
                           \/ v = w /\ pc'[v] = "unlock" /\ outcome'[v] = "fresh"
    BY <1>5 DEF Reread
  <2> HIDE DEF TypeOK
  <2> QED
    BY <1>5, <2>1, <2>2, <2>3, <2>4 DEF Reread
<1>6. ASSUME NEW w \in Workers, RefreshOK(w) PROVE Guarded'
  BY <1>6 DEF RefreshOK
<1>7. ASSUME NEW w \in Workers, RefreshInvalid(w) PROVE Guarded'
  BY <1>7 DEF RefreshInvalid
<1>8. ASSUME NEW w \in Workers, RefreshFails(w) PROVE Guarded'
  BY <1>8 DEF RefreshFails
<1>9. ASSUME NEW w \in Workers, Recover(w) PROVE Guarded'
  BY <1>9 DEF Recover
<1>10. ASSUME NEW w \in Workers, Persist(w) PROVE Guarded'
  BY <1>10 DEF Persist, Stored
<1>11. ASSUME NEW w \in Workers, Unlock(w) PROVE Guarded'
  <2> SUFFICES ASSUME Quiet' PROVE Guarded'
    OBVIOUS
  <2>1. Quiet
    BY <1>11 DEF Unlock
  <2>2. pc'[w] \notin Critical \cup {"condemn"} /\ outcome'[w] = "none" /\ ~locked'[w]
    BY <1>11, <2>1 DEF Unlock, NextOf
  <2>3. \A v \in Workers \ {w} : /\ pc'[v] = pc[v] /\ outcome'[v] = outcome[v]
                                 /\ locked'[v] = locked[v]
    BY <1>11 DEF Unlock
  <2>4. (locked[w] /\ lockOwner' = NoWorker) \/ (~locked[w] /\ lockOwner' = lockOwner)
    BY <1>11, <2>1 DEF Unlock
  <2>5. fresh' = fresh /\ upstream' = upstream /\ status' = status
    BY <1>11 DEF Unlock
  <2>6. \A v \in Workers \ {w} : locked[w] => pc[v] \notin Critical /\ ~locked[v]
    BY <2>1
  <2> QED
    BY <2>1, <2>2, <2>3, <2>4, <2>5, <2>6
<1>12. ASSUME NEW w \in Workers, PostRefresh(w) PROVE Guarded'
  BY <1>12 DEF PostRefresh
<1>13. ASSUME NEW w \in Workers, Condemn(w) PROVE Guarded'
  BY <1>13 DEF Condemn
<1>14. ASSUME NEW w \in Workers, WaitForCache(w) PROVE Guarded'
  BY <1>14 DEF WaitForCache
<1>15. ASSUME NEW w \in Workers, CheckVersion(w) PROVE Guarded'
  BY <1>15 DEF CheckVersion
<1>16. ASSUME NEW w \in Workers, SetCache(w) PROVE Guarded'
  BY <1>16 DEF SetCache
<1>17. ASSUME NEW w \in Workers, ClientLeaves(w) PROVE Guarded'
  BY <1>17 DEF ClientLeaves
<1>18. CASE LockExpires
  BY <1>18 DEF LockExpires
<1>19. CASE CacheExpires
  BY <1>19 DEF CacheExpires
<1>20. CASE TokenAges
  BY <1>20 DEF TokenAges
<1>21. ASSUME NEW p \in Procs, Crash(p) PROVE Guarded'
  BY <1>21 DEF Crash
<1>22. CASE Rest \/ UNCHANGED vars
  BY <1>22 DEF Rest, vars
<1> QED
  BY <1>1, <1>2, <1>3, <1>4, <1>5, <1>6, <1>7, <1>8, <1>9, <1>10, <1>11,
     <1>12, <1>13, <1>14, <1>15, <1>16, <1>17, <1>18, <1>19, <1>20, <1>21, <1>22 DEF Next, Work

LEMMA AlwaysKnown == Spec => [](Known /\ TokenKept /\ Guarded)
<1>1. Known /\ TokenKept /\ Guarded /\ [Next]_vars => (Known /\ TokenKept /\ Guarded)'
  <2> SUFFICES ASSUME Known, TokenKept, Guarded, [Next]_vars
               PROVE  Known' /\ TokenKept' /\ Guarded'
    OBVIOUS
  <2>1. Known'
    BY TypeStep, KnownStep DEF Known
  <2> QED
    BY <2>1, KeptStep, GuardedStep
<1> QED
  BY InitKnown, <1>1, PTL DEF Spec

\* Credentials, locks, mutexes and workers have their types: in particular the
\* generations stay within MaxGen, because a token is refreshed only when it is due.
THEOREM TypeCorrect == Spec => []TypeOK
<1>1. Known => TypeOK
  BY DEF Known
<1> QED
  BY AlwaysKnown, <1>1, PTL

\* The refresh token the upstream accepts is in the database or about to be
\* stored there, for any number of processes that race and locks that lapse: it
\* takes a failed call, a crash or a client that leaves to lose it.
THEOREM KeepsToken == Spec => []TokenKept
BY AlwaysKnown, PTL

\* Two workers that race never put the account into error, as long as no lock
\* lapses under its holder and no call fails.
THEOREM CondemnsNobody == Spec => []NotCondemned
<1>1. Guarded => NotCondemned
  BY DEF Guarded, NotCondemned, Quiet, Undisturbed
<1> QED
  BY AlwaysKnown, <1>1, PTL

\* Whatever fails, lapses or dies, and though nothing compares versions when it
\* stores them: Persist never puts older credentials in the place of newer ones.
THEOREM StoresOnlyNewer == Spec => [][db' > db]_db
<1>1. Known /\ [Next]_vars => [db' > db]_db
  <2> SUFFICES ASSUME Known, [Next]_vars, db' # db PROVE db' > db
    OBVIOUS
  <2>1. PICK w \in Workers : Persist(w)
    BY DEF Next, Work, Begin, GetToken, TakeMutex, TakeLock, Reread, RefreshOK, RefreshInvalid,
       RefreshFails, Recover, Unlock, PostRefresh, Condemn, WaitForCache, CheckVersion, SetCache,
       ClientLeaves, LockExpires, CacheExpires, TokenAges, Crash, Rest, shared, vars
  <2> QED
    BY <2>1 DEF Persist, Stored, Known, Chain, TypeOK, Gens, OneStores
<1> QED
  BY AlwaysKnown, <1>1, PTL DEF Spec

===============================================================================
