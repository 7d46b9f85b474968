-------------------------- MODULE LockManagerProofs --------------------------
(***************************************************************************)
(* Proofs about the lock manager for any set of sessions, any lease time   *)
(* and any delay of the sweep.                                             *)
(***************************************************************************)
EXTENDS LockManager, TLAPS

-----------------------------------------------------------------------------
(* The arithmetic of ages, once: they stay in range, and waiting preserves
   their order *)
LEMMA AgesInRange ==
  /\ 0 \in Ages
  /\ \A lag \in Lags : lag \in Ages
  /\ \A a \in Ages : Older(a) \in Ages
  /\ \A a, b \in Ages : a <= b => Older(a) <= Older(b)
  /\ \A a \in Ages : 0 <= a /\ a <= a
BY LockManagerConstants DEF Ages, Lags, MaxAge, Older

(* Dropping locks keeps both tables of locks well typed *)
LEMMA WithoutType ==
  ASSUME TypeOK, NEW L
  PROVE  /\ Without(L) \in [Datastores -> Ids \cup {None}]
         /\ AgeWithout(L) \in [Datastores -> Ages]
BY AgesInRange, Zenon DEF TypeOK, Without, AgeWithout

(* So does what every request does to the table of sessions *)
LEMMA TouchType ==
  ASSUME TypeOK, NEW id, ExpireAndTouch(id)
  PROVE  /\ sessions' \in SUBSET Sessions
         /\ sessAge' \in [Sessions -> Ages]
BY AgesInRange, Zenon DEF TypeOK, ExpireAndTouch, ExpiredSessions

(***************************************************************************)
(* Type correctness of locks.go: the tables only ever hold session ids,    *)
(* and every LastSeen is a time that an operation could have written.      *)
(***************************************************************************)
THEOREM TypeCorrect == Spec => []TypeOK
<1>1. Init => TypeOK
  BY AgesInRange, Zenon DEF Init, TypeOK
<1>2. TypeOK /\ [Next]_vars => TypeOK'
  <2> SUFFICES ASSUME TypeOK, [Next]_vars PROVE TypeOK'
    BY Zenon
  <2> USE AgesInRange
  <2>1. ASSUME NEW ds \in Datastores, NEW id \in Ids, Lock(ds, id)
        PROVE  TypeOK'
    BY <2>1, WithoutType, TouchType DEF Lock, TypeOK
  <2>2. ASSUME NEW ds \in Datastores, NEW id \in Ids, Unlock(ds, id)
        PROVE  TypeOK'
    BY <2>2, WithoutType, TouchType, Zenon DEF Unlock, TypeOK
  <2>3. ASSUME NEW ds \in Datastores, NEW id \in Ids, Ensure(ds, id)
        PROVE  TypeOK'
    BY <2>3, WithoutType, TouchType, Zenon DEF Ensure, TypeOK
  <2>4. ASSUME NEW s \in Sessions, ReleaseSession(s)
        PROVE  TypeOK'
    BY <2>4, WithoutType, Zenon DEF ReleaseSession, TypeOK
  <2>5. CASE ResetAll
    BY <2>5, Zenon DEF ResetAll, TypeOK
  <2>6. ASSUME NEW K \in SUBSET Ids, NEW lag \in Lags, KeepAlive(K, lag)
        PROVE  TypeOK'
    BY <2>6, Zenon DEF KeepAlive, TypeOK, Ids
  <2>7. ASSUME NEW lag \in Lags, Sweep(lag)
        PROVE  TypeOK'
    BY <2>7, WithoutType, Zenon DEF Sweep, TypeOK
  <2>8. CASE Tick
    BY <2>8, Zenon DEF Tick, TypeOK
  <2>9. CASE UNCHANGED vars
    BY <2>9, Zenon DEF vars, TypeOK
  <2> QED
    BY <2>1, <2>2, <2>3, <2>4, <2>5, <2>6, <2>7, <2>8, <2>9, Zenon DEF Next, Collect
<1> QED
  BY <1>1, <1>2, PTL DEF Spec

-----------------------------------------------------------------------------
(* What the operations need of the invariant: a session that has expired, at
   any delay, holds no lock that has not *)
LEMMA ExpiryOrder ==
  ASSUME TypeOK, SessionOutlivesItsLocks, NEW lag \in Lags,
         NEW ds \in Datastores, locks[ds] \in ExpiredSessions(lag)
  PROVE  ds \in ExpiredLocks(lag)
<1>1. locks[ds] \in Sessions /\ sessAge[locks[ds]] > TTL + lag
  BY Zenon DEF TypeOK, ExpiredSessions
<1>2. sessAge[locks[ds]] <= lockAge[ds]
  BY <1>1, Zenon DEF SessionOutlivesItsLocks
<1>3. lockAge[ds] \in Nat /\ sessAge[locks[ds]] \in Nat /\ TTL + lag \in Nat
  BY <1>1, LockManagerConstants DEF TypeOK, Ages, Lags
<1> QED
  BY <1>1, <1>2, <1>3 DEF ExpiredLocks

(* A request keeps the order for every lock that was there and did not expire,
   whatever session makes it *)
LEMMA TouchKeepsOrder ==
  ASSUME TypeOK, SessionOutlivesItsLocks, NEW id \in Ids, ExpireAndTouch(id),
         NEW ds \in Datastores, ds \notin ExpiredLocks(0), locks[ds] \in Sessions
  PROVE  /\ locks[ds] \in sessions'
         /\ sessAge'[locks[ds]] <= lockAge[ds]
<1>1. 0 \in Lags
  BY LockManagerConstants DEF Lags
<1>2. locks[ds] \notin ExpiredSessions(0)
  BY <1>1, ExpiryOrder, Zenon
<1>3. lockAge[ds] \in Nat
  BY DEF TypeOK, Ages
<1> QED
  BY <1>2, <1>3 DEF ExpireAndTouch, SessionOutlivesItsLocks

(* The session that makes a request has just been seen *)
LEMMA TouchedIsFresh ==
  ASSUME TypeOK, NEW id \in Sessions, ExpireAndTouch(id)
  PROVE  id \in sessions' /\ sessAge'[id] = 0
BY Zenon DEF ExpireAndTouch

(***************************************************************************)
(* A session outlives its locks, for any lease time and sweep delay.  The  *)
(* invariant is inductive together with the types: expireLocked drops a    *)
(* session only with its locks (ExpiryOrder), touchLocked can only make    *)
(* the session younger, keepAlive makes both equally old.                  *)
(***************************************************************************)
THEOREM SessionsOutliveLocks == Spec => []SessionOutlivesItsLocks
<1>1. Init => SessionOutlivesItsLocks
  BY LockManagerConstants, Zenon DEF Init, SessionOutlivesItsLocks
<1>2. TypeOK /\ TypeOK' /\ SessionOutlivesItsLocks /\ [Next]_vars
        => SessionOutlivesItsLocks'
  <2> SUFFICES ASSUME TypeOK, TypeOK', SessionOutlivesItsLocks, [Next]_vars,
                      NEW d \in Datastores, locks'[d] \in Sessions
               PROVE  /\ locks'[d] \in sessions'
                      /\ sessAge'[locks'[d]] <= lockAge'[d]
    BY Zenon DEF SessionOutlivesItsLocks
  <2> USE LockManagerConstants
  <2>0. lockAge'[d] \in Nat /\ lockAge[d] \in Nat
    BY DEF TypeOK, Ages
  <2>1. ASSUME NEW ds \in Datastores, NEW id \in Ids, Lock(ds, id)
        PROVE  locks'[d] \in sessions' /\ sessAge'[locks'[d]] <= lockAge'[d]
    <3>1. CASE locks'[d] = id
      <4>1. id \in sessions' /\ sessAge'[id] = 0
        BY <2>1, <3>1, TouchedIsFresh, Zenon DEF Lock
      <4> QED
        BY <2>0, <3>1, <4>1
    <3>2. CASE locks'[d] # id
      <4>1. d \notin ExpiredLocks(0) /\ locks'[d] = locks[d] /\ lockAge'[d] = lockAge[d]
        BY <2>1, <3>2, Zenon DEF Lock, Without, AgeWithout, TypeOK
      <4> QED
        BY <2>1, <4>1, TouchKeepsOrder, Zenon DEF Lock
    <3> QED
      BY <3>1, <3>2, Zenon
  <2>2. ASSUME NEW ds \in Datastores, NEW id \in Ids, Unlock(ds, id)
        PROVE  locks'[d] \in sessions' /\ sessAge'[locks'[d]] <= lockAge'[d]
    <3>1. d \notin ExpiredLocks(0) /\ locks'[d] = locks[d] /\ lockAge'[d] = lockAge[d]
      BY <2>2, Zenon DEF Unlock, Without, AgeWithout, TypeOK
    <3> QED
      BY <2>2, <3>1, TouchKeepsOrder, Zenon DEF Unlock
  <2>3. ASSUME NEW ds \in Datastores, NEW id \in Ids, Ensure(ds, id)
        PROVE  locks'[d] \in sessions' /\ sessAge'[locks'[d]] <= lockAge'[d]
    <3>1. d \notin ExpiredLocks(0) /\ locks'[d] = locks[d] /\ lockAge'[d] = lockAge[d]
      BY <2>3, Zenon DEF Ensure, Without, AgeWithout, TypeOK
    <3> QED
      BY <2>3, <3>1, TouchKeepsOrder, Zenon DEF Ensure
  <2>4. ASSUME NEW s \in Sessions, ReleaseSession(s)
        PROVE  locks'[d] \in sessions' /\ sessAge'[locks'[d]] <= lockAge'[d]
    <3>1. locks[d] # s /\ locks'[d] = locks[d] /\ lockAge'[d] = lockAge[d]
      BY <2>4, Zenon DEF ReleaseSession, Without, AgeWithout, TypeOK
    <3> QED
      BY <2>4, <3>1, Zenon DEF ReleaseSession, SessionOutlivesItsLocks, TypeOK
  <2>5. CASE ResetAll
    BY <2>5, Zenon DEF ResetAll
  <2>6. ASSUME NEW K \in SUBSET Ids, NEW lag \in Lags, KeepAlive(K, lag)
        PROVE  locks'[d] \in sessions' /\ sessAge'[locks'[d]] <= lockAge'[d]
    <3>1. lag \in Nat /\ locks'[d] = locks[d]
      BY <2>6 DEF Lags, KeepAlive
    <3> QED
      BY <2>6, <3>1 DEF KeepAlive, SessionOutlivesItsLocks
  <2>7. ASSUME NEW lag \in Lags, Sweep(lag)
        PROVE  locks'[d] \in sessions' /\ sessAge'[locks'[d]] <= lockAge'[d]
    <3>1. d \notin ExpiredLocks(lag) /\ locks'[d] = locks[d] /\ lockAge'[d] = lockAge[d]
      BY <2>7, Zenon DEF Sweep, Without, AgeWithout, TypeOK
    <3>2. locks[d] \notin ExpiredSessions(lag)
      BY <3>1, ExpiryOrder, Zenon
    <3> QED
      BY <2>7, <3>1, <3>2, Zenon DEF Sweep, SessionOutlivesItsLocks
  <2>8. CASE Tick
    <3>1. /\ locks'[d] = locks[d]
          /\ sessions' = sessions
          /\ locks[d] \in sessions
          /\ sessAge[locks[d]] <= lockAge[d]
      BY <2>8, Zenon DEF Tick, SessionOutlivesItsLocks
    <3>2. /\ lockAge'[d] = Older(lockAge[d])
          /\ sessAge'[locks[d]] = Older(sessAge[locks[d]])
      BY <2>8, <3>1, Zenon DEF Tick
    <3> QED
      BY <3>1, <3>2, AgesInRange DEF TypeOK
  <2>9. CASE UNCHANGED vars
    BY <2>9, Zenon DEF vars, SessionOutlivesItsLocks
  <2> QED
    BY <2>1, <2>2, <2>3, <2>4, <2>5, <2>6, <2>7, <2>8, <2>9, Zenon DEF Next, Collect
<1> QED
  BY <1>1, <1>2, TypeCorrect, PTL DEF Spec

-----------------------------------------------------------------------------
(* A lock seen within the lease time, or held without a session, is not among
   the expired ones, however old the time of a sweep *)
LEMMA FreshIsNotExpired ==
  ASSUME TypeOK, NEW lag \in Lags, NEW d \in Datastores,
         lockAge[d] <= TTL \/ locks[d] = Anon
  PROVE  d \notin ExpiredLocks(lag)
<1>1. lockAge[d] \in Nat /\ TTL \in Nat /\ lag \in Nat
  BY LockManagerConstants DEF TypeOK, Ages, Lags
<1> QED
  BY <1>1, LockManagerConstants DEF ExpiredLocks

(***************************************************************************)
(* A fresh lock is lost only by its owner's unlock, its owner's close or a *)
(* reset of all sessions, for any number of sessions and any lease time.   *)
(***************************************************************************)
THEOREM FreshLocksAreKept == Spec => FreshLockIsKept
<1>1. TypeOK /\ [Next]_vars => [\A ds \in Datastores : IsTaken(ds) => ByRight(ds)]_vars
  <2> SUFFICES ASSUME TypeOK, [Next]_vars, NEW d \in Datastores, IsTaken(d)
               PROVE  ByRight(d)
    BY Zenon
  <2> USE DEF IsTaken, ByRight
  <2>0. 0 \in Lags /\ \A lag \in Lags : d \notin ExpiredLocks(lag)
    BY FreshIsNotExpired, LockManagerConstants DEF Lags
  <2>1. ASSUME NEW ds \in Datastores, NEW id \in Ids, Lock(ds, id)
        PROVE  FALSE
    BY <2>0, <2>1, Zenon DEF Lock, Without
  <2>2. ASSUME NEW ds \in Datastores, NEW id \in Ids, Unlock(ds, id)
        PROVE  ByRight(d)
    <3>1. ds = d /\ id = locks[d]
      BY <2>0, <2>2, Zenon DEF Unlock, Without
    <3> QED
      BY <2>2, <3>1, Zenon
  <2>3. ASSUME NEW ds \in Datastores, NEW id \in Ids, Ensure(ds, id)
        PROVE  FALSE
    BY <2>0, <2>3, Zenon DEF Ensure, Without
  <2>4. ASSUME NEW s \in Sessions, ReleaseSession(s)
        PROVE  ByRight(d)
    <3>1. locks[d] = s
      BY <2>4, Zenon DEF ReleaseSession, Without
    <3> QED
      BY <2>4, <3>1, Zenon
  <2>5. CASE ResetAll
    BY <2>5, Zenon
  <2>6. ASSUME NEW K \in SUBSET Ids, NEW lag \in Lags, KeepAlive(K, lag)
        PROVE  FALSE
    BY <2>6, Zenon DEF KeepAlive
  <2>7. ASSUME NEW lag \in Lags, Sweep(lag)
        PROVE  FALSE
    BY <2>0, <2>7, Zenon DEF Sweep, Without
  <2>8. CASE Tick
    BY <2>8, Zenon DEF Tick
  <2>9. CASE UNCHANGED vars
    BY <2>9, Zenon DEF vars
  <2> QED
    BY <2>1, <2>2, <2>3, <2>4, <2>5, <2>6, <2>7, <2>8, <2>9, Zenon DEF Next, Collect
<1> QED
  BY <1>1, TypeCorrect, PTL DEF Spec, FreshLockIsKept

-----------------------------------------------------------------------------
(* What the clock makes expire is an outcome the untimed service allows *)
LEMMA ExpiryIsAllowed ==
  ASSUME TypeOK, SessionOutlivesItsLocks, NEW lag \in Lags,
         NEW S \in SUBSET ExpiredSessions(lag)
  PROVE  /\ Lease!MayExpire(ExpiredLocks(lag), S)
         /\ ExpiredLocks(lag) \in SUBSET Lease!Expirable
         /\ S \in SUBSET sessions
         /\ Lease!AfterExpiry(ExpiredLocks(lag)) = Without(ExpiredLocks(lag))
<1>1. ExpiredLocks(lag) \subseteq Lease!Expirable
  BY Zenon DEF ExpiredLocks, Lease!Expirable, Lease!Datastores, Datastores
<1>2. S \subseteq sessions
  BY Zenon DEF ExpiredSessions
<1>3. \A s \in S : Lease!HeldBy(s) \subseteq ExpiredLocks(lag)
  BY ExpiryOrder, Zenon DEF Lease!HeldBy, Lease!Datastores, Datastores
<1>4. Lease!AfterExpiry(ExpiredLocks(lag)) = Without(ExpiredLocks(lag))
  BY Zenon DEF Lease!AfterExpiry, Without, Lease!Datastores, Datastores
<1> QED
  BY <1>1, <1>2, <1>3, <1>4, Zenon DEF Lease!MayExpire

(* touchLocked spares the session it touches; for the untimed service that is
   a session that expires and is entered again, or one that did not expire *)
LEMMA TouchIsAllowed ==
  ASSUME TypeOK, NEW id \in Ids, ExpireAndTouch(id)
  PROVE  Lease!ExpireAndTouch(ExpiredSessions(0), id)
BY Zenon DEF ExpireAndTouch, Lease!ExpireAndTouch

(***************************************************************************)
(* locks.go implements the untimed lock service that manager.go is         *)
(* modelled on, for any sessions, lease time and sweep delay: each call is *)
(* the call of the same name there, and time passing is a stutter.         *)
(***************************************************************************)
THEOREM ImplementsLeaseLock == Spec => ImplementsLease
<1>1. Init => Lease!LeaseInit
  BY Zenon DEF Init, Lease!LeaseInit, Datastores, Lease!Datastores
<1>2. TypeOK /\ SessionOutlivesItsLocks /\ [Next]_vars
        => [Lease!LeaseNext]_(Lease!leaseVars)
  <2> SUFFICES ASSUME TypeOK, SessionOutlivesItsLocks, [Next]_vars
               PROVE  Lease!LeaseNext \/ UNCHANGED <<locks, sessions>>
    BY Zenon DEF Lease!leaseVars
  <2> DEFINE L == ExpiredLocks(0)
             S == ExpiredSessions(0)
  <2>0. /\ Lease!MayExpire(L, S)
        /\ L \in SUBSET Lease!Expirable
        /\ S \in SUBSET sessions
        /\ Lease!AfterExpiry(L) = Without(L)
    <3>1. 0 \in Lags
      BY LockManagerConstants DEF Lags
    <3> QED
      BY <3>1, ExpiryIsAllowed, Zenon
  <2>a. Datastores = Lease!Datastores /\ Ids = Lease!Ids
    BY Zenon DEF Datastores, Lease!Datastores, Ids, Lease!Ids
  <2> HIDE DEF L, S
  <2>1. ASSUME NEW ds \in Datastores, NEW id \in Ids, Lock(ds, id)
        PROVE  Lease!LeaseNext
    <3>1. Lease!Lock(ds, id, L, S)
      BY <2>0, <2>1, TouchIsAllowed, Zenon DEF Lock, Lease!Lock, L, S
    <3> QED
      BY <2>0, <2>a, <3>1, Zenon DEF Lease!LeaseNext
  <2>2. ASSUME NEW ds \in Datastores, NEW id \in Ids, Unlock(ds, id)
        PROVE  Lease!LeaseNext
    <3>1. locks' = [Without(L) EXCEPT ![ds] = IF @ = id THEN None ELSE @]
      BY <2>2, Zenon DEF Unlock, Without, L
    <3>2. Lease!Unlock(ds, id, L, S)
      BY <2>0, <2>2, <3>1, TouchIsAllowed, Zenon DEF Unlock, Lease!Unlock, S
    <3> QED
      BY <2>0, <2>a, <3>2, Zenon DEF Lease!LeaseNext
  <2>3. ASSUME NEW ds \in Datastores, NEW id \in Ids, Ensure(ds, id)
        PROVE  Lease!LeaseNext
    <3>1. Lease!Ensure(ds, id, L, S)
      BY <2>0, <2>3, TouchIsAllowed, Zenon DEF Ensure, Lease!Ensure, L, S
    <3> QED
      BY <2>0, <2>a, <3>1, Zenon DEF Lease!LeaseNext
  <2>4. ASSUME NEW s \in Sessions, ReleaseSession(s)
        PROVE  Lease!LeaseNext
    <3>1. Lease!ReleaseSession(s)
      BY <2>4, <2>a, Zenon DEF ReleaseSession, Lease!ReleaseSession, Without,
                        Lease!AfterExpiry, Lease!HeldBy
    <3> QED
      BY <3>1, Zenon DEF Lease!LeaseNext
  <2>5. CASE ResetAll
    BY <2>5, <2>a, Zenon DEF ResetAll, Lease!ResetAll, Lease!LeaseNext
  <2>6. ASSUME NEW K \in SUBSET Ids, NEW lag \in Lags, KeepAlive(K, lag)
        PROVE  Lease!LeaseNext
    <3>1. K \ {Anon} \in SUBSET Sessions
      BY Zenon DEF Ids
    <3>2. Lease!KeepAlive(K \ {Anon})
      BY <2>6, Zenon DEF KeepAlive, Lease!KeepAlive
    <3> QED
      BY <3>1, <3>2, Zenon DEF Lease!LeaseNext
  <2>7. ASSUME NEW lag \in Lags, Sweep(lag)
        PROVE  Lease!LeaseNext
    <3> DEFINE Lg == ExpiredLocks(lag)
               Sg == ExpiredSessions(lag)
    <3>1. /\ Lease!MayExpire(Lg, Sg)
          /\ Lg \in SUBSET Lease!Expirable
          /\ Sg \in SUBSET sessions
          /\ Lease!AfterExpiry(Lg) = Without(Lg)
      BY ExpiryIsAllowed, Zenon
    <3>2. Lease!Sweep(Lg, Sg)
      BY <2>7, <3>1, Zenon DEF Sweep, Lease!Sweep
    <3>3. \E ds \in Lease!Datastores, id \in Lease!Ids : TRUE
      BY <2>a, Zenon DEF Datastores, Ids
    <3> HIDE DEF Lg, Sg
    <3> QED
      BY <3>1, <3>2, <3>3, Zenon DEF Lease!LeaseNext
  <2>8. CASE Tick
    BY <2>8, Zenon DEF Tick
  <2>9. CASE UNCHANGED vars
    BY <2>9, Zenon DEF vars
  <2> QED
    BY <2>1, <2>2, <2>3, <2>4, <2>5, <2>6, <2>7, <2>8, <2>9, Zenon DEF Next, Collect
<1> QED
  BY <1>1, <1>2, TypeCorrect, SessionsOutliveLocks, PTL
     DEF Spec, ImplementsLease, Lease!LeaseSpec
=============================================================================
