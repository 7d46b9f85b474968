----------------------------- MODULE LockManager -----------------------------
(***************************************************************************)
(* The NETCONF lock manager, internal/ems/netconfcm/locks.go: one lock per *)
(* datastore, a table of sessions, and leases that run out when an owner   *)
(* is not heard from for longer than TTL.  m.mu makes every operation one  *)
(* atomic step.                                                            *)
(*                                                                         *)
(* A LastSeen time is kept as its distance from now, so that the clock     *)
(* needs no bound: Tick makes every entry one unit older, and ages stop    *)
(* counting at MaxAge, beyond which nothing tells them apart.  A caller of *)
(* keepAlive and sweep passes a time it read before it got the mutex (the  *)
(* ticker's channel delivers a time that may be old); it is at most MaxLag *)
(* units behind.                                                           *)
(***************************************************************************)
EXTENDS Naturals

CONSTANTS
  Sessions,   \* the non-zero NETCONF session ids
  Anon,       \* session id 0: a request that names no session
  None,       \* "no entry" in the lock table
  TTL,        \* m.ttl, in clock units
  MaxLag      \* bound on how old the time of keepAlive and sweep may be

ASSUME LockManagerConstants ==
  /\ Anon \notin Sessions
  /\ None \notin Sessions \cup {Anon}
  /\ TTL \in Nat \ {0}
  /\ MaxLag \in Nat

Datastores == {"candidate", "running"}
Ids == Sessions \cup {Anon}
MaxAge == TTL + MaxLag + 1
Ages == 0..MaxAge
Lags == 0..MaxLag

VARIABLES
  locks,      \* m.locks: the id that holds the lock on ds, or None
  lockAge,    \* now - m.locks[ds].LastSeen; 0 where there is no lock
  sessions,   \* the keys of m.sessions
  sessAge     \* now - m.sessions[s].LastSeen; 0 where there is no entry

vars == <<locks, lockAge, sessions, sessAge>>

(* Fault: expireLocked compares with >= instead of > *)
EarlyExpiry(lag) ==
  {ds \in Datastores : locks[ds] \in Sessions /\ lockAge[ds] >= TTL + lag}

(* Fault: expireLocked looks at m.sessions only *)
NoLockExpiry(lag) == {}

(* expireLocked at a time lag units ago: a lock of session 0 never expires *)
ExpiredLocks(lag) ==
  {ds \in Datastores : locks[ds] \in Sessions /\ lockAge[ds] > TTL + lag}

ExpiredSessions(lag) == {s \in sessions : sessAge[s] > TTL + lag}

Without(L) == [ds \in Datastores |-> IF ds \in L THEN None ELSE locks[ds]]

AgeWithout(L) == [ds \in Datastores |-> IF ds \in L THEN 0 ELSE lockAge[ds]]

(* touchLocked, after expireLocked: refreshes the entry of the session in
   m.sessions, and not the locks the session holds *)
ExpireAndTouch(id) ==
  LET touched == {id} \cap Sessions
      gone == ExpiredSessions(0) \ touched
  IN /\ sessions' = (sessions \ gone) \cup touched
     /\ sessAge' = [s \in Sessions |->
                      IF s \in gone \cup touched THEN 0 ELSE sessAge[s]]

(* lock.  A second lock by the owner is refused as well, but renews it. *)
Lock(ds, id) ==
  LET L == ExpiredLocks(0)
      table == Without(L)
  IN /\ locks' = [table EXCEPT ![ds] = IF @ = None THEN id ELSE @]
     /\ lockAge' = [AgeWithout(L) EXCEPT
                      ![ds] = IF table[ds] \in {None, id} THEN 0 ELSE @]
     /\ ExpireAndTouch(id)

(* unlock.  A lock nobody holds is no error, another's lock is. *)
Unlock(ds, id) ==
  LET L == ExpiredLocks(0)
      table == Without(L)
      freed == IF table[ds] = id THEN {ds} ELSE {}
  IN /\ locks' = Without(L \cup freed)
     /\ lockAge' = AgeWithout(L \cup freed)
     /\ ExpireAndTouch(id)

(* ensure: refused when another session holds the lock *)
Ensure(ds, id) ==
  /\ locks' = Without(ExpiredLocks(0))
  /\ lockAge' = AgeWithout(ExpiredLocks(0))
  /\ ExpireAndTouch(id)

(* Fault: releaseSession without its loop over m.locks *)
ReleaseEntryOnly(s) ==
  /\ sessions' = sessions \ {s}
  /\ sessAge' = [sessAge EXCEPT ![s] = 0]
  /\ UNCHANGED <<locks, lockAge>>

(* releaseSession; for id 0 it returns at once *)
ReleaseSession(s) ==
  LET held == {ds \in Datastores : locks[ds] = s}
  IN /\ locks' = Without(held)
     /\ lockAge' = AgeWithout(held)
     /\ sessions' = sessions \ {s}
     /\ sessAge' = [sessAge EXCEPT ![s] = 0]

ResetAll ==
  /\ locks' = [ds \in Datastores |-> None]
  /\ lockAge' = [ds \in Datastores |-> 0]
  /\ sessions' = {}
  /\ sessAge' = [s \in Sessions |-> 0]

(* Fault: keepAlive refreshes the locks and not m.sessions *)
KeepAliveLocksOnly(K, lag) ==
  /\ lockAge' = [ds \in Datastores |->
                   IF locks[ds] \in K \cap Sessions THEN lag ELSE lockAge[ds]]
  /\ UNCHANGED <<locks, sessions, sessAge>>

(* Fault: keepAlive without its test for session 0 *)
KeepAliveZero(K, lag) ==
  /\ sessions' = sessions \cup K
  /\ sessAge' = [s \in Sessions |-> IF s \in K THEN lag ELSE sessAge[s]]
  /\ lockAge' = [ds \in Datastores |->
                   IF locks[ds] \in K THEN lag ELSE lockAge[ds]]
  /\ UNCHANGED locks

(* keepAlive for the ids K, with a time lag units old: sets the time of every
   non-zero id and of the locks it holds, whether it had an entry or not *)
KeepAlive(K, lag) ==
  LET alive == K \ {Anon}
  IN /\ sessions' = sessions \cup alive
     /\ sessAge' = [s \in Sessions |-> IF s \in alive THEN lag ELSE sessAge[s]]
     /\ lockAge' = [ds \in Datastores |->
                      IF locks[ds] \in alive THEN lag ELSE lockAge[ds]]
     /\ UNCHANGED locks

(* sweep: expireLocked alone *)
Sweep(lag) ==
  LET L == ExpiredLocks(lag)
      S == ExpiredSessions(lag)
  IN /\ locks' = Without(L)
     /\ lockAge' = AgeWithout(L)
     /\ sessions' = sessions \ S
     /\ sessAge' = [s \in Sessions |-> IF s \in S THEN 0 ELSE sessAge[s]]

Older(age) == IF age < MaxAge THEN age + 1 ELSE age

(* The passage of one unit of time *)
Tick ==
  /\ lockAge' = [ds \in Datastores |->
                   IF locks[ds] = None THEN 0 ELSE Older(lockAge[ds])]
  /\ sessAge' = [s \in Sessions |->
                   IF s \in sessions THEN Older(sessAge[s]) ELSE 0]
  /\ UNCHANGED <<locks, sessions>>

(* newLockManager *)
Init ==
  /\ locks = [ds \in Datastores |-> None]
  /\ lockAge = [ds \in Datastores |-> 0]
  /\ sessions = {}
  /\ sessAge = [s \in Sessions |-> 0]

Collect == \E lag \in Lags : Sweep(lag)

Next ==
  \/ \E ds \in Datastores, id \in Ids :
       Lock(ds, id) \/ Unlock(ds, id) \/ Ensure(ds, id)
  \/ \E s \in Sessions : ReleaseSession(s)
  \/ ResetAll
  \/ \E K \in SUBSET Ids, lag \in Lags : KeepAlive(K, lag)
  \/ Collect
  \/ Tick

Spec == Init /\ [][Next]_vars

(* Time passes, and the ticker of NetconfSessionGC.Run keeps firing *)
FairSpec == Spec /\ WF_vars(Tick) /\ WF_vars(Collect)

-----------------------------------------------------------------------------
TypeOK ==
  /\ locks \in [Datastores -> Ids \cup {None}]
  /\ lockAge \in [Datastores -> Ages]
  /\ sessions \in SUBSET Sessions
  /\ sessAge \in [Sessions -> Ages]

(***************************************************************************)
(* A session is always at least as recently seen as any lock it holds, and *)
(* has an entry while it holds one.  touchLocked refreshes only m.sessions *)
(* and keepAlive both, so a sweep (locks.go:184-202) that drops a session  *)
(* drops its locks with it, and SweepExpiredSessions hears of both.        *)
(***************************************************************************)
SessionOutlivesItsLocks ==
  \A ds \in Datastores : locks[ds] \in Sessions =>
    /\ locks[ds] \in sessions
    /\ sessAge[locks[ds]] <= lockAge[ds]

(* A step that takes a fresh lock on ds away, and the ones that may *)
IsTaken(ds) ==
  /\ locks[ds] # None
  /\ lockAge[ds] <= TTL \/ locks[ds] = Anon
  /\ locks'[ds] # locks[ds]

ByRight(ds) ==
  \/ Unlock(ds, locks[ds])
  \/ ResetAll
  \/ locks[ds] \in Sessions /\ ReleaseSession(locks[ds])

(***************************************************************************)
(* A lock whose owner was seen within TTL is lost only through the owner's *)
(* own unlock, its close, or the reset of all sessions; whatever the other *)
(* sessions call, and however late a sweep's time is, it cannot be taken.  *)
(***************************************************************************)
FreshLockIsKept == [][\A ds \in Datastores : IsTaken(ds) => ByRight(ds)]_vars

(* The untimed lock service that the Manager of manager.go relies on *)
Lease == INSTANCE LeaseLock

(***************************************************************************)
(* locks.go implements the untimed service: in every step, which leases    *)
(* run out is one of the outcomes LeaseLock allows.                        *)
(***************************************************************************)
ImplementsLease == Lease!LeaseSpec

(***************************************************************************)
(* A session that stops being heard from does not keep a datastore locked: *)
(* once a lease starts to age it is renewed (lock, keepAlive) or it ends.  *)
(***************************************************************************)
AgingLeaseEnds ==
  \A ds \in Datastores, s \in Sessions :
    (locks[ds] = s /\ lockAge[ds] > MaxLag)
      ~> (locks[ds] # s \/ lockAge[ds] <= MaxLag)

=============================================================================
