------------------------------ MODULE LeaseLock ------------------------------
(***************************************************************************)
(* What the NETCONF lock manager (internal/ems/netconfcm/locks.go)         *)
(* promises its caller, without time.  Two datastores can be locked; a     *)
(* session holds a lock until it unlocks it, is closed, all sessions are   *)
(* reset, or its lease runs out.  Every operation may first collect the    *)
(* leases that ran out; which ones did is left open here and settled by    *)
(* the clock of module LockManager, which implements this specification.   *)
(***************************************************************************)
EXTENDS Naturals

CONSTANTS
  Sessions,   \* the non-zero NETCONF session ids
  Anon,       \* session id 0: a request that names no session
  None        \* "no entry" in the lock table

ASSUME SessionIds == /\ Anon \notin Sessions
                     /\ None \notin Sessions \cup {Anon}

Datastores == {"candidate", "running"}   \* what normalizeDatastore accepts
Ids == Sessions \cup {Anon}

VARIABLES
  locks,      \* locks[ds]: the id that holds the lock on ds, or None
  sessions    \* the session ids the manager has an entry for

leaseVars == <<locks, sessions>>

(* The locks that expireLocked looks at: those of session 0 never expire *)
Expirable == {ds \in Datastores : locks[ds] \in Sessions}

HeldBy(id) == {ds \in Datastores : locks[ds] = id}

(***************************************************************************)
(* A possible outcome of expireLocked: L are the datastores whose lock     *)
(* expires, S the sessions that do.  A session never expires before the    *)
(* locks it holds.                                                         *)
(***************************************************************************)
MayExpire(L, S) ==
  /\ L \subseteq Expirable
  /\ S \subseteq sessions
  /\ \A s \in S : HeldBy(s) \subseteq L

AfterExpiry(L) == [ds \in Datastores |-> IF ds \in L THEN None ELSE locks[ds]]

(* expireLocked and touchLocked, on the table of sessions *)
ExpireAndTouch(S, id) == sessions' = (sessions \ S) \cup ({id} \cap Sessions)

(* The lock table lets id use ds: nobody else holds it *)
Admits(table, ds, id) == table[ds] \in {None, id}

(* lock: granted when the datastore is free once stale locks are gone *)
Lock(ds, id, L, S) ==
  /\ MayExpire(L, S)
  /\ locks' = [AfterExpiry(L) EXCEPT ![ds] = IF @ = None THEN id ELSE @]
  /\ ExpireAndTouch(S, id)

(* unlock: only the owner's call removes the lock *)
Unlock(ds, id, L, S) ==
  /\ MayExpire(L, S)
  /\ locks' = [AfterExpiry(L) EXCEPT ![ds] = IF @ = id THEN None ELSE @]
  /\ ExpireAndTouch(S, id)

(* ensure: looks only; what it returns is Admits(AfterExpiry(L), ds, id) *)
Ensure(ds, id, L, S) ==
  /\ MayExpire(L, S)
  /\ locks' = AfterExpiry(L)
  /\ ExpireAndTouch(S, id)

(* Fault: releaseSession without its loop over m.locks *)
ReleaseEntryOnly(id) ==
  /\ id \in Sessions
  /\ sessions' = sessions \ {id}
  /\ UNCHANGED locks

(* releaseSession: session 0 is refused *)
ReleaseSession(id) ==
  /\ id \in Sessions
  /\ locks' = AfterExpiry(HeldBy(id))
  /\ sessions' = sessions \ {id}

ResetAll ==
  /\ locks' = [ds \in Datastores |-> None]
  /\ sessions' = {}

(* keepAlive re-creates the entry of every session it names *)
KeepAlive(K) ==
  /\ sessions' = sessions \cup K
  /\ UNCHANGED locks

Sweep(L, S) ==
  /\ MayExpire(L, S)
  /\ locks' = AfterExpiry(L)
  /\ sessions' = sessions \ S

LeaseInit ==
  /\ locks = [ds \in Datastores |-> None]
  /\ sessions = {}

LeaseNext ==
  \/ \E ds \in Datastores, id \in Ids,
        L \in SUBSET Expirable, S \in SUBSET sessions :
       \/ Lock(ds, id, L, S)
       \/ Unlock(ds, id, L, S)
       \/ Ensure(ds, id, L, S)
       \/ Sweep(L, S)
  \/ \E id \in Sessions : ReleaseSession(id)
  \/ ResetAll
  \/ \E K \in SUBSET Sessions : KeepAlive(K)

LeaseSpec == LeaseInit /\ [][LeaseNext]_leaseVars

-----------------------------------------------------------------------------
(***************************************************************************)
(* Every named holder of a lock is a session the manager still tracks: no  *)
(* path of locks.go drops the entry of a session (expiry, close, reset)    *)
(* and leaves a lock behind that nobody could ever be told about.          *)
(***************************************************************************)
HolderIsTracked ==
  \A ds \in Datastores : locks[ds] \in Sessions => locks[ds] \in sessions
=============================================================================
