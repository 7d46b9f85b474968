------------------------- MODULE NetconfServerProofs -------------------------
(***************************************************************************)
(* Proofs about the NETCONF server on top of the lock manager, for any     *)
(* number of slots and sessions: what its table refers to, whose the locks *)
(* are, which leases it renews, and for which lengths of a turn and losses *)
(* of keepalives no connected session loses its lock.  And about the supervisor of its      *)
(* process, for any delays (Supervisor.Run, ProcessServer.Run).            *)
(***************************************************************************)
EXTENDS NetconfServer, ServerSupervisor, NaturalsInduction, WellFoundedInduction, TLAPS

Table == [1..Slots -> Nat]

(* No two slots of t hold the same session *)
Distinct(t) == \A i, j \in 1..Slots : t[i] = t[j] /\ t[i] # 0 => i = j

(* The inductive invariant: the sessions that are connected have ids that were
   given out, so that a new one is not in the table; a process that is down has
   none. *)
TableInv ==
  /\ next \in Nat \ {0}
  /\ \A s \in conns : s \in Ids /\ s < next
  /\ slots \in Table
  /\ \A i \in 1..Slots : slots[i] # 0 => slots[i] \in conns
  /\ Distinct(slots)
  /\ phase = "down" => conns = {}

(* track_session puts a session into at most one slot and leaves the others as
   they are. *)
LEMMA TrackKeeps ==
  ASSUME slots \in Table, Distinct(slots), NEW s \in Nat
  PROVE  /\ Track(s) \in Table
         /\ \A i \in 1..Slots : Track(s)[i] \in {slots[i], s}
         /\ Distinct(Track(s))
<1> DEFINE free == {i \in 1..Slots : slots[i] = 0}
           k == CHOOSE i \in free : \A j \in free : i <= j
<1>1. CASE s \in Tracked \/ free = {}
  BY <1>1, Zenon DEF Track
<1>2. CASE ~(s \in Tracked \/ free = {})
  <2>1. Track(s) = [slots EXCEPT ![k] = s]
    BY <1>2, Zenon DEF Track
  <2>2. \A i \in 1..Slots : s # 0 => slots[i] # s
    BY <1>2, Zenon DEF Tracked
  <2> HIDE DEF k
  <2>4. Track(s) \in Table
    BY <2>1, Zenon DEF Table
  <2>5. \A i \in 1..Slots : Track(s)[i] = IF i = k THEN s ELSE slots[i]
    BY <2>1, Zenon DEF Table
  <2>6. Distinct(Track(s))
    <3> SUFFICES ASSUME NEW i \in 1..Slots, NEW j \in 1..Slots,
                        Track(s)[i] = Track(s)[j], Track(s)[i] # 0
                 PROVE  i = j
      BY Zenon DEF Distinct
    <3>1. CASE i = k \/ j = k
      BY <3>1, <2>2, <2>5, Zenon
    <3>2. CASE i # k /\ j # k
      BY <3>2, <2>5, Zenon DEF Distinct
    <3> QED
      BY <3>1, <3>2, Zenon
  <2> QED
    BY <2>4, <2>5, <2>6, Zenon
<1> QED
  BY <1>1, <1>2, Zenon

(* untrack_session frees the slot of the session and no other. *)
LEMMA UntrackFrees ==
  ASSUME slots \in Table, Distinct(slots), NEW s
  PROVE  /\ Untrack(s) \in Table
         /\ \A i \in 1..Slots : Untrack(s)[i] # 0 =>
              Untrack(s)[i] = slots[i] /\ slots[i] # s
         /\ Distinct(Untrack(s))
BY Zenon DEF Untrack, Free, Table, Distinct

LEMMA TableInit == Init => TableInv
BY DEF Init, TableInv, Distinct, Table, Free

(* Every step of the server and of the EMS keeps the invariant. *)
LEMMA TableStep == TableInv /\ [Next]_vars => TableInv'
<1> SUFFICES ASSUME TableInv, [Next]_vars PROVE TableInv'
  BY Zenon
<1>1. CASE Start
  BY <1>1 DEF Start, TableInv, Distinct
<1>2. CASE Stop
  BY <1>2 DEF Stop, TableInv, Distinct, Table, Free
<1>3. CASE Accept
  <2>1. CASE UNCHANGED table
    BY <1>3, <2>1, Zenon DEF Accept, table, TableInv, Distinct
  <2>2. CASE next \in Ids /\ conns' = conns \cup {next} /\ slots' = Track(next) /\ next' = next + 1
    <3>1. /\ slots' \in Table /\ Distinct(slots')
          /\ \A i \in 1..Slots : slots'[i] \in {slots[i], next}
      BY <2>2, TrackKeeps, Zenon DEF TableInv
    <3> QED
      BY <1>3, <2>2, <3>1 DEF Accept, TableInv, Distinct, Ids
  <2> QED
    BY <1>3, <2>1, <2>2, Zenon DEF Accept
<1>4. ASSUME NEW s \in Ids, EndSession(s) PROVE TableInv'
  <2>1. /\ slots' \in Table /\ Distinct(slots')
        /\ \A i \in 1..Slots : slots'[i] # 0 => slots'[i] = slots[i] /\ slots[i] # s
    BY <1>4, UntrackFrees, Zenon DEF EndSession, TableInv
  <2> QED
    BY <1>4, <2>1, Zenon DEF EndSession, TableInv, Distinct
<1>5. ASSUME NEW s \in Ids, RpcSubscribe(s) PROVE TableInv'
  <2>1. /\ Track(s) \in Table /\ Distinct(Track(s))
        /\ \A i \in 1..Slots : Track(s)[i] \in {slots[i], s}
    BY TrackKeeps DEF TableInv, Ids
  <2> QED
    BY <1>5, <2>1, Zenon DEF RpcSubscribe, TableInv, Distinct
<1>6. ASSUME UNCHANGED table, phase' = "down" => phase = "down" PROVE TableInv'
  BY <1>6, Zenon DEF table, TableInv, Distinct
<1>7. CASE \/ NoEvent \/ NotYet \/ SendKeepAlive \/ KeepAliveArrives \/ KeepAliveIsLost
           \/ KeepAliveDone \/ Tick \/ Collect \/ UNCHANGED vars
  BY <1>6, <1>7, Zenon
     DEF NoEvent, NotYet, SendKeepAlive, KeepAliveArrives, KeepAliveIsLost, KeepAliveDone, Tick,
         Collect, vars
<1>8. ASSUME NEW s \in Ids, RpcOther(s) PROVE TableInv'
  BY <1>6, <1>8, Zenon DEF RpcOther
<1>9. ASSUME NEW s \in Ids, NEW ds \in Targets, RpcLock(s, ds) \/ RpcUnlock(s, ds) \/ RpcUse(s, ds)
      PROVE  TableInv'
  BY <1>6, <1>9, Zenon DEF RpcLock, RpcUnlock, RpcUse
<1> QED
  BY <1>1, <1>2, <1>3, <1>4, <1>5, <1>7, <1>8, <1>9, Zenon DEF Next, Loop

(* The server never goes through a session that was freed, and never twice through
   the same one, for any size of the table (server.c:440-475). *)
THEOREM TableIsTrue == Spec => []SlotsAreConnected
<1>1. TableInv => SlotsAreConnected
  BY Zenon DEF TableInv, SlotsAreConnected, Tracked, Distinct
<1> QED
  BY <1>1, TableInit, TableStep, PTL DEF Spec
-----------------------------------------------------------------------------
(* The lock manager as the server uses it *)

(* Its tables are typed, and a lock that is known to be of this process is of an id
   that was given out, so that no session to come has it. *)
OwnInv ==
  /\ locks \in [LM!Datastores -> Ids \cup {Anon, None}]
  /\ lockAge \in [LM!Datastores -> Nat]
  /\ clean /\ phase # "down" => \A ds \in Targets : locks[ds] \in Ids => locks[ds] < next
  /\ LockIsOwn

(* The longest time from one keepalive to the next, if no turn of the loop takes
   longer than MaxTurn *)
Round == Period + MaxTurn

(* No less than the time since last_keepalive: from Period on only the turns count *)
Since == IF idle < Period THEN idle ELSE Period + turn

(* The keepalives since the last that arrived *)
Owed == IF phase = "send" THEN missed + 1 ELSE missed

(* The thread's own time.  While it waits for the answer to a keepalive it knows how
   long it has been waiting. *)
ClockInv ==
  /\ idle \in 0..Period /\ missed \in 0..MaxMissed /\ turn \in 0..(MaxTurn + 1)
  /\ phase \in {"down", "accept", "poll", "notify", "send", "sent"}
  /\ phase \in {"send", "sent"} => turn = 0 /\ idle <= Wait

(* How old a firm lock may be: no older than the rounds since the last keepalive
   that arrived, and new if this turn already takes too long. *)
Young(a) == a <= Owed * Round + Since /\ (turn > MaxTurn => a = 0)

KeepsInv ==
  /\ ClockInv
  /\ phase = "down" => firm = {}
  /\ firm \subseteq Targets \X Ids
  /\ \A h \in firm :
       /\ h[2] \in Tracked
       /\ locks[h[1]] = h[2]
       /\ Young(lockAge[h[1]])

LEMMA TargetsAreDatastores == Targets \subseteq LM!Datastores
BY ServerAssumption, Zenon DEF LM!Datastores

(* What a request of session s about ds does to the lock table: of the other
   datastores, and of a lock that s has not, only what has expired is taken. *)
LEMMA LockEffect ==
  ASSUME OwnInv, NEW s \in Ids, NEW ds \in LM!Datastores,
         LM!Lock(ds, s) \/ LM!Unlock(ds, s) \/ LM!Ensure(ds, s)
  PROVE  /\ locks' \in [LM!Datastores -> Ids \cup {Anon, None}]
         /\ lockAge' \in [LM!Datastores -> Nat]
         /\ \A d \in LM!Datastores :
              \/ /\ locks'[d] = locks[d]
                 /\ lockAge'[d] = lockAge[d] \/ (d = ds /\ locks[d] = s /\ lockAge'[d] = 0)
              \/ locks'[d] = None /\ locks[d] \in Ids /\ lockAge[d] > TTL
              \/ d = ds /\ locks'[d] = s /\ lockAge'[d] = 0
                 /\ (locks[d] # None => locks[d] \in Ids /\ lockAge[d] > TTL)
              \/ d = ds /\ locks'[d] = None /\ locks[d] = s
         /\ LM!Unlock(ds, s) => locks'[ds] # s
<1> USE IdAssumption, ServerAssumption
<1>0. LM!Unlock(ds, s) => locks'[ds] # s
  BY Zenon DEF OwnInv, LM!Unlock, LM!Without
<1>1. CASE LM!Lock(ds, s)
  BY <1>0, <1>1 DEF OwnInv, LM!Lock, LM!Without, LM!AgeWithout, LM!ExpiredLocks
<1>2. CASE LM!Unlock(ds, s)
  BY <1>0, <1>2 DEF OwnInv, LM!Unlock, LM!Without, LM!AgeWithout, LM!ExpiredLocks
<1>3. CASE LM!Ensure(ds, s)
  BY <1>0, <1>3 DEF OwnInv, LM!Ensure, LM!Without, LM!AgeWithout, LM!ExpiredLocks
<1> QED
  BY <1>1, <1>2, <1>3, Zenon

(* The collector takes what has expired, and the end of a session what it held. *)
LEMMA CollectEffect ==
  ASSUME OwnInv, LM!Collect
  PROVE  /\ locks' \in [LM!Datastores -> Ids \cup {Anon, None}]
         /\ lockAge' \in [LM!Datastores -> Nat]
         /\ \A d \in LM!Datastores :
              \/ locks'[d] = locks[d] /\ lockAge'[d] = lockAge[d]
              \/ locks'[d] = None /\ locks[d] \in Ids /\ lockAge[d] > TTL
<1>1. PICK lag \in 0..0 : LM!Sweep(lag)
  BY Zenon DEF LM!Collect, LM!Lags
<1>2. lag = 0
  OBVIOUS
<1> QED
  BY <1>1, <1>2, ServerAssumption
     DEF OwnInv, LM!Sweep, LM!Without, LM!AgeWithout, LM!ExpiredLocks

LEMMA ReleaseEffect ==
  ASSUME OwnInv, NEW s \in Ids, LM!ReleaseSession(s)
  PROVE  /\ locks' \in [LM!Datastores -> Ids \cup {Anon, None}]
         /\ lockAge' \in [LM!Datastores -> Nat]
         /\ \A d \in LM!Datastores :
              \/ locks[d] = s /\ locks'[d] = None
              \/ locks[d] # s /\ locks'[d] = locks[d] /\ lockAge'[d] = lockAge[d]
BY IdAssumption, Zenon DEF OwnInv, LM!ReleaseSession, LM!Without, LM!AgeWithout

(* A keepalive renews the locks of the sessions it names and no others; time makes
   every lock at most one unit older, and none younger. *)
LEMMA KeepAliveEffect ==
  ASSUME OwnInv, NEW K \in SUBSET Ids, LM!KeepAlive(K, 0)
  PROVE  /\ locks' = locks
         /\ lockAge' \in [LM!Datastores -> Nat]
         /\ \A d \in LM!Datastores :
              lockAge'[d] = IF locks[d] \in K THEN 0 ELSE lockAge[d]
BY IdAssumption, Zenon DEF OwnInv, LM!KeepAlive

LEMMA TickEffect ==
  ASSUME OwnInv, LM!Tick
  PROVE  /\ locks' = locks
         /\ lockAge' \in [LM!Datastores -> Nat]
         /\ \A d \in LM!Datastores :
              locks[d] # None => lockAge'[d] \in {lockAge[d], lockAge[d] + 1}
BY DEF OwnInv, LM!Tick, LM!Older

LEMMA OwnStep == TableInv /\ OwnInv /\ [Next]_vars => OwnInv'
<1> SUFFICES ASSUME TableInv, OwnInv, [Next]_vars PROVE OwnInv'
  BY Zenon
<1> USE IdAssumption, TargetsAreDatastores
<1>1. CASE Start
  BY <1>1 DEF Start, OwnInv, LockIsOwn, TableInv, LM!ResetAll, lockVars
<1>2. CASE Stop
  BY <1>2, Zenon DEF Stop, OwnInv, LockIsOwn, lockVars
<1>3. CASE Accept
  BY <1>3 DEF Accept, OwnInv, LockIsOwn, TableInv, lockVars, table, ghosts, Ids
<1>s. \A s \in conns : s \in Ids /\ s < next
  BY Zenon DEF TableInv
<1>4. ASSUME NEW s \in Ids, EndSession(s) PROVE OwnInv'
  <2>1. CASE UNCHANGED lockVars
    BY <1>4, <1>s, <2>1, Zenon DEF EndSession, OwnInv, LockIsOwn, lockVars
  <2>2. CASE LM!ReleaseSession(s)
    <3>1. /\ locks' \in [LM!Datastores -> Ids \cup {Anon, None}]
          /\ lockAge' \in [LM!Datastores -> Nat]
          /\ \A d \in LM!Datastores :
               locks'[d] = None \/ (locks'[d] = locks[d] /\ locks[d] # s)
      BY <2>2, ReleaseEffect, Zenon
    <3> QED
      BY <1>4, <1>s, <3>1, Zenon DEF EndSession, OwnInv, LockIsOwn
  <2> QED
    BY <1>4, <2>1, <2>2, Zenon DEF EndSession
<1>5. ASSUME NEW s \in Ids, NEW ds \in Targets, RpcLock(s, ds) PROVE OwnInv'
  <2>1. /\ locks' \in [LM!Datastores -> Ids \cup {Anon, None}]
        /\ lockAge' \in [LM!Datastores -> Nat]
        /\ \A d \in LM!Datastores :
             locks'[d] \in {None, locks[d]} \/ (d = ds /\ locks'[d] = s)
    BY <1>5, LockEffect DEF RpcLock
  <2> QED
    BY <1>5, <1>s, <2>1, Zenon DEF RpcLock, OwnInv, LockIsOwn, table
<1>6. ASSUME NEW s \in Ids, NEW ds \in Targets, RpcUnlock(s, ds) PROVE OwnInv'
  <2>1. /\ locks' \in [LM!Datastores -> Ids \cup {Anon, None}]
        /\ lockAge' \in [LM!Datastores -> Nat]
        /\ \A d \in LM!Datastores : locks'[d] \in {None, locks[d]}
        /\ locks'[ds] # s
    BY <1>6, LockEffect, Zenon DEF RpcUnlock
  <2> QED
    BY <1>6, <1>s, <2>1, Zenon DEF RpcUnlock, OwnInv, LockIsOwn, table
<1>7. ASSUME NEW s \in Ids, NEW ds \in Targets, RpcUse(s, ds) PROVE OwnInv'
  <2>1. /\ locks' \in [LM!Datastores -> Ids \cup {Anon, None}]
        /\ lockAge' \in [LM!Datastores -> Nat]
        /\ \A d \in LM!Datastores : locks'[d] \in {None, locks[d]}
    BY <1>7, Zenon DEF RpcUse, OwnInv, LM!Ensure, LM!Without, LM!AgeWithout
  <2> QED
    BY <1>7, <1>s, <2>1, Zenon DEF RpcUse, OwnInv, LockIsOwn, table, ghosts
<1>8. CASE KeepAliveArrives
  <2>1. Reported \in SUBSET Ids
    BY Zenon DEF Reported, Tracked, TableInv
  <2> QED
    BY <1>8, <2>1, KeepAliveEffect, Zenon DEF KeepAliveArrives, OwnInv, LockIsOwn, table, ghosts
<1>9. CASE Tick
  BY <1>9, TickEffect, Zenon DEF Tick, OwnInv, LockIsOwn, table, ghosts
<1>10. CASE Collect
  <2>1. /\ locks' \in [LM!Datastores -> Ids \cup {Anon, None}]
        /\ lockAge' \in [LM!Datastores -> Nat]
        /\ \A d \in LM!Datastores : locks'[d] \in {None, locks[d]}
    BY <1>10, CollectEffect, Zenon DEF Collect
  <2> QED
    BY <1>10, <1>s, <2>1, Zenon DEF Collect, OwnInv, LockIsOwn, table, ghosts
<1>11. ASSUME UNCHANGED <<lockVars, conns, next, clean, asked>>, phase' = "down" <=> phase = "down"
       PROVE  OwnInv'
  BY <1>11, Zenon DEF OwnInv, LockIsOwn, lockVars
<1>12. CASE NoEvent \/ NotYet \/ SendKeepAlive \/ KeepAliveIsLost \/ KeepAliveDone \/ UNCHANGED vars
  BY <1>11, <1>12, Zenon
     DEF NoEvent, NotYet, SendKeepAlive, KeepAliveIsLost, KeepAliveDone, vars, table, ghosts
<1>13. ASSUME NEW s \in Ids, RpcOther(s) \/ RpcSubscribe(s) PROVE OwnInv'
  BY <1>11, <1>13, Zenon DEF RpcOther, RpcSubscribe, table, ghosts
<1> QED
  BY <1>1, <1>2, <1>3, <1>4, <1>5, <1>6, <1>7, <1>8, <1>9, <1>10, <1>12, <1>13, Zenon DEF Next, Loop

LEMMA OwnInit == Init => OwnInv
BY IdAssumption DEF Init, OwnInv, LockIsOwn, LM!Init

LEMMA TableAndOwn == Spec => [](TableInv /\ OwnInv)
BY TableInit, OwnInit, TableStep, OwnStep, PTL DEF Spec

(* A session id that is used again in a later process brings no lock of the earlier
   one with it once the reset at the start has arrived: for any number of sessions
   and restarts, and whatever control requests are lost (server.c:522). *)
THEOREM LocksAreOwn == Spec => []LockIsOwn
<1>1. OwnInv => LockIsOwn
  BY Zenon DEF OwnInv
<1> QED
  BY <1>1, TableAndOwn, PTL

(* No request, keepalive or collection makes the lock of a session that has ended
   younger, for any number of sessions and of processes (server.c:1508). *)
THEOREM EndedAreNotRenewed == Spec => EndedIsNotRenewed
<1> DEFINE Kept == \A ds \in Targets, s \in Ids :
             locks[ds] = s /\ locks'[ds] = s /\ s \notin conns \cup conns' =>
               lockAge'[ds] >= lockAge[ds]
<1>1. TableInv /\ OwnInv /\ [Next]_vars => [Kept]_vars
  <2> SUFFICES ASSUME TableInv, OwnInv, [Next]_vars, NEW ds \in Targets, NEW s \in Ids,
                      locks[ds] = s, locks'[ds] = s, s \notin conns \cup conns'
               PROVE  lockAge'[ds] >= lockAge[ds]
    BY Zenon
  <2> USE IdAssumption, TargetsAreDatastores
  <2>0. ds \in LM!Datastores /\ lockAge[ds] \in Nat /\ s # None
    BY Zenon DEF OwnInv
  <2>1. ASSUME UNCHANGED lockVars PROVE lockAge'[ds] >= lockAge[ds]
    BY <2>0, <2>1 DEF lockVars
  <2>2. CASE Start
    BY <2>0, <2>1, <2>2, Zenon DEF Start, LM!ResetAll
  <2>3. ASSUME NEW t \in Ids, EndSession(t) PROVE lockAge'[ds] >= lockAge[ds]
    BY <2>0, <2>1, <2>3, ReleaseEffect DEF EndSession
  <2>4. ASSUME NEW t \in Ids, NEW d \in Targets, RpcLock(t, d) \/ RpcUnlock(t, d) \/ RpcUse(t, d)
        PROVE  lockAge'[ds] >= lockAge[ds]
    <3>1. t # s /\ (LM!Lock(d, t) \/ LM!Unlock(d, t) \/ LM!Ensure(d, t))
      BY <2>4, Zenon DEF RpcLock, RpcUnlock, RpcUse
    <3>2. lockAge'[ds] = lockAge[ds]
      BY <2>0, <3>1, LockEffect, Zenon
    <3> QED
      BY <2>0, <3>2
  <2>5. CASE KeepAliveArrives
    <3>1. Reported \in SUBSET Ids /\ s \notin Reported
      BY Zenon DEF Reported, Tracked, TableInv
    <3> QED
      BY <2>0, <2>5, <3>1, KeepAliveEffect DEF KeepAliveArrives
  <2>6. CASE Tick
    BY <2>0, <2>6, TickEffect DEF Tick
  <2>7. CASE Collect
    BY <2>0, <2>7, CollectEffect DEF Collect
  <2>8. CASE \/ Stop \/ Accept \/ NoEvent \/ NotYet \/ SendKeepAlive \/ KeepAliveIsLost
             \/ KeepAliveDone \/ UNCHANGED vars
    BY <2>1, <2>8, Zenon
       DEF Stop, Accept, NoEvent, NotYet, SendKeepAlive, KeepAliveIsLost, KeepAliveDone, vars
  <2>9. ASSUME NEW t \in Ids, RpcOther(t) \/ RpcSubscribe(t) PROVE lockAge'[ds] >= lockAge[ds]
    BY <2>1, <2>9, Zenon DEF RpcOther, RpcSubscribe
  <2> QED
    BY <2>2, <2>3, <2>4, <2>5, <2>6, <2>7, <2>8, <2>9, Zenon DEF Next, Loop
<1> QED
  BY <1>1, TableAndOwn, PTL DEF Spec, EndedIsNotRenewed

LEMMA Turns ==
  ASSUME NEW m \in Nat, NEW n \in Nat, NEW c \in Nat
  PROVE  /\ m * c \in Nat
         /\ (m + 1) * c = m * c + c
         /\ m <= n => m * c <= n * c
<1>1. m * c \in Nat /\ n * c \in Nat
  OBVIOUS
<1>2. (m + 1) * c = m * c + c
  OBVIOUS
<1>3. ASSUME m <= n PROVE m * c <= n * c
  <2>1. n - m \in Nat /\ n = m + (n - m)
    BY <1>3
  <2>2. (n - m) * c \in Nat
    BY <2>1
  <2>3. n * c = m * c + (n - m) * c
    OBVIOUS
  <2> QED
    BY <1>1, <2>2, <2>3
<1> QED
  BY <1>1, <1>2, <1>3, Zenon

(* For which turns and losses the lease lasts: it is no shorter than the rounds of
   MaxMissed lost keepalives and the next one, and the wait for that one.  With the
   constants of the code, 30 s against 10 s and 5 s, this is a turn of 15 s if no
   keepalive is lost, and of 2.5 s if one is. *)
LeaseLasts == Round * (MaxMissed + 1) + Wait <= TTL

LEMMA FirmIsFresh ==
  ASSUME LeaseLasts, KeepsInv, OwnInv, NEW h \in firm
  PROVE  /\ h[1] \in LM!Datastores /\ h[2] \in Ids
         /\ lockAge[h[1]] \in Nat /\ ~(lockAge[h[1]] > TTL)
<1>1. /\ h[1] \in LM!Datastores /\ h[2] \in Ids
      /\ lockAge[h[1]] \in Nat /\ Young(lockAge[h[1]])
  BY TargetsAreDatastores, Zenon DEF KeepsInv, OwnInv
<1>2. /\ Round \in Nat /\ MaxMissed \in Nat /\ TTL \in Nat /\ Wait \in Nat
      /\ Owed \in Nat /\ Owed <= MaxMissed + 1 /\ (phase # "send" => Owed <= MaxMissed)
      /\ Since \in Nat /\ (turn <= MaxTurn => Since <= Round) /\ (phase = "send" => Since <= Wait)
      /\ turn \in Nat /\ MaxTurn \in Nat
  BY ServerAssumption DEF KeepsInv, ClockInv, Round, Owed, Since
<1>a. CASE turn > MaxTurn
  BY <1>1, <1>2, <1>a DEF Young
<1>b. CASE ~(turn > MaxTurn)
  <2> HIDE DEF Round, Owed, Since
  <2>1. Owed * Round \in Nat /\ MaxMissed * Round \in Nat
    BY <1>2, Turns, Zenon
  <2>2. Round * (MaxMissed + 1) = MaxMissed * Round + Round
    BY <1>2
  <2>3. CASE phase = "send"
    <3>1. Owed * Round <= (MaxMissed + 1) * Round /\ (MaxMissed + 1) * Round = MaxMissed * Round + Round
      BY <1>2, Turns
    <3> QED
      BY <1>1, <1>2, <2>1, <2>2, <2>3, <3>1 DEF LeaseLasts, Young
  <2>4. CASE phase # "send"
    <3>1. Owed * Round <= MaxMissed * Round
      BY <1>2, <2>4, Turns, Zenon
    <3> QED
      BY <1>1, <1>2, <1>b, <2>1, <2>2, <3>1 DEF LeaseLasts, Young
  <2> QED
    BY <2>3, <2>4, Zenon
<1> QED
  BY <1>1, <1>a, <1>b, Zenon

LEMMA ClockStep == ClockInv /\ [Next]_vars => ClockInv'
<1> SUFFICES ASSUME ClockInv, [Next]_vars PROVE ClockInv'
  BY Zenon
<1> USE ServerAssumption DEF ClockInv, alive
<1>1. CASE Start \/ Stop
  BY <1>1 DEF Start, Stop
<1>2. CASE Accept \/ NoEvent \/ NotYet
  BY <1>2 DEF Accept, NoEvent, NotYet
<1>3. CASE SendKeepAlive \/ KeepAliveArrives \/ KeepAliveIsLost \/ KeepAliveDone
  BY <1>3 DEF SendKeepAlive, KeepAliveArrives, KeepAliveIsLost, KeepAliveDone
<1>4. ASSUME NEW s \in Ids, EndSession(s) \/ RpcOther(s) \/ RpcSubscribe(s) PROVE ClockInv'
  BY <1>4, Zenon DEF EndSession, RpcOther, RpcSubscribe
<1>5. ASSUME NEW s \in Ids, NEW ds \in Targets, RpcLock(s, ds) \/ RpcUnlock(s, ds) \/ RpcUse(s, ds)
      PROVE  ClockInv'
  BY <1>5, Zenon DEF RpcLock, RpcUnlock, RpcUse
<1>6. CASE Tick
  BY <1>6 DEF Tick
<1>7. CASE Collect \/ UNCHANGED vars
  BY <1>7, Zenon DEF Collect, vars
<1> QED
  BY <1>1, <1>2, <1>3, <1>4, <1>5, <1>6, <1>7, Zenon DEF Next, Loop

(* A table that is not full has a first free slot. *)
LEMMA LeastSlot ==
  ASSUME NEW S \in SUBSET (1..Slots), S # {}
  PROVE  \E i \in S : \A j \in S : i <= j
<1> DEFINE R == OpToRel(<, Nat)
<1>1. S \subseteq Nat
  OBVIOUS
<1>2. PICK i \in S : \A j \in S : <<j, i>> \notin R
  BY <1>1, NatLessThanWellFounded, WFMin, Zenon
<1>3. \A a, b \in Nat : b < a => <<b, a>> \in R
  BY Zenon DEF OpToRel
<1> HIDE DEF R
<1>4. ASSUME NEW j \in S PROVE i <= j
  <2>1. i \in Nat /\ j \in Nat
    BY <1>1, Zenon
  <2>2. ~(j < i)
    BY <1>2, <1>3, <2>1, Zenon
  <2> QED
    BY <2>1, <2>2
<1> QED
  BY <1>4, Zenon

(* track_session takes no slot from another session. *)
LEMMA TrackAdds ==
  ASSUME slots \in Table, NEW s
  PROVE  \A i \in 1..Slots : slots[i] # 0 => Track(s)[i] = slots[i]
<1> DEFINE free == {i \in 1..Slots : slots[i] = 0}
           k == CHOOSE i \in free : \A j \in free : i <= j
<1>1. CASE s \in Tracked \/ free = {}
  BY <1>1, Zenon DEF Track
<1>2. CASE ~(s \in Tracked \/ free = {})
  <2>1. Track(s) = [slots EXCEPT ![k] = s]
    BY <1>2, Zenon DEF Track
  <2>2. k \in free
    <3>1. \E i \in free : \A j \in free : i <= j
      BY <1>2, LeastSlot, Zenon
    <3> QED
      BY <3>1, Zenon
  <2> HIDE DEF k
  <2> QED
    BY <2>1, <2>2, Zenon DEF Table
<1> QED
  BY <1>1, <1>2, Zenon

(* A request takes no lock that has not expired, but its own by an unlock. *)
LEMMA FreshStays ==
  ASSUME OwnInv, NEW s \in Ids, NEW ds \in LM!Datastores,
         LM!Lock(ds, s) \/ LM!Unlock(ds, s) \/ LM!Ensure(ds, s),
         NEW d \in LM!Datastores, locks[d] \in Ids, ~(lockAge[d] > TTL),
         LM!Unlock(ds, s) => d # ds \/ locks[d] # s
  PROVE  locks'[d] = locks[d] /\ lockAge'[d] \in {lockAge[d], 0}
<1> USE IdAssumption, ServerAssumption
<1>1. CASE LM!Lock(ds, s)
  BY <1>1 DEF OwnInv, LM!Lock, LM!Without, LM!AgeWithout, LM!ExpiredLocks
<1>2. CASE LM!Unlock(ds, s)
  BY <1>2 DEF OwnInv, LM!Unlock, LM!Without, LM!AgeWithout, LM!ExpiredLocks
<1>3. CASE LM!Ensure(ds, s)
  BY <1>3 DEF OwnInv, LM!Ensure, LM!Without, LM!AgeWithout, LM!ExpiredLocks
<1> QED
  BY <1>1, <1>2, <1>3, Zenon

(* A firm lock that is no older, in a turn that goes on, stays young. *)
LEMMA StaysYoung ==
  ASSUME ClockInv, NEW a \in Nat, Young(a), NEW b \in {a, 0},
         UNCHANGED alive, turn' \in {turn, 0}, turn' = 0 => idle < Period \/ turn = 0,
         (phase = "send") <=> (phase' = "send")
  PROVE  Young(b)'
<1>1. /\ Round \in Nat /\ MaxTurn \in Nat /\ Period \in Nat /\ idle \in Nat /\ turn \in Nat
      /\ Owed \in Nat /\ Since \in Nat /\ Owed' = Owed
  BY ServerAssumption DEF ClockInv, Round, Owed, Since, alive
<1>2. Since' = Since /\ (turn' > MaxTurn => turn > MaxTurn) /\ Round' = Round
  <2>1. idle' = idle /\ (turn' = turn \/ (turn' = 0 /\ idle < Period))
    BY Zenon DEF alive
  <2>2. Since' = Since
    BY <2>1, Zenon DEF Since
  <2>3. turn' > MaxTurn => turn > MaxTurn
    BY <1>1, <2>1
  <2> QED
    BY <2>2, <2>3, Zenon DEF Round
<1> HIDE DEF Round, Owed, Since
<1>3. Owed * Round \in Nat
  BY <1>1, Turns, Zenon
<1> QED
  BY <1>1, <1>2, <1>3 DEF Young

LEMMA KeepsStep ==
  ASSUME LeaseLasts
  PROVE  TableInv /\ OwnInv /\ KeepsInv /\ [Next]_vars => KeepsInv'
<1> SUFFICES ASSUME TableInv, OwnInv, KeepsInv, [Next]_vars PROVE KeepsInv'
  BY Zenon
<1> USE TargetsAreDatastores
<1>c. ClockInv /\ ClockInv'
  BY ClockStep, Zenon DEF KeepsInv
<1>n. \A h \in firm : h[1] \in LM!Datastores /\ h[2] \in Ids /\ h[2] # None /\ h[2] # Anon
  BY IdAssumption, Zenon DEF KeepsInv
<1>m. /\ idle \in Nat /\ missed \in Nat /\ turn \in Nat /\ Round \in Nat /\ Since \in Nat /\ Owed \in Nat
      /\ MaxTurn \in Nat /\ Period \in Nat \ {0} /\ Owed * Round \in Nat
  <2>1. /\ idle \in Nat /\ missed \in Nat /\ turn \in Nat /\ Round \in Nat /\ Since \in Nat /\ Owed \in Nat
        /\ MaxTurn \in Nat /\ Period \in Nat \ {0}
    BY <1>c, ServerAssumption DEF ClockInv, Round, Since, Owed
  <2> QED
    BY <2>1, Turns, Zenon
<1>f. \A h \in firm : /\ lockAge[h[1]] \in Nat /\ ~(lockAge[h[1]] > TTL) /\ locks[h[1]] = h[2]
                      /\ Young(lockAge[h[1]])
  BY FirmIsFresh, Zenon DEF KeepsInv
<1>t. ASSUME UNCHANGED slots PROVE Tracked' = Tracked
  BY <1>t, Zenon DEF Tracked
<1>y. ASSUME UNCHANGED <<alive, turn>>, (phase = "send") <=> (phase' = "send"),
             \A h \in firm' : h \in firm /\ lockAge'[h[1]] \in {lockAge[h[1]], 0}
      PROVE  \A h \in firm' : Young(lockAge[h[1]])'
  BY <1>c, <1>f, <1>y, StaysYoung, Zenon
<1>1. CASE Start \/ Stop
  BY <1>1, <1>c, Zenon DEF Start, Stop, KeepsInv
<1>2. ASSUME UNCHANGED <<lockVars, alive, firm>>, Tracked \subseteq Tracked',
             phase' = "down" <=> phase = "down", (phase = "send") <=> (phase' = "send"),
             turn' = turn \/ (turn' = 0 /\ idle < Period)
      PROVE  KeepsInv'
  <2>1. \A h \in firm : Young(lockAge[h[1]])'
    BY <1>2, <1>c, <1>f, <1>m, StaysYoung, Zenon DEF lockVars
  <2> QED
    BY <1>2, <1>c, <2>1, Zenon DEF KeepsInv, lockVars, alive
<1>3. CASE Accept
  <2>1. \A i \in 1..Slots : slots[i] # 0 => slots'[i] = slots[i]
    BY <1>3, TrackAdds, Zenon DEF Accept, TableInv, table
  <2>2. Tracked \subseteq Tracked'
    BY <2>1, Zenon DEF Tracked
  <2> QED
    BY <1>2, <1>3, <2>2, Zenon DEF Accept, ghosts
<1>4. ASSUME NEW s \in Ids, RpcSubscribe(s) PROVE KeepsInv'
  <2>1. \A i \in 1..Slots : slots[i] # 0 => slots'[i] = slots[i]
    BY <1>4, TrackAdds, Zenon DEF RpcSubscribe, TableInv
  <2>2. Tracked \subseteq Tracked'
    BY <2>1, Zenon DEF Tracked
  <2> QED
    BY <1>2, <1>4, <2>2, Zenon DEF RpcSubscribe, ghosts
<1>5. ASSUME NEW s \in Ids, EndSession(s) PROVE KeepsInv'
  <2>1. firm' = {h \in firm : h[2] # s} /\ UNCHANGED <<alive, turn>> /\ phase = "poll" /\ phase' = "notify"
    BY <1>5, Zenon DEF EndSession
  <2>2. \A h \in firm' : locks'[h[1]] = h[2] /\ lockAge'[h[1]] = lockAge[h[1]]
    BY <1>5, <1>f, <1>n, <2>1, ReleaseEffect DEF EndSession, lockVars
  <2>3. \A h \in firm' : h[2] \in Tracked'
    BY <1>5, <2>1, Zenon DEF EndSession, Untrack, KeepsInv, Tracked
  <2> QED
    BY <1>c, <1>y, <2>1, <2>2, <2>3, Zenon DEF KeepsInv
<1>6. ASSUME NEW s \in Ids, NEW ds \in Targets, RpcLock(s, ds) PROVE KeepsInv'
  <2>1. /\ UNCHANGED <<alive, turn>> /\ phase = "poll" /\ phase' = "notify" /\ Tracked' = Tracked
        /\ firm' = IF locks'[ds] = s /\ s \in Tracked THEN firm \cup {<<ds, s>>} ELSE firm
    BY <1>6, <1>t, Zenon DEF RpcLock, table
  <2>2. \A h \in firm : locks'[h[1]] = h[2] /\ lockAge'[h[1]] \in {lockAge[h[1]], 0}
    <3> SUFFICES ASSUME NEW h \in firm
                 PROVE  locks'[h[1]] = locks[h[1]] /\ lockAge'[h[1]] \in {lockAge[h[1]], 0}
      BY <1>f, Zenon
    <3>1. LM!Lock(ds, s) /\ (LM!Unlock(ds, s) => locks'[ds] # s)
      BY <1>6, LockEffect, Zenon DEF RpcLock
    <3>2. LM!Unlock(ds, s) => h[1] # ds \/ locks[h[1]] # s
      BY <1>f, <1>n, <3>1, Zenon DEF OwnInv, LM!Lock, LM!Without, LM!ExpiredLocks
    <3> QED
      BY <1>f, <1>n, <3>1, <3>2, FreshStays, Zenon
  <2>3. locks'[ds] = s => lockAge'[ds] = 0
    BY <1>6, IdAssumption, Zenon DEF RpcLock, OwnInv, LM!Lock, LM!Without, LM!AgeWithout
  <2>4. \A h \in firm : Young(lockAge[h[1]])'
    BY <1>c, <1>f, <2>1, <2>2, StaysYoung, Zenon
  <2>5. Young(0)'
    <3>1. Owed' = Owed /\ Since' = Since /\ Round' = Round
      BY <2>1, Zenon DEF Owed, Since, Round, alive
    <3> QED
      BY <1>m, <3>1 DEF Young
  <2>6. \A h \in firm' : h \in firm \/ (h = <<ds, s>> /\ locks'[ds] = s /\ s \in Tracked)
    BY <2>1, Zenon
  <2>7. \A h \in firm' : Young(lockAge[h[1]])' /\ h[2] \in Tracked' /\ locks'[h[1]] = h[2]
                        /\ h \in Targets \X Ids
    BY <1>6, <2>1, <2>2, <2>3, <2>4, <2>5, <2>6 DEF KeepsInv
  <2> QED
    BY <1>c, <2>1, <2>7, Zenon DEF KeepsInv
<1>7. ASSUME NEW s \in Ids, NEW ds \in Targets, RpcUnlock(s, ds) PROVE KeepsInv'
  <2>1. /\ UNCHANGED <<alive, turn>> /\ phase = "poll" /\ phase' = "notify" /\ Tracked' = Tracked
        /\ firm' = firm \ {<<ds, s>>}
    BY <1>7, <1>t, Zenon DEF RpcUnlock, table
  <2>2. \A h \in firm' : h[1] # ds \/ h[2] # s
    BY <2>1 DEF KeepsInv
  <2>3. \A h \in firm' : locks'[h[1]] = h[2] /\ lockAge'[h[1]] \in {lockAge[h[1]], 0}
    BY <1>7, <1>f, <1>n, <2>1, <2>2, FreshStays DEF RpcUnlock
  <2> QED
    BY <1>c, <1>y, <2>1, <2>3, Zenon DEF KeepsInv
<1>8. ASSUME NEW s \in Ids, NEW ds \in Targets, RpcUse(s, ds) PROVE KeepsInv'
  <2>1. /\ UNCHANGED <<alive, turn>> /\ phase = "poll" /\ phase' = "notify" /\ Tracked' = Tracked
        /\ firm' = firm
    BY <1>8, <1>t, Zenon DEF RpcUse, table, ghosts
  <2>2. \A h \in firm :
          LM!Ensure(ds, s) => locks'[h[1]] = h[2] /\ lockAge'[h[1]] = lockAge[h[1]]
    BY <1>f, <1>n, ServerAssumption
       DEF OwnInv, LM!Ensure, LM!Without, LM!AgeWithout, LM!ExpiredLocks
  <2> QED
    BY <1>8, <1>c, <1>y, <2>1, <2>2, Zenon DEF RpcUse, KeepsInv
<1>9. CASE SendKeepAlive
  <2>0. /\ Tracked' = Tracked /\ firm' = firm /\ idle' = 0 /\ turn' = 0 /\ missed' = missed
        /\ phase = "notify" /\ phase' = "send" /\ UNCHANGED lockVars /\ ~(idle < Period)
    BY <1>9, <1>t, <1>m DEF SendKeepAlive, table, ghosts
  <2>1. Owed = missed /\ Owed' = missed + 1 /\ Since' = 0 /\ Since = Period + turn /\ Round' = Round
    BY <2>0, <1>m DEF Owed, Since, Round
  <2>2. Owed' * Round = Owed * Round + Round
    BY <1>m, <2>1, Turns, Zenon
  <2>3. ASSUME NEW a \in Nat, Young(a) PROVE Young(a)'
    <3>1. CASE turn > MaxTurn
      BY <1>m, <2>0, <2>1, <2>2, <2>3, <3>1 DEF Young
    <3>2. CASE ~(turn > MaxTurn)
      <4>1. Since <= Round
        BY <1>m, <2>1, <3>2, ServerAssumption DEF Round
      <4> QED
        BY <1>m, <2>0, <2>1, <2>2, <2>3, <4>1 DEF Young
    <3> QED
      BY <3>1, <3>2, Zenon
  <2> QED
    BY <1>c, <1>f, <2>0, <2>3, Zenon DEF KeepsInv, lockVars
<1>10. CASE KeepAliveArrives
  <2>0. /\ Tracked' = Tracked /\ firm' = firm /\ UNCHANGED <<turn, idle>> /\ missed' = 0
        /\ phase = "send" /\ phase' = "sent" /\ LM!KeepAlive(Reported, 0)
    BY <1>10, <1>t, Zenon DEF KeepAliveArrives, table, ghosts
  <2>1. Reported \in SUBSET Ids
    BY Zenon DEF Reported, Tracked, TableInv
  <2>2. locks' = locks /\ \A h \in firm : lockAge'[h[1]] = 0
    BY <1>f, <1>n, <2>0, <2>1, KeepAliveEffect, Zenon DEF KeepsInv, Reported
  <2>3. Young(0)'
    BY <1>c, <1>m, <2>0 DEF Young, Owed, Since, Round
  <2> QED
    BY <1>c, <2>0, <2>2, <2>3, Zenon DEF KeepsInv
<1>11. CASE KeepAliveIsLost
  <2>0. /\ Tracked' = Tracked /\ UNCHANGED <<turn, idle, lockVars>>
        /\ phase = "send" /\ phase' = "sent"
        /\ (missed' = missed + 1 /\ firm' = firm) \/ firm' = {}
    BY <1>11, <1>t, Zenon DEF KeepAliveIsLost, table
  <2>1. CASE firm' = {}
    BY <1>c, <2>0, <2>1, Zenon DEF KeepsInv
  <2>2. CASE missed' = missed + 1 /\ firm' = firm
    <3>1. Owed' = Owed /\ Since' = Since /\ Round' = Round
      BY <2>0, <2>2, Zenon DEF Owed, Since, Round
    <3>2. \A h \in firm : Young(lockAge[h[1]])'
      BY <1>f, <2>0, <3>1, Zenon DEF Young, lockVars
    <3> QED
      BY <1>c, <1>f, <2>0, <2>2, <3>2, Zenon DEF KeepsInv, lockVars
  <2> QED
    BY <2>0, <2>1, <2>2, Zenon
<1>12. CASE Tick
  <2>0. missed' = missed /\ phase' = phase /\ Tracked' = Tracked /\ LM!Tick
    BY <1>12, <1>t, Zenon DEF Tick, table
  <2>1. CASE phase = "down" \/ firm' = {}
    BY <1>12, <1>c, <2>0, <2>1, Zenon DEF Tick, KeepsInv
  <2>2. CASE phase # "down" /\ firm' # {}
    <3>1. /\ firm' = firm
          /\ \/ turn' = turn + 1 /\ turn' <= MaxTurn /\ idle' = IF idle < Period THEN idle + 1 ELSE idle
             \/ turn' = 0 /\ turn = 0 /\ idle' = idle + 1 /\ idle < Period
      BY <1>12, <1>c, <1>m, <2>0, <2>2, ServerAssumption DEF Tick, ClockInv
    <3>2. Since' >= Since + 1 /\ Since' \in Nat /\ Owed' = Owed /\ Round' = Round /\ ~(turn' > MaxTurn)
      BY <1>m, <2>0, <3>1 DEF Since, Owed, Round
    <3>3. /\ locks' = locks
          /\ \A h \in firm : lockAge'[h[1]] \in {lockAge[h[1]], lockAge[h[1]] + 1}
      BY <1>f, <1>n, <2>0, TickEffect, Zenon
    <3>4. \A h \in firm : Young(lockAge[h[1]])'
      BY <1>f, <1>m, <3>2, <3>3 DEF Young
    <3> QED
      BY <1>c, <2>0, <2>2, <3>1, <3>3, <3>4, Zenon DEF KeepsInv
  <2> QED
    BY <2>1, <2>2, Zenon
<1>13. CASE Collect
  <2>1. UNCHANGED <<phase, turn, slots, alive, firm>>
    BY <1>13, Zenon DEF Collect, table, ghosts
  <2>2. \A h \in firm : locks'[h[1]] = locks[h[1]] /\ lockAge'[h[1]] = lockAge[h[1]]
    BY <1>13, <1>f, <1>n, CollectEffect, Zenon DEF Collect
  <2> QED
    BY <1>c, <1>t, <1>y, <2>1, <2>2, Zenon DEF KeepsInv
<1>14. CASE NoEvent \/ NotYet \/ KeepAliveDone \/ UNCHANGED vars
  BY <1>2, <1>t, <1>14, Zenon DEF NoEvent, NotYet, KeepAliveDone, vars, table, ghosts
<1>15. ASSUME NEW s \in Ids, RpcOther(s) PROVE KeepsInv'
  BY <1>2, <1>t, <1>15, Zenon DEF RpcOther, table, ghosts
<1> QED
  BY <1>1, <1>3, <1>4, <1>5, <1>6, <1>7, <1>8, <1>9, <1>10, <1>11, <1>12, <1>13, <1>14, <1>15, Zenon
     DEF Next, Loop

(* A session in the table keeps its lock until it gives it back or ends, whatever
   the thread waits for, but for turns longer than MaxTurn and more than MaxMissed
   lost keepalives in a row: for every MaxTurn and MaxMissed for which the lease
   lasts, and any number of sessions and slots (server.c:1515, locks.go:188). *)
THEOREM ConnectedKeepLocks ==
  ASSUME LeaseLasts
  PROVE  Spec => []ConnectedKeepsLock
<1>1. Init => KeepsInv
  BY ServerAssumption DEF Init, KeepsInv, ClockInv
<1>2. KeepsInv => ConnectedKeepsLock
  BY Zenon DEF KeepsInv, ConnectedKeepsLock
<1> QED
  BY <1>1, <1>2, KeepsStep, TableAndOwn, PTL DEF Spec
-----------------------------------------------------------------------------
(* The supervisor of the server process, for any delays. *)
(* The inductive invariant: while the worker runs, cmd.Wait has told of the end
   of the process exactly if there is none; a worker leaves its process behind
   only in a shutdown, after which none is started; and what the health shows
   follows from how the worker returned. *)
SupInv ==
  /\ pc \in {"start", "launch", "run", "stop", "exit", "crashed", "wait", "returned"}
  /\ live \in {0, 1}
  /\ done \in {"", "clean", "crash"}
  /\ pc \in {"start", "launch", "crashed", "wait"} => live = 0
  /\ pc \in {"run", "stop"} => (live = 0 <=> done # "")
  /\ pc = "stop" => cancelled
  /\ pc = "exit" => live = 0 \/ cancelled
  /\ pc \in {"start", "crashed", "wait"} => health # "up"
  /\ pc = "exit" => err \/ cancelled \/ done = "clean"
  /\ pc = "returned" => cancelled \/ done = "clean"

(* Every step of the supervisor, the process and the shutdown keeps it. *)
LEMMA SupStep == SupInv /\ [SupNext]_supVars => SupInv'
<1> SUFFICES ASSUME SupInv, [SupNext]_supVars PROVE SupInv'
  BY Zenon
<1> USE DEF SupInv
<1>1. CASE OnStart
  BY <1>1, Zenon DEF OnStart
<1>2. CASE Launch
  <2>1. live = 0
    BY <1>2, Zenon DEF Launch
  <2>2. live' = live + 1
    BY <1>2, Zenon DEF Launch
  <2> HIDE DEF SupInv
  <2>3. live' = 1 /\ 0 # 1
    BY <2>1, <2>2
  <2> QED
    BY <1>2, <2>3, Zenon DEF Launch, SupInv
<1>3. CASE LaunchFails
  BY <1>3, Zenon DEF LaunchFails
<1>4. CASE SeesExit
  BY <1>4, Zenon DEF SeesExit
<1>5. CASE Terminate
  BY <1>5, Zenon DEF Terminate
<1>6. CASE Stopped
  BY <1>6, Zenon DEF Stopped
<1>7. CASE OnExit
  BY <1>7, Zenon DEF OnExit
<1>8. CASE Backoff
  BY <1>8, Zenon DEF Backoff
<1>9. CASE Again
  BY <1>9, Zenon DEF Again
<1>10. CASE StopsWaiting
  BY <1>10, Zenon DEF StopsWaiting
<1>11. ASSUME NEW how \in {"clean", "crash"}, ProcessEnds(how) PROVE SupInv'
  <2>0. live \in {0, 1} /\ live > 0 /\ live' = live - 1
    BY <1>11, Zenon DEF ProcessEnds
  <2> HIDE DEF SupInv
  <2>1. live = 1 /\ live' = 0 /\ 0 # 1
    BY <2>0
  <2>2. how # "" /\ done' # ""
    BY <1>11, Zenon DEF ProcessEnds
  <2> QED
    BY <1>11, <2>1, <2>2, Zenon DEF ProcessEnds, SupInv
<1>12. CASE Cancel
  BY <1>12, Zenon DEF Cancel
<1>13. CASE UNCHANGED supVars
  BY <1>13, Zenon DEF supVars
<1> QED
  BY <1>1, <1>2, <1>3, <1>4, <1>5, <1>6, <1>7, <1>8, <1>9, <1>10, <1>11, <1>12, <1>13, Zenon
  DEF SupNext, Supervise, Process, Dies

(* So it holds at all times of Supervisor.Run. *)
LEMMA SupInvariant == SupSpec => []SupInv
<1>1. SupInit => SupInv
  BY Zenon DEF SupInit, SupInv
<1> QED
  BY <1>1, SupStep, PTL DEF SupSpec

(* Supervisor.Run and ProcessServer.Run never have two server processes, and none
   is left when another is about to be started. *)
THEOREM NeverTwoServers == SupSpec => []OneServer
<1>1. SupInv => OneServer
  <2>1. live \in {0, 1} => live <= 1
    OBVIOUS
  <2> QED
    BY <2>1, Zenon DEF SupInv, OneServer
<1> QED
  BY <1>1, SupInvariant, PTL

(* NetconfServer does not show the component up while it waits to restart a server
   that crashed, or after it gave up. *)
THEOREM UpIsTrue == SupSpec => []UpMeansServing
<1>1. SupInv => UpMeansServing
  BY Zenon DEF SupInv, UpMeansServing
<1> QED
  BY <1>1, SupInvariant, PTL
=============================================================================
