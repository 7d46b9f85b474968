------------------------- MODULE ConfigManagerProofs -------------------------
(***************************************************************************)
(* Proofs about the configuration manager, for any number of requests in   *)
(* progress, any sessions, leaves, files and values.                       *)
(***************************************************************************)
EXTENDS ConfigManager, TLAPS

-----------------------------------------------------------------------------
(* The lock table *)

LeaseOK ==
  /\ locks \in [Datastores -> Ids \cup {None}]
  /\ sessions \in SUBSET Sessions
  /\ HolderIsTracked

(* Leases that expire in an allowed way take no session from under a lock *)
LEMMA ExpiryOK ==
  ASSUME LeaseOK, NEW L, NEW S, MayExpire(L, S), NEW ds \in Datastores,
         AfterExpiry(L)[ds] \in Sessions
  PROVE  AfterExpiry(L)[ds] = locks[ds] /\ locks[ds] \in sessions \ S
<1>1. ds \notin L /\ AfterExpiry(L)[ds] = locks[ds]
  BY SessionIds, Zenon DEF AfterExpiry
<1>2. locks[ds] \in sessions
  BY <1>1, Zenon DEF LeaseOK, HolderIsTracked
<1>3. locks[ds] \notin S
  BY <1>1, Zenon DEF MayExpire, HeldBy
<1> QED
  BY <1>1, <1>2, <1>3, Zenon

LEMMA LeaseStepOK ==
  ASSUME LeaseOK, [LeaseNext]_leaseVars
  PROVE  LeaseOK'
<1> USE SessionIds
<1>0. ASSUME NEW L PROVE AfterExpiry(L) \in [Datastores -> Ids \cup {None}]
  BY Zenon DEF AfterExpiry, LeaseOK
<1>1. ASSUME NEW ds \in Datastores, NEW id \in Ids, NEW L, NEW S, Lock(ds, id, L, S)
      PROVE  LeaseOK'
  <2>1. \A d \in Datastores : locks'[d] \in {AfterExpiry(L)[d], id}
    BY <1>0, <1>1, Zenon DEF Lock
  <2>2. locks' \in [Datastores -> Ids \cup {None}] /\ sessions' \in SUBSET Sessions
    BY <1>0, <1>1, Zenon DEF Lock, ExpireAndTouch, LeaseOK
  <2>3. \A d \in Datastores : locks'[d] \in Sessions => locks'[d] \in sessions'
    BY <1>1, <2>1, ExpiryOK DEF Lock, ExpireAndTouch
  <2> QED
    BY <2>2, <2>3, Zenon DEF LeaseOK, HolderIsTracked
<1>2. ASSUME NEW ds \in Datastores, NEW id \in Ids, NEW L, NEW S, Unlock(ds, id, L, S)
      PROVE  LeaseOK'
  <2>1. \A d \in Datastores : locks'[d] \in {AfterExpiry(L)[d], None}
    BY <1>0, <1>2, Zenon DEF Unlock
  <2>2. locks' \in [Datastores -> Ids \cup {None}] /\ sessions' \in SUBSET Sessions
    BY <1>0, <1>2, Zenon DEF Unlock, ExpireAndTouch, LeaseOK
  <2>3. \A d \in Datastores : locks'[d] \in Sessions => locks'[d] \in sessions'
    BY <1>2, <2>1, ExpiryOK DEF Unlock, ExpireAndTouch
  <2> QED
    BY <2>2, <2>3, Zenon DEF LeaseOK, HolderIsTracked
<1>3. ASSUME NEW ds \in Datastores, NEW id \in Ids, NEW L, NEW S, Ensure(ds, id, L, S)
      PROVE  LeaseOK'
  <2>1. locks' \in [Datastores -> Ids \cup {None}] /\ sessions' \in SUBSET Sessions
    BY <1>0, <1>3, Zenon DEF Ensure, ExpireAndTouch, LeaseOK
  <2>2. \A d \in Datastores : locks'[d] \in Sessions => locks'[d] \in sessions'
    BY <1>3, ExpiryOK, Zenon DEF Ensure, ExpireAndTouch
  <2> QED
    BY <2>1, <2>2, Zenon DEF LeaseOK, HolderIsTracked
<1>4. ASSUME NEW L, NEW S, Sweep(L, S)
      PROVE  LeaseOK'
  <2>1. locks' \in [Datastores -> Ids \cup {None}] /\ sessions' \in SUBSET Sessions
    BY <1>0, <1>4, Zenon DEF Sweep, LeaseOK
  <2>2. \A d \in Datastores : locks'[d] \in Sessions => locks'[d] \in sessions'
    BY <1>4, ExpiryOK, Zenon DEF Sweep
  <2> QED
    BY <2>1, <2>2, Zenon DEF LeaseOK, HolderIsTracked
<1>5. ASSUME NEW id \in Sessions, ReleaseSession(id)
      PROVE  LeaseOK'
  BY <1>5, Zenon DEF ReleaseSession, AfterExpiry, HeldBy, LeaseOK, HolderIsTracked
<1>6. CASE ResetAll
  BY <1>6, Zenon DEF ResetAll, LeaseOK, HolderIsTracked
<1>7. ASSUME NEW K \in SUBSET Sessions, KeepAlive(K)
      PROVE  LeaseOK'
  BY <1>7, Zenon DEF KeepAlive, LeaseOK, HolderIsTracked
<1>8. CASE UNCHANGED leaseVars
  BY <1>8, Zenon DEF leaseVars, LeaseOK, HolderIsTracked
<1> QED
  BY <1>1, <1>2, <1>3, <1>4, <1>5, <1>6, <1>7, <1>8, Zenon DEF LeaseNext

(* Every step of the manager is a call of the lock manager, or none *)
LEMMA UsesLease ==
  ASSUME ControlOK, NEW p \in Slots, Handle(p) \/ Step(p)
  PROVE  [LeaseNext]_leaseVars
<1>1. CASE HandleLock(p)
  BY <1>1, Zenon DEF HandleLock, LeaseNext
<1>2. CASE HandleUnlock(p)
  BY <1>2, Zenon DEF HandleUnlock, LeaseNext
<1>3. ASSUME NEW op, NEW id \in Ids, NEW chg, NEW nxt, EnsureCandidate(p, op, id, chg, nxt)
      PROVE  LeaseNext
  BY <1>3, Zenon DEF EnsureCandidate, LeaseNext, Datastores
<1>4. CASE HandleEditConfig(p) \/ HandleDiscard(p) \/ HandleCommit(p)
  BY <1>3, <1>4, Zenon DEF HandleEditConfig, HandleDiscard, HandleCommit
<1>5. CASE EnsureRunning(p)
  <2>1. req[p].id \in Ids
    BY Zenon DEF ControlOK, Requests
  <2> QED
    BY <1>5, <2>1, Zenon DEF EnsureRunning, LeaseNext, Datastores
<1>6. CASE HandleKeepAlive(p) \/ HandleClose(p) \/ HandleReset(p)
  BY <1>6, Zenon DEF HandleKeepAlive, HandleClose, HandleReset, LeaseNext
<1>7. CASE HandleSweep(p)
  <2>1. PICK L \in SUBSET Expirable, S \in SUBSET sessions : Sweep(L, S)
    BY <1>7, Zenon DEF HandleSweep
  <2>2. "candidate" \in Datastores /\ Anon \in Ids
    BY Zenon DEF Datastores, Ids
  <2> QED
    BY <2>1, <2>2, Zenon DEF LeaseNext
<1>8. CASE HandleEditFlat(p) \/ HandleRestart(p)
  BY <1>8, Zenon DEF HandleEditFlat, HandleRestart
<1>9. CASE Step(p) /\ ~EnsureRunning(p)
  BY <1>9, Zenon DEF Step, Diff, Edit, Note, Reset, Clear, Consume, ReadRunning, ReadCandidate,
     WriteArtifact, Persist, Rename, Restore, StopENB, StartENB, ENBReady, Finalize, Rollback,
     StoreOnly
<1> QED
  BY <1>1, <1>2, <1>4, <1>5, <1>6, <1>7, <1>8, <1>9, Zenon DEF Handle

-----------------------------------------------------------------------------
(* The store *)

(* A request changes known leaves; the ones it may store are typed *)
LEMMA ChangesType ==
  ASSUME NEW chg \in Changes
  PROVE  /\ DOMAIN chg \subseteq Leaves
         /\ WellTyped(chg) \subseteq DOMAIN chg
         /\ \A k \in WellTyped(chg) : chg[k] \in Values
BY StoreConstants DEF Changes, WellTyped, Values

(* An accepted edit makes a valid candidate and marks what it changes *)
LEMMA EditAcceptedOK ==
  ASSUME StoreOK, NEW chg \in Changes, EditAccepted(chg)
  PROVE  StoreOK' /\ cand' \in ValidConfigs /\ UNCHANGED <<running, disk>>
<1>1. cand' \in ValidConfigs /\ UNCHANGED <<running, disk>>
  BY Zenon DEF EditAccepted, Overlay, Validates, ValidConfigs
<1>2. dirtyKeys' \in SUBSET Leaves
  BY ChangesType, Zenon DEF EditAccepted, MarkDirty, StoreOK
<1>3. \A k \in Leaves : cand'[k] # running'[k] => k \in dirtyKeys'
  BY <1>1, Zenon DEF EditAccepted, MarkDirty, Overlay, StoreOK, EditsAreMarked
<1>4. dirty' = {FileOf[k] : k \in dirtyKeys'}
  BY Zenon DEF EditAccepted, MarkDirty, StoreOK, EditsAreMarked
<1> QED
  BY <1>1, <1>2, <1>3, <1>4, Zenon DEF StoreOK, EditsAreMarked

(* A refused edit leaves the configurations, and may leave marks *)
LEMMA EditRefusedOK ==
  ASSUME StoreOK, NEW chg \in Changes, EditRefused(chg)
  PROVE  StoreOK' /\ UNCHANGED <<running, cand, disk>> /\ dirtyKeys \subseteq dirtyKeys'
<1>1. PICK K \in SUBSET DOMAIN chg : MarkDirty(K)
  BY ChangesType, Zenon DEF EditRefused
<1>2. UNCHANGED <<running, cand, disk>>
  BY Zenon DEF EditRefused
<1>3. dirtyKeys' = dirtyKeys \cup K /\ dirty' = dirty \cup {FileOf[k] : k \in K}
  BY <1>1, Zenon DEF MarkDirty
<1>4. dirtyKeys' \in SUBSET Leaves
  BY <1>3, ChangesType, Zenon DEF StoreOK
<1>5. dirty' = {FileOf[k] : k \in dirtyKeys'}
  BY <1>3, Zenon DEF StoreOK, EditsAreMarked
<1> QED
  BY <1>2, <1>3, <1>4, <1>5, Zenon DEF StoreOK, EditsAreMarked

(* Every step of the manager is a call of the store that keeps both
   configurations valid, seen by a client as an edit, a reset or a commit *)
LEMMA UsesStore ==
  ASSUME ControlOK, StoreOK, NEW p \in Slots, Handle(p) \/ Step(p)
  PROVE  /\ StoreOK'
         /\ Datastore!SteadyNext \/ UNCHANGED <<running, cand>>
<1>0. ASSUME UNCHANGED storeVars
      PROVE  StoreOK' /\ UNCHANGED <<running, cand>>
  BY <1>0, Zenon DEF storeVars, StoreOK, EditsAreMarked
<1>1. ASSUME NEW chg \in Changes, EditAccepted(chg) \/ EditRefused(chg)
      PROVE  StoreOK' /\ (Datastore!SteadyNext \/ UNCHANGED <<running, cand>>)
  BY <1>1, EditAcceptedOK, EditRefusedOK, Zenon DEF Datastore!SteadyNext, Datastore!Edit
<1>2. CASE Edit(p)
  <2>1. req[p].chg \in Changes
    BY <1>2, Zenon DEF Edit, ControlOK, HasRead
  <2> QED
    BY <1>1, <1>2, <2>1, Zenon DEF Edit
<1>3. CASE HandleEditFlat(p)
  BY <1>1, <1>3, Zenon DEF HandleEditFlat
<1>4. CASE Reset(p)
  BY <1>4, Zenon DEF Reset, ResetCandidate, StoreOK, EditsAreMarked, Datastore!SteadyNext,
              Datastore!Discard
<1>5. CASE Finalize(p)
  BY <1>5, Zenon DEF Finalize, FinalizeCommit, StoreOK, EditsAreMarked, Datastore!SteadyNext,
              Datastore!Commit
<1>6. CASE Rename(p)
  <2>1. \A F : Patched(F) \in Configs
    BY StoreConstants, Zenon DEF Patched, StoreOK, ValidConfigs, Configs, Values
  <2>2. disk' \in Configs /\ UNCHANGED memVars
    BY <1>6, <2>1, Zenon DEF Rename, Persisted, storeVars, memVars, StoreOK
  <2> QED
    BY <2>2, Zenon DEF memVars, StoreOK, EditsAreMarked
<1>7. CASE Restore(p)
  <2>1. mem[p].backup \in Configs
    BY <1>7, Zenon DEF Restore, ControlOK, HasRead, Writing
  <2>2. disk' \in Configs /\ UNCHANGED memVars
    BY <1>7, <2>1, Zenon DEF Restore, RollbackPersist, Restored, StoreOK, Configs, storeVars, memVars
  <2> QED
    BY <2>2, Zenon DEF memVars, StoreOK, EditsAreMarked
<1>8. CASE Handle(p) /\ ~HandleEditFlat(p)
  BY <1>0, <1>8, Zenon DEF Handle, HandleLock, HandleUnlock, HandleKeepAlive, HandleEditConfig,
     HandleDiscard, HandleCommit, HandleRestart, HandleClose, HandleSweep, HandleReset,
     EnsureCandidate, LeaseOnly
<1>9. CASE Step(p) /\ ~(Edit(p) \/ Reset(p) \/ Finalize(p) \/ Rename(p) \/ Restore(p))
  BY <1>0, <1>9, Zenon DEF Step, Diff, Note, Clear, Consume, ReadRunning, ReadCandidate,
     WriteArtifact, EnsureRunning, Persist, Rollback, StopENB, StartENB, ENBReady, LeaseOnly
<1> QED
  BY <1>2, <1>3, <1>4, <1>5, <1>6, <1>7, <1>8, <1>9, Zenon

-----------------------------------------------------------------------------
(* The control of the requests *)

(* A request r with memory m may stand at st *)
Fits(st, r, m) ==
  /\ st \in PCs /\ r \in Requests /\ m \in Memories
  /\ st \in {"diff", "edit"} => r.chg \in Changes
  /\ st \in Writing \cup {"rollback"} \/ (r.op = "commit" /\ st \in CommitWindow)
       => m.backup \in Configs
  /\ st \in {"readcand", "writerun"} => m.snap["running"] \in Configs
  /\ st \in {"writerun", "writecand"} => m.snap["candidate"] \in Configs

(* Moving one request leaves the others where they are *)
LEMMA MoveOK ==
  ASSUME ControlOK, NEW p \in Slots, NEW st, NEW r, NEW m, Fits(st, r, m),
         pc' = [pc EXCEPT ![p] = st],
         req' = [req EXCEPT ![p] = r],
         mem' = [mem EXCEPT ![p] = m]
  PROVE  ControlOK'
<1>1. /\ pc' \in [Slots -> PCs]
      /\ req' \in [Slots -> Requests]
      /\ mem' \in [Slots -> Memories]
  BY Zenon DEF ControlOK, Fits
<1>2. ASSUME NEW q \in Slots
      PROVE  HasRead(q)'
  <2>1. CASE q = p
    <3>1. pc'[q] = st /\ req'[q] = r /\ mem'[q] = m
      BY <2>1, Zenon DEF ControlOK
    <3> QED
      BY <3>1, Zenon DEF Fits, HasRead, InCommit
  <2>2. CASE q # p
    <3>1. pc'[q] = pc[q] /\ req'[q] = req[q] /\ mem'[q] = mem[q]
      BY <2>2, Zenon DEF ControlOK
    <3> QED
      BY <3>1, Zenon DEF ControlOK, HasRead, InCommit
  <2> QED
    BY <2>1, <2>2, Zenon
<1> QED
  BY <1>1, <1>2, Zenon DEF ControlOK

LEMMA EmptyType == NoReq \in Requests /\ NoMem \in Memories
<1>1. NoReq \in Requests
  BY Zenon DEF NoReq, Requests, Ops, Ids
<1>2. NoMem \in Memories
  BY Zenon DEF NoMem, NoCfg, Memories
<1> QED
  BY <1>1, <1>2, Zenon

(* The points a request can be sent to with no more than it has *)
Plain == PCs \ (Writing \cup {"diff", "edit", "rollback", "readcand", "writerun", "writecand"})

LEMMA BeginOK ==
  ASSUME ControlOK, NEW p \in Slots, NEW r \in Requests, NEW st \in Plain \cup {"diff"},
         st = "diff" => r.chg \in Changes,
         r.op = "commit" => st \notin CommitWindow,
         Begin(p, r, st)
  PROVE  ControlOK'
<1> DEFINE rr == IF st = "idle" THEN NoReq ELSE r
<1>1. mem' = [mem EXCEPT ![p] = mem[p]]
  BY Zenon DEF Begin, ControlOK
<1>2. mem[p] \in Memories /\ rr \in Requests
  BY EmptyType, Zenon DEF ControlOK
<1>3. Fits(st, rr, mem[p])
  BY <1>2, Zenon DEF Fits, Plain, PCs, CommitWindow, Writing
<1> HIDE DEF rr
<1>4. pc' = [pc EXCEPT ![p] = st] /\ req' = [req EXCEPT ![p] = rr]
  BY Zenon DEF Begin, rr
<1> QED
  BY <1>1, <1>3, <1>4, MoveOK, Zenon

LEMMA GoOK ==
  ASSUME ControlOK, NEW p \in Slots, NEW st \in Plain \cup {"rollback", "writecand"},
         st = "rollback" => InCommit(p),
         req[p].op = "commit" /\ st \in CommitWindow => InCommit(p),
         st = "writecand" => mem[p].snap["candidate"] \in Configs,
         Go(p, st)
  PROVE  ControlOK'
<1>1. req' = [req EXCEPT ![p] = req[p]] /\ mem' = [mem EXCEPT ![p] = mem[p]]
  BY Zenon DEF Go, ControlOK
<1>2. req[p] \in Requests /\ mem[p] \in Memories /\ HasRead(p)
  BY Zenon DEF ControlOK
<1>3. Fits(st, req[p], mem[p])
  BY <1>2, Zenon DEF Fits, HasRead, Plain, PCs, CommitWindow, Writing
<1>4. pc' = [pc EXCEPT ![p] = st]
  BY Zenon DEF Go
<1> QED
  BY <1>1, <1>3, <1>4, MoveOK, Zenon

LEMMA ReturnOK ==
  ASSUME ControlOK, NEW p \in Slots, Return(p)
  PROVE  ControlOK'
<1>1. Fits("idle", NoReq, NoMem)
  BY EmptyType, Zenon DEF Fits, PCs, CommitWindow, Writing
<1> QED
  BY <1>1, MoveOK, Zenon DEF Return

(* A request that writes files stays where it may be whatever it has left to write *)
LEMMA TodoOK ==
  ASSUME ControlOK, NEW p \in Slots, NEW st \in Writing, NEW F \in SUBSET Files,
         mem[p].backup \in Configs,
         pc' = [pc EXCEPT ![p] = st],
         mem' = [mem EXCEPT ![p].todo = F],
         req' = req
  PROVE  ControlOK'
<1> DEFINE m == [mem[p] EXCEPT !.todo = F]
<1>1. req[p] \in Requests /\ mem[p] \in Memories
  BY Zenon DEF ControlOK
<1>2. m \in Memories /\ m.backup = mem[p].backup
  BY <1>1, Zenon DEF Memories
<1>3. Fits(st, req[p], m)
  BY <1>1, <1>2, Zenon DEF Fits, PCs, CommitWindow, Writing
<1>4. req' = [req EXCEPT ![p] = req[p]] /\ mem' = [mem EXCEPT ![p] = m]
  BY Zenon DEF ControlOK
<1> HIDE DEF m
<1> QED
  BY <1>3, <1>4, MoveOK, Zenon

LEMMA GoRefreshOK ==
  ASSUME ControlOK, NEW p \in Slots, GoRefresh(p)
  PROVE  ControlOK'
<1>1. "refresh" \in Plain /\ "refresh" \notin CommitWindow
  BY Zenon DEF Plain, PCs, CommitWindow, Writing
<1> QED
  BY <1>1, GoOK, ReturnOK, Zenon DEF GoRefresh

LEMMA HandleControl ==
  ASSUME ControlOK, LeaseOK, NEW p \in Slots, Handle(p)
  PROVE  ControlOK'
<1>0. {"idle", "reset", "resetonly", "consume", "clearfirst", "refresh", "ensure", "stop"}
        \subseteq Plain
  BY Zenon DEF Plain, PCs, CommitWindow, Writing
<1>w. {"idle", "reset", "resetonly", "consume", "clearfirst", "refresh", "ensure", "diff"}
        \cap CommitWindow = {}
  BY Zenon DEF CommitWindow, Writing
<1>e. << >> \in Changes \cup {<< >>} /\ {} \in SUBSET Sessions /\ Anon \in Ids
  BY Zenon DEF Ids
<1>n. NoReq.op # "commit"
  BY Zenon DEF NoReq
<1>1. CASE HandleLock(p) \/ HandleKeepAlive(p)
  <2>1. Begin(p, NoReq, "idle")
    BY <1>1, Zenon DEF HandleLock, HandleKeepAlive
  <2> QED
    BY <2>1, <1>0, <1>n, EmptyType, BeginOK, Zenon
<1>2. CASE HandleUnlock(p)
  <2>1. PICK st \in {"reset", "idle"} : Begin(p, [NoReq EXCEPT !.op = "unlock"], st)
    BY <1>2, Zenon DEF HandleUnlock
  <2>2. [NoReq EXCEPT !.op = "unlock"] \in Requests /\ [NoReq EXCEPT !.op = "unlock"].op = "unlock"
    BY <1>e, Zenon DEF NoReq, Requests, Ops
  <2> QED
    BY <2>1, <2>2, <1>0, BeginOK, Zenon
<1>3. ASSUME NEW op \in {"edit", "discard", "commit"}, NEW id \in Ids,
             NEW chg \in Changes \cup {<< >>}, NEW nxt \in {"diff", "reset", "ensure"},
             nxt = "diff" => chg \in Changes,
             EnsureCandidate(p, op, id, chg, nxt)
      PROVE  ControlOK'
  <2> DEFINE r == [NoReq EXCEPT !.op = op, !.id = id, !.chg = chg]
  <2>1. PICK st \in {nxt, "idle"} : Begin(p, r, st)
    BY <1>3, Zenon DEF EnsureCandidate
  <2>2. r \in Requests /\ r.chg = chg
    BY <1>e, Zenon DEF NoReq, Requests, Ops
  <2>3. st \in Plain \cup {"diff"} /\ st \notin CommitWindow /\ (st = "diff" => r.chg \in Changes)
    BY <1>0, <1>w, <1>3, <2>2, Zenon
  <2> HIDE DEF r
  <2> QED
    BY <2>1, <2>2, <2>3, BeginOK, Zenon
<1>4. CASE HandleEditConfig(p) \/ HandleDiscard(p) \/ HandleCommit(p)
  BY <1>3, <1>4, Zenon DEF HandleEditConfig, HandleDiscard, HandleCommit
<1>5. CASE HandleEditFlat(p)
  <2>1. \/ Begin(p, NoReq, "idle")
        \/ \E st \in {"refresh", "idle"} : Begin(p, [NoReq EXCEPT !.op = "flat"], st)
    BY <1>5, Zenon DEF HandleEditFlat
  <2>2. [NoReq EXCEPT !.op = "flat"] \in Requests /\ [NoReq EXCEPT !.op = "flat"].op = "flat"
    BY <1>e, Zenon DEF NoReq, Requests, Ops
  <2> QED
    BY <2>1, <2>2, <1>0, <1>n, EmptyType, BeginOK, Zenon
<1>6. ASSUME NEW op \in {"close", "sweep"}, NEW gone \in SUBSET Sessions,
             NEW st \in {"resetonly", "consume", "idle"},
             Begin(p, [NoReq EXCEPT !.op = op, !.gone = gone], st)
      PROVE  ControlOK'
  <2>1. /\ [NoReq EXCEPT !.op = op, !.gone = gone] \in Requests
        /\ [NoReq EXCEPT !.op = op, !.gone = gone].op = op
    BY <1>e, Zenon DEF NoReq, Requests, Ops
  <2> QED
    BY <1>6, <2>1, <1>0, BeginOK, Zenon
<1>7. CASE HandleClose(p)
  <2>1. PICK s \in Sessions : \E st \in {"resetonly", "consume"} :
          Begin(p, [NoReq EXCEPT !.op = "close", !.gone = {s}], st)
    BY <1>7, Zenon DEF HandleClose
  <2> QED
    BY <2>1, <1>6, Zenon
<1>8. CASE HandleSweep(p)
  <2>1. PICK L \in SUBSET Expirable, S \in SUBSET sessions :
          \E st \in {"resetonly", "consume", "idle"} :
            Begin(p, [NoReq EXCEPT !.op = "sweep", !.gone = S \cup {locks[ds] : ds \in L}], st)
    BY <1>8, Zenon DEF HandleSweep
  <2>2. S \cup {locks[ds] : ds \in L} \in SUBSET Sessions
    BY Zenon DEF Expirable, LeaseOK
  <2> QED
    BY <2>1, <2>2, <1>6, Zenon
<1>9. CASE HandleReset(p) \/ HandleRestart(p)
  <2>1. \/ Begin(p, [NoReq EXCEPT !.op = "resetall"], "clearfirst")
        \/ Begin(p, [NoReq EXCEPT !.op = "restart"], "stop")
    BY <1>9, Zenon DEF HandleReset, HandleRestart
  <2>2. \A op \in {"resetall", "restart"} :
          [NoReq EXCEPT !.op = op] \in Requests /\ [NoReq EXCEPT !.op = op].op = op
    BY <1>e, Zenon DEF NoReq, Requests, Ops
  <2> QED
    BY <2>1, <2>2, <1>0, BeginOK, Zenon
<1> QED
  BY <1>1, <1>2, <1>4, <1>5, <1>7, <1>8, <1>9, Zenon DEF Handle

LEMMA StepControl ==
  ASSUME ControlOK, StoreOK, NEW p \in Slots, Step(p)
  PROVE  ControlOK'
<1>0. {"idle", "note", "reset", "resetonly", "clear", "refresh", "persist",
       "stop", "start", "ready", "finalize"} \subseteq Plain
  BY Zenon DEF Plain, PCs, CommitWindow, Writing
<1>w. {"note", "reset", "resetonly", "clear", "refresh", "persist", "writecand"}
        \cap CommitWindow = {}
  BY Zenon DEF CommitWindow, Writing
<1>p. pc[p] \in PCs /\ req[p] \in Requests /\ mem[p] \in Memories /\ HasRead(p)
  BY Zenon DEF ControlOK
<1>d. dirty \in SUBSET Files
  BY StoreConstants DEF StoreOK, EditsAreMarked
<1>c. running \in Configs /\ cand \in Configs /\ disk \in Configs
  BY Zenon DEF StoreOK, ValidConfigs, Configs, Values
<1>1. CASE Diff(p)
  <2>1. CASE Return(p)
    BY <2>1, ReturnOK, Zenon
  <2>2. CASE ~Return(p)
    <3> DEFINE differs == {k \in DOMAIN req[p].chg : req[p].chg[k] # cand[k]}
               chg == [k \in differs |-> req[p].chg[k]]
               r == [req[p] EXCEPT !.chg = chg]
    <3>1. /\ pc[p] = "diff" /\ differs # {}
          /\ pc' = [pc EXCEPT ![p] = "edit"]
          /\ req' = [req EXCEPT ![p].chg = chg]
          /\ mem' = mem
      BY <1>1, <2>2, Zenon DEF Diff
    <3>2. req[p].chg \in Changes
      BY <1>p, <3>1, Zenon DEF HasRead
    <3>3. chg \in Changes
      <4>1. PICK K \in SUBSET Leaves : req[p].chg \in [K -> Values \cup IllTyped]
        BY <3>2, Zenon DEF Changes
      <4>2. differs \in (SUBSET Leaves) \ {{}} /\ chg \in [differs -> Values \cup IllTyped]
        BY <3>1, <4>1, Zenon
      <4> HIDE DEF differs, chg
      <4> QED
        BY <4>2, Zenon DEF Changes
    <3> HIDE DEF chg, differs
    <3>4. r \in Requests /\ r.chg = chg /\ r.op = req[p].op
      BY <1>p, <3>3, Zenon DEF Requests
    <3>5. Fits("edit", r, mem[p])
      BY <1>p, <3>3, <3>4, Zenon DEF Fits, PCs, CommitWindow, Writing
    <3>6. req' = [req EXCEPT ![p] = r] /\ mem' = [mem EXCEPT ![p] = mem[p]]
      BY <3>1, Zenon DEF ControlOK
    <3> HIDE DEF r
    <3> QED
      BY <3>1, <3>5, <3>6, MoveOK, Zenon
  <2> QED
    BY <2>1, <2>2, Zenon
<1>2. CASE Edit(p)
  <2>1. Go(p, "note") \/ Return(p)
    BY <1>2, Zenon DEF Edit
  <2> QED
    BY <2>1, <1>0, <1>w, GoOK, ReturnOK, Zenon
<1>3. CASE Note(p)
  BY <1>3, GoRefreshOK, Zenon DEF Note
<1>4. CASE Reset(p)
  <2>1. Go(p, "clear") \/ GoRefresh(p)
    BY <1>4, Zenon DEF Reset
  <2> QED
    BY <2>1, <1>0, <1>w, GoOK, GoRefreshOK, Zenon
<1>5. CASE Clear(p)
  <2>1. Go(p, "resetonly") \/ GoRefresh(p)
    BY <1>5, Zenon DEF Clear
  <2> QED
    BY <2>1, <1>0, <1>w, GoOK, GoRefreshOK, Zenon
<1>6. CASE Consume(p)
  <2>1. Go(p, "resetonly") \/ Return(p)
    BY <1>6, Zenon DEF Consume
  <2> QED
    BY <2>1, <1>0, <1>w, GoOK, ReturnOK, Zenon
<1>7. CASE ReadRunning(p)
  <2> DEFINE m == [mem[p] EXCEPT !.snap["running"] = running]
  <2>1. m \in Memories /\ m.snap["running"] = running
    BY <1>p, <1>c, Zenon DEF Memories, Datastores
  <2>2. Fits("readcand", req[p], m)
    BY <1>p, <1>c, <2>1, Zenon DEF Fits, PCs, CommitWindow, Writing
  <2>3. /\ pc' = [pc EXCEPT ![p] = "readcand"]
        /\ req' = [req EXCEPT ![p] = req[p]]
        /\ mem' = [mem EXCEPT ![p] = m]
    BY <1>7, Zenon DEF ReadRunning, ControlOK
  <2> HIDE DEF m
  <2> QED
    BY <2>2, <2>3, MoveOK, Zenon
<1>8. CASE ReadCandidate(p)
  <2> DEFINE m == [mem[p] EXCEPT !.snap["candidate"] = cand]
  <2>0. mem[p].snap["running"] \in Configs
    BY <1>8, <1>p, Zenon DEF ReadCandidate, HasRead
  <2>1. /\ m \in Memories /\ m.snap["candidate"] = cand
        /\ m.snap["running"] = mem[p].snap["running"]
    BY <1>p, <1>c, Zenon DEF Memories, Datastores
  <2>2. Fits("writerun", req[p], m)
    BY <1>p, <1>c, <2>0, <2>1, Zenon DEF Fits, PCs, CommitWindow, Writing
  <2>3. /\ pc' = [pc EXCEPT ![p] = "writerun"]
        /\ req' = [req EXCEPT ![p] = req[p]]
        /\ mem' = [mem EXCEPT ![p] = m]
    BY <1>8, Zenon DEF ReadCandidate, ControlOK
  <2> HIDE DEF m
  <2> QED
    BY <2>2, <2>3, MoveOK, Zenon
<1>9. CASE WriteArtifact(p)
  <2>1. CASE Return(p)
    BY <2>1, ReturnOK, Zenon
  <2>2. CASE pc[p] = "writerun" /\ Go(p, "writecand")
    <3>1. mem[p].snap["candidate"] \in Configs
      BY <1>p, <2>2, Zenon DEF HasRead
    <3> QED
      BY <2>2, <3>1, <1>w, GoOK, Zenon
  <2> QED
    BY <1>9, <2>1, <2>2, Zenon DEF WriteArtifact
<1>10. CASE EnsureRunning(p)
  <2>1. Go(p, "persist") \/ Return(p)
    BY <1>10, Zenon DEF EnsureRunning
  <2> QED
    BY <2>1, <1>0, <1>w, GoOK, ReturnOK, Zenon
<1>11. CASE Persist(p)
  <2>1. CASE Return(p)
    BY <2>1, ReturnOK, Zenon
  <2>2. CASE ~Return(p)
    <3> DEFINE m == [NoMem EXCEPT !.backup = disk, !.saved = dirty, !.todo = dirty]
               r == [req[p] EXCEPT !.id = Anon]
    <3>1. /\ pc' = [pc EXCEPT ![p] = "rename"]
          /\ req' = [req EXCEPT ![p].id = Anon]
          /\ mem' = [mem EXCEPT ![p] = m]
      BY <1>11, <2>2, Zenon DEF Persist
    <3>2. r \in Requests
      BY <1>p, Zenon DEF Requests, Ids
    <3>3. m \in Memories /\ m.backup = disk
      BY <1>c, <1>d, EmptyType, Zenon DEF NoMem, Memories
    <3>4. Fits("rename", r, m)
      BY <1>c, <3>2, <3>3, Zenon DEF Fits, PCs, CommitWindow, Writing
    <3>5. req' = [req EXCEPT ![p] = r]
      BY <3>1, Zenon DEF ControlOK
    <3> HIDE DEF m, r
    <3> QED
      BY <3>1, <3>4, <3>5, MoveOK, Zenon
  <2> QED
    BY <2>1, <2>2, Zenon
<1>12. ASSUME pc[p] \in CommitWindow, RestartFailed(p)
       PROVE  ControlOK'
  <2>1. \/ InCommit(p) /\ Go(p, "rollback")
        \/ Return(p)
    BY <1>12, Zenon DEF RestartFailed, InCommit
  <2> QED
    BY <2>1, GoOK, ReturnOK, Zenon
<1>13. CASE StopENB(p) \/ StartENB(p) \/ ENBReady(p)
  <2>1. pc[p] \in CommitWindow
    BY <1>13, Zenon DEF StopENB, StartENB, ENBReady, CommitWindow, Writing
  <2>2. \/ RestartFailed(p)
        \/ \E st \in {"start", "ready", "finalize"} : Go(p, st)
        \/ Return(p)
    BY <1>13, Zenon DEF StopENB, StartENB, ENBReady
  <2>3. req[p].op = "commit" => InCommit(p)
    BY <2>1, Zenon DEF InCommit
  <2>4. {"start", "ready", "finalize"} \cap {"rollback", "writecand"} = {}
    BY Zenon
  <2> QED
    BY <2>1, <2>2, <2>3, <2>4, <1>0, <1>12, GoOK, ReturnOK, Zenon
<1>14. ASSUME Leave(p)
       PROVE  ControlOK'
  <2>1. Fits("reset", req[p], NoMem)
    BY <1>p, EmptyType, Zenon DEF Fits, PCs, CommitWindow, Writing
  <2>2. req' = [req EXCEPT ![p] = req[p]]
    BY <1>14, Zenon DEF Leave, ControlOK
  <2> QED
    BY <1>14, <2>1, <2>2, MoveOK, Zenon DEF Leave
<1>15. CASE Finalize(p)
  BY <1>14, <1>15, Zenon DEF Finalize
<1>t. mem[p].saved \in SUBSET Files /\ mem[p].todo \in SUBSET Files
  BY <1>p, Zenon DEF Memories
<1>16. ASSUME pc[p] \in Writing, NEW f, Done(p, f)
       PROVE  ControlOK'
  <2>1. mem[p].backup \in Configs
    BY <1>16, <1>p, Zenon DEF HasRead
  <2>2. pc' = [pc EXCEPT ![p] = pc[p]] /\ req' = req
    BY <1>16, Zenon DEF Done, ControlOK
  <2>3. mem' = [mem EXCEPT ![p].todo = mem[p].todo \ {f}]
    BY <1>16, Zenon DEF Done
  <2>4. mem[p].todo \ {f} \in SUBSET Files
    BY <1>t, Zenon
  <2> QED
    BY <1>16, <2>1, <2>2, <2>3, <2>4, TodoOK, Zenon
<1>17. CASE Rename(p)
  <2>1. pc[p] \in Writing /\ mem[p].backup \in Configs
    BY <1>17, <1>p, Zenon DEF Rename, HasRead, Writing
  <2>2. CASE \E f : Done(p, f)
    BY <1>16, <2>1, <2>2, Zenon
  <2>3. CASE Turn(p, "restore", mem[p].saved)
    BY <1>t, <2>1, <2>3, TodoOK, Zenon DEF Turn, Writing
  <2>4. CASE Go(p, "stop") \/ Go(p, "finalize")
    <3>1. req[p].op = "commit" => InCommit(p)
      BY <2>1, Zenon DEF InCommit, CommitWindow
    <3> QED
      BY <1>0, <2>4, <3>1, GoOK, Zenon
  <2> QED
    BY <1>17, <2>2, <2>3, <2>4, Zenon DEF Rename, Persisted
<1>18. CASE Restore(p)
  <2>1. pc[p] \in Writing
    BY <1>18, Zenon DEF Restore, Writing
  <2> QED
    BY <1>14, <1>16, <1>18, <2>1, ReturnOK, Zenon DEF Restore
<1>19. CASE Rollback(p)
  <2>1. mem[p].backup \in Configs /\ mem[p].saved \cap dirty \in SUBSET Files
    BY <1>19, <1>p, <1>t, Zenon DEF Rollback, HasRead
  <2> QED
    BY <1>19, <2>1, TodoOK, Zenon DEF Rollback, Turn, Writing
<1> QED
  BY <1>1, <1>2, <1>3, <1>4, <1>5, <1>6, <1>7, <1>8, <1>9, <1>10, <1>11, <1>13, <1>15, <1>17,
     <1>18, <1>19, Zenon DEF Step

-----------------------------------------------------------------------------
(* The inductive invariant *)
Inv == ControlOK /\ LeaseOK /\ StoreOK

LEMMA InitInv == Init => Inv
<1> SUFFICES ASSUME Init PROVE Inv
  BY Zenon
<1>1. ControlOK
  BY EmptyType, Zenon DEF Init, ControlOK, HasRead, InCommit, PCs, CommitWindow, Writing
<1>2. LeaseOK
  BY SessionIds, Zenon DEF Init, LeaseInit, LeaseOK, HolderIsTracked
<1>3. StoreOK
  BY Zenon DEF Init, StoreInit, StoreOK, EditsAreMarked, ValidConfigs, Configs, Values
<1> QED
  BY <1>1, <1>2, <1>3, Zenon DEF Inv

LEMMA NextInv == Inv /\ [Next]_vars => Inv'
<1>1. ASSUME Inv, NEW p \in Slots, Handle(p) \/ Step(p)
      PROVE  Inv'
  BY <1>1, HandleControl, StepControl, UsesLease, LeaseStepOK, UsesStore, Zenon DEF Inv
<1>2. ASSUME Inv, UNCHANGED vars
      PROVE  Inv'
  <2>1. ControlOK'
    BY <1>2, Zenon DEF Inv, vars, ControlOK, HasRead, InCommit
  <2>2. LeaseOK'
    BY <1>2, LeaseStepOK, Zenon DEF Inv, vars, leaseVars
  <2>3. StoreOK'
    BY <1>2, Zenon DEF Inv, vars, StoreOK, EditsAreMarked
  <2> QED
    BY <2>1, <2>2, <2>3, Zenon DEF Inv
<1> QED
  BY <1>1, <1>2, Zenon DEF Next

LEMMA InvHolds == Spec => []Inv
BY InitInv, NextInv, PTL DEF Spec

(***************************************************************************)
(* However many requests run at once, in any interleaving: both            *)
(* configurations validate, so no commit fails after it wrote its files.   *)
(***************************************************************************)
THEOREM ConfigsStayValid == Spec => []ConfigIsValid
<1>1. Inv => ConfigIsValid
  BY Zenon DEF Inv, StoreOK, ConfigIsValid, Validates, ValidConfigs
<1> QED
  BY <1>1, InvHolds, PTL

(***************************************************************************)
(* However many requests run at once: what a commit makes running is       *)
(* marked for writing.                                                     *)
(***************************************************************************)
THEOREM EditsStayMarked == Spec => []EditsAreMarked
<1>1. Inv => EditsAreMarked
  BY Zenon DEF Inv, StoreOK
<1> QED
  BY <1>1, InvHolds, PTL

(***************************************************************************)
(* No path of the manager leaves a lock behind whose session is forgotten. *)
(***************************************************************************)
THEOREM HoldersAreTracked == Spec => []HolderIsTracked
<1>1. Inv => HolderIsTracked
  BY Zenon DEF Inv, LeaseOK
<1> QED
  BY <1>1, InvHolds, PTL

(***************************************************************************)
(* However many requests run at once, a client sees a candidate datastore: *)
(* the running configuration changes only by becoming the candidate.       *)
(***************************************************************************)
THEOREM ImplementsCandidateDatastore == Spec => ImplementsDatastore
<1>1. Init => Datastore!DatastoreInit
  BY Zenon DEF Init, StoreInit, Datastore!DatastoreInit
<1>2. Inv /\ [Next]_vars => [Datastore!SteadyNext]_(Datastore!datastoreVars)
  <2> SUFFICES ASSUME Inv, [Next]_vars
               PROVE  Datastore!SteadyNext \/ UNCHANGED <<running, cand>>
    BY Zenon DEF Datastore!datastoreVars
  <2>1. ASSUME NEW p \in Slots, Handle(p) \/ Step(p)
        PROVE  Datastore!SteadyNext \/ UNCHANGED <<running, cand>>
    BY <2>1, UsesStore, Zenon DEF Inv
  <2>2. CASE UNCHANGED vars
    BY <2>2, Zenon DEF vars
  <2> QED
    BY <2>1, <2>2, Zenon DEF Next
<1> QED
  BY <1>1, <1>2, InvHolds, PTL DEF Spec, ImplementsDatastore, Datastore!SteadySpec

-----------------------------------------------------------------------------
(***************************************************************************)
(* Type correctness of the manager: in particular a request uses a backup, *)
(* a snapshot or a set of changes only after it has read one.              *)
(***************************************************************************)
THEOREM TypeCorrect == Spec => []TypeOK
<1> DEFINE Rest == /\ lastEdit \in Ids
                   /\ art \in [Datastores -> Configs]
                   /\ enb \in Configs \cup {Down}
                   /\ restarting \in BOOLEAN
                   /\ history \in SUBSET Incidents
<1>1. Init => Rest
  BY Zenon DEF Init, StoreInit, Ids, ValidConfigs, Configs, Values
<1>2. Inv /\ Rest /\ [Next]_vars => Rest'
  <2> SUFFICES ASSUME Inv, Rest, [Next]_vars PROVE Rest'
    BY Zenon
  <2>0. CASE UNCHANGED vars
    BY <2>0, Zenon DEF vars
  <2> SUFFICES ASSUME NEW p \in Slots, Handle(p) \/ Step(p) PROVE Rest'
    BY <2>0, Zenon DEF Next
  <2> USE DEF Handle, HandleLock, HandleUnlock, HandleKeepAlive, HandleEditConfig,
         HandleEditFlat, HandleDiscard, HandleCommit, HandleRestart, HandleClose,
         HandleSweep, HandleReset, EnsureCandidate, LeaseOnly
  <2> USE DEF Step, Diff, Edit, Note, Reset, Clear, Consume, ReadRunning, ReadCandidate,
         WriteArtifact, Publish, EnsureRunning, Persist, Rename, Persisted, Restore, StopENB,
         StartENB, ENBReady, RestartFailed, Finalize, Rollback, StoreOnly, managerVars
  <2>1. history' \in SUBSET Incidents
    BY ManagerConstants, Zenon DEF Disturb, Drop, Grant, Record
  <2>2. lastEdit' \in Ids
    <3>1. req[p].id \in Ids
      BY Zenon DEF Inv, ControlOK, Requests
    <3> QED
      BY <3>1, Zenon DEF Ids
  <2>3. art' \in [Datastores -> Configs]
    <3>1. /\ pc[p] = "writerun" => mem[p].snap["running"] \in Configs
          /\ pc[p] = "writecand" => mem[p].snap["candidate"] \in Configs
      BY Zenon DEF Inv, ControlOK, HasRead
    <3>2. CASE WriteArtifact(p)
      BY <3>1, <3>2, Zenon
    <3>3. CASE ~WriteArtifact(p)
      BY <3>3, Zenon
    <3> QED
      BY <3>2, <3>3, Zenon
  <2>4. enb' \in Configs \cup {Down}
    BY Zenon DEF Inv, StoreOK
  <2>5. restarting' \in BOOLEAN
    BY Zenon
  <2> QED
    BY <2>1, <2>2, <2>3, <2>4, <2>5, Zenon
<1>3. Inv /\ Rest => TypeOK
  <2>1. Inv => dirty \in SUBSET Files
    BY StoreConstants, SMTT(30) DEF Inv, StoreOK, EditsAreMarked
  <2> QED
    BY <2>1, Zenon DEF Inv, LeaseOK, StoreOK, TypeOK, ValidConfigs, Configs, Values
<1> HIDE DEF Rest
<1> QED
  BY <1>1, <1>2, <1>3, InvHolds, PTL DEF Spec
-----------------------------------------------------------------------------
(* Who writes the files *)

(* One request at most holds the mutex of the store while it writes files.  Nobody
   else changes what is dirty under it, and a file it has not written, or has
   restored, is as it was. *)
WriteInv ==
  /\ \A p, q \in Slots : pc[p] \in Writing /\ pc[q] \in Writing => p = q
  /\ \A p \in Slots : pc[p] \in {"rename", "restore"} =>
       /\ mem[p].saved = dirty
       /\ mem[p].todo \subseteq dirty
  /\ \A p \in Slots, k \in Leaves :
       \/ pc[p] = "rename" /\ FileOf[k] \notin mem[p].saved \ mem[p].todo
       \/ pc[p] = "restore" /\ FileOf[k] \notin mem[p].todo
       => disk[k] = mem[p].backup[k]

(* Only a commit writes files, finalizes or rolls back *)
CommitPCs == Writing \cup {"ensure", "persist", "finalize", "rollback"}
CommitOnly == \A p \in Slots : pc[p] \in CommitPCs => req[p].op = "commit"

(* A step of p is a step of no other request, and no incident is forgotten *)
LEMMA OthersStay ==
  ASSUME ControlOK, NEW p \in Slots, Handle(p) \/ Step(p)
  PROVE  /\ \A q \in Slots \ {p} : pc'[q] = pc[q] /\ req'[q] = req[q] /\ mem'[q] = mem[q]
         /\ history \subseteq history'
<1>0. DOMAIN pc = Slots /\ DOMAIN req = Slots /\ DOMAIN mem = Slots
  BY Zenon DEF ControlOK
<1> USE DEF Begin, Go, Return, GoRefresh, Record
<1>1. CASE Handle(p)
  BY <1>0, <1>1, ZenonT(60) DEF Handle, HandleLock, HandleUnlock, HandleKeepAlive, HandleEditConfig,
     HandleEditFlat, HandleDiscard, HandleCommit, HandleRestart, HandleClose, HandleSweep,
     HandleReset, EnsureCandidate, Grant, Drop, Disturb
<1>2. CASE Step(p)
  <2>1. CASE Diff(p) \/ Edit(p) \/ Note(p) \/ Reset(p) \/ Clear(p) \/ Consume(p)
    BY <1>0, <2>1, Zenon DEF Diff, Edit, Note, Reset, Clear, Consume, Disturb, StoreOnly, managerVars
  <2>2. CASE ReadRunning(p) \/ ReadCandidate(p) \/ WriteArtifact(p) \/ EnsureRunning(p)
    BY <1>0, <2>2, Zenon DEF ReadRunning, ReadCandidate, WriteArtifact, Publish, EnsureRunning,
       Drop, managerVars
  <2>3. CASE Persist(p) \/ Finalize(p) \/ Rollback(p)
    BY <1>0, <2>3, Zenon DEF Persist, Finalize, Rollback, Leave, Turn, Disturb, StoreOnly, managerVars
  <2>4. CASE StopENB(p) \/ StartENB(p) \/ ENBReady(p)
    BY <1>0, <2>4, Zenon DEF StopENB, StartENB, ENBReady, RestartFailed
  <2>5. CASE Rename(p) \/ Restore(p)
    BY <1>0, <2>5, Zenon DEF Rename, Persisted, Restore, Done, Turn, Leave, Disturb
  <2> QED
    BY <1>2, <2>1, <2>2, <2>3, <2>4, <2>5, Zenon DEF Step
<1> QED
  BY <1>1, <1>2, Zenon

(* Where a request starts to write files, and where it cannot come to *)
LEMMA StaysOut ==
  ASSUME ControlOK, NEW p \in Slots, Handle(p) \/ Step(p),
         ~(Persist(p) \/ Rename(p) \/ Restore(p) \/ Rollback(p))
  PROVE  pc'[p] \notin Writing
<1>0. DOMAIN pc = Slots
  BY Zenon DEF ControlOK
<1> USE DEF Begin, Go, Return, GoRefresh, Writing
<1>1. CASE Handle(p)
  BY <1>0, <1>1, ZenonT(60) DEF Handle, HandleLock, HandleUnlock, HandleKeepAlive, HandleEditConfig,
     HandleEditFlat, HandleDiscard, HandleCommit, HandleRestart, HandleClose, HandleSweep,
     HandleReset, EnsureCandidate
<1>2. CASE Step(p)
  BY <1>0, <1>2, ZenonT(60) DEF Step, Diff, Edit, Note, Reset, Clear, Consume, ReadRunning, ReadCandidate,
     WriteArtifact, EnsureRunning, StopENB, StartENB, ENBReady, RestartFailed, Finalize, Leave
<1> QED
  BY <1>1, <1>2, Zenon

(* What a step to write a file does, and what the others that write do *)
LEMMA RenameCases ==
  ASSUME ControlOK, NEW p \in Slots, Rename(p)
  PROVE  \/ \E f \in mem[p].todo :
              /\ disk' = Patched({f}) /\ UNCHANGED memVars /\ Disturb(p, {})
              /\ UNCHANGED <<pc, req>> /\ mem'[p] = [mem[p] EXCEPT !.todo = @ \ {f}]
         \/ /\ mem[p].todo # {} /\ UNCHANGED storeVars
            /\ pc'[p] = "restore" /\ req' = req
            /\ mem'[p] = [mem[p] EXCEPT !.todo = mem[p].saved]
         \/ /\ mem[p].todo = {} /\ UNCHANGED storeVars
            /\ UNCHANGED <<req, mem>>
            /\ \/ pc'[p] = "stop"
               \/ /\ pc'[p] = "finalize"
                  /\ mem[p].saved # {} /\ "norestart" \in Recorded => "norestart" \in history'
BY Zenon DEF Rename, Persisted, Done, Turn, Go, Record, ControlOK

LEMMA RestoreCases ==
  ASSUME ControlOK, NEW p \in Slots, Restore(p)
  PROVE  \/ \E f \in mem[p].todo :
              /\ RollbackPersist(mem[p].backup, mem[p].saved, {f}) /\ Disturb(p, {})
              /\ UNCHANGED <<pc, req>> /\ mem'[p] = [mem[p] EXCEPT !.todo = @ \ {f}]
         \/ /\ UNCHANGED storeVars
            /\ pc'[p] = IF pc[p] = "restore" THEN "idle" ELSE "reset"
            /\ \/ disk = Restored(mem[p].backup, mem[p].saved, mem[p].todo)
               \/ "broken" \in Recorded => "broken" \in history'
BY Zenon DEF Restore, Done, Return, Leave, Record, ControlOK

(* Nothing changes the store while another's commit is open *)
LEMMA Undisturbed ==
  ASSUME "disturbed" \in Recorded, NEW p \in Slots, Handle(p) \/ Step(p),
         "disturbed" \notin history', NEW q \in Slots \ {p}, InCommit(q)
  PROVE  UNCHANGED storeVars
<1>1. ASSUME NEW more, Disturb(p, more) PROVE UNCHANGED storeVars
  BY <1>1, Zenon DEF Disturb, Record
<1>2. CASE Handle(p)
  BY <1>1, <1>2, Zenon DEF Handle, HandleLock, HandleUnlock, HandleKeepAlive, HandleEditConfig,
     HandleEditFlat, HandleDiscard, HandleCommit, HandleRestart, HandleClose, HandleSweep,
     HandleReset, EnsureCandidate, LeaseOnly
<1>3. CASE Step(p)
  BY <1>1, <1>3, Zenon DEF Step, Diff, Edit, Note, Reset, Clear, Consume, ReadRunning, ReadCandidate,
     WriteArtifact, EnsureRunning, Persist, Rename, Persisted, Restore, StopENB, StartENB, ENBReady,
     Finalize, Rollback, StoreOnly, LeaseOnly
<1> QED
  BY <1>2, <1>3, Zenon

(* Nothing changes the store while another holds its mutex *)
LEMMA StoreHeld ==
  ASSUME WriteInv, NEW p \in Slots, Handle(p) \/ Step(p),
         NEW q \in Slots \ {p}, pc[q] \in Writing
  PROVE  UNCHANGED storeVars
<1>0. ~StoreFree(p) /\ pc[p] \notin Writing
  BY Zenon DEF StoreFree, WriteInv
<1>1. CASE Handle(p)
  BY <1>0, <1>1, Zenon DEF Handle, HandleLock, HandleUnlock, HandleKeepAlive, HandleEditConfig,
     HandleEditFlat, HandleDiscard, HandleCommit, HandleRestart, HandleClose, HandleSweep,
     HandleReset, EnsureCandidate, LeaseOnly
<1>2. CASE Step(p)
  BY <1>0, <1>2, Zenon DEF Step, Diff, Edit, Note, Reset, Clear, Consume, ReadRunning, ReadCandidate,
     WriteArtifact, EnsureRunning, Persist, Rename, Restore, StopENB, StartENB, ENBReady,
     Finalize, Rollback, LeaseOnly, Writing
<1> QED
  BY <1>1, <1>2, Zenon

LEMMA CommitOnlyStep ==
  ASSUME ControlOK, CommitOnly, NEW p \in Slots, Handle(p) \/ Step(p)
  PROVE  CommitOnly'
<1>0. /\ DOMAIN pc = Slots /\ DOMAIN req = Slots /\ req[p] \in Requests
      /\ pc[p] \in CommitPCs => req[p].op = "commit"
  BY Zenon DEF ControlOK, CommitOnly
<1> USE DEF Begin, Go, Return, GoRefresh, NoReq, CommitPCs, Writing
<1>1. pc'[p] \in CommitPCs => req'[p].op = "commit"
  <2>1. CASE HandleCommit(p)
    BY <1>0, <2>1, SMTT(30) DEF HandleCommit, EnsureCandidate
  <2>2. CASE Handle(p) /\ ~HandleCommit(p)
    BY <1>0, <2>2, ZenonT(60) DEF Handle, HandleLock, HandleUnlock, HandleKeepAlive, HandleEditConfig,
       HandleEditFlat, HandleDiscard, HandleRestart, HandleClose, HandleSweep,
       HandleReset, EnsureCandidate
  <2>3. CASE Diff(p) \/ Edit(p) \/ Note(p) \/ Reset(p) \/ Clear(p) \/ Consume(p)
    BY <1>0, <2>3, Zenon DEF Diff, Edit, Note, Reset, Clear, Consume
  <2>4. CASE ReadRunning(p) \/ ReadCandidate(p) \/ WriteArtifact(p) \/ EnsureRunning(p)
    BY <1>0, <2>4, Zenon DEF ReadRunning, ReadCandidate, WriteArtifact, EnsureRunning
  <2>5. CASE Persist(p) \/ Finalize(p) \/ Rollback(p)
    BY <1>0, <2>5, Zenon DEF Persist, Finalize, Rollback, Leave, Turn, Requests
  <2>6. CASE StopENB(p) \/ StartENB(p) \/ ENBReady(p)
    BY <1>0, <2>6, Zenon DEF StopENB, StartENB, ENBReady, RestartFailed
  <2>7. CASE Rename(p) \/ Restore(p)
    BY <1>0, <2>7, Zenon DEF Rename, Persisted, Restore, Done, Turn, Leave
  <2> QED
    BY <2>1, <2>2, <2>3, <2>4, <2>5, <2>6, <2>7, Zenon DEF Step
<1> QED
  BY <1>1, OthersStay, Zenon DEF CommitOnly

(* The mutex of the store is held from the first file written to the last *)
LEMMA WriteStep ==
  ASSUME Inv, WriteInv, NEW p \in Slots, Handle(p) \/ Step(p)
  PROVE  WriteInv'
<1> DEFINE Kept(q) ==
      /\ pc[q] \in {"rename", "restore"} => mem[q].saved = dirty /\ mem[q].todo \subseteq dirty
      /\ \A k \in Leaves : \/ pc[q] = "rename" /\ FileOf[k] \notin mem[q].saved \ mem[q].todo
                           \/ pc[q] = "restore" /\ FileOf[k] \notin mem[q].todo
                           => disk[k] = mem[q].backup[k]
<1>o. \A q \in Slots \ {p} : pc'[q] = pc[q] /\ mem'[q] = mem[q]
  BY OthersStay, Zenon DEF Inv
<1>c. /\ DOMAIN pc = Slots /\ DOMAIN mem = Slots /\ mem[p] \in Memories
      /\ disk \in Configs
  BY Zenon DEF Inv, ControlOK, StoreOK
<1>1. pc'[p] \in Writing => pc[p] \in Writing \/ StoreFree(p)
  BY StaysOut, Zenon DEF Inv, Persist, Rename, Restore, Rollback, Writing
<1>2. \A q, r \in Slots : pc'[q] \in Writing /\ pc'[r] \in Writing => q = r
  BY <1>1, <1>o, ZenonT(60) DEF WriteInv, StoreFree
<1>3. ASSUME NEW q \in Slots \ {p} PROVE Kept(q)'
  <2>1. CASE pc[q] \in Writing
    <3>1. UNCHANGED storeVars
      BY <2>1, StoreHeld, Zenon
    <3>2. dirty' = dirty /\ disk' = disk /\ pc'[q] = pc[q] /\ mem'[q] = mem[q]
      BY <1>o, <3>1, Zenon DEF storeVars
    <3>3. Kept(q)
      BY Zenon DEF WriteInv
    <3> QED
      BY <3>2, <3>3, Zenon
  <2>2. CASE pc[q] \notin Writing
    BY <1>o, <2>2, Zenon DEF Writing
  <2> QED
    BY <2>1, <2>2, Zenon
<1>4. Kept(p)
  BY Zenon DEF WriteInv
<1>5. Kept(p)'
  <2>1. CASE pc'[p] \notin {"rename", "restore"}
    BY <2>1, Zenon
  <2>2. CASE Persist(p)
    <3>1. pc'[p] = "idle" \/ mem'[p] = [NoMem EXCEPT !.backup = disk, !.saved = dirty, !.todo = dirty]
      BY <1>c, <2>2, Zenon DEF Persist, Return
    <3>2. UNCHANGED storeVars
      BY <2>2, Zenon DEF Persist
    <3>3. CASE pc'[p] # "idle"
      <4>1. mem'[p].backup = disk /\ mem'[p].saved = dirty /\ mem'[p].todo = dirty
        BY <3>1, <3>3, Zenon DEF NoMem
      <4> QED
        BY <3>2, <4>1, Zenon DEF storeVars
    <3> QED
      BY <2>1, <3>3, Zenon
  <2>3. CASE Rename(p)
    <3>1. pc[p] = "rename"
      BY <2>3, Zenon DEF Rename
    <3>2. ASSUME NEW f \in mem[p].todo, disk' = Patched({f}), UNCHANGED memVars, UNCHANGED <<pc, req>>,
                 mem'[p] = [mem[p] EXCEPT !.todo = @ \ {f}]
          PROVE  Kept(p)'
      <4>1. /\ mem'[p].backup = mem[p].backup /\ mem'[p].saved = mem[p].saved
            /\ mem'[p].todo = mem[p].todo \ {f}
        BY <1>c, <3>2, Zenon DEF Memories
      <4>2. dirty' = dirty /\ \A k \in Leaves : FileOf[k] # f => disk'[k] = disk[k]
        BY <3>2, Zenon DEF Patched, memVars
      <4>3. f \in mem[p].saved
        BY <1>4, <3>1, Zenon
      <4> QED
        BY <1>4, <3>1, <3>2, <4>1, <4>2, <4>3, Zenon
    <3>3. ASSUME UNCHANGED storeVars, pc'[p] = "restore",
                 mem'[p] = [mem[p] EXCEPT !.todo = mem[p].saved]
          PROVE  Kept(p)'
      <4>1. /\ mem'[p].backup = mem[p].backup /\ mem'[p].saved = mem[p].saved
            /\ mem'[p].todo = mem[p].saved
        BY <1>c, <3>3, Zenon DEF Memories
      <4> QED
        BY <1>4, <3>1, <3>3, <4>1, Zenon DEF storeVars
    <3> QED
      BY <2>1, <2>3, <3>2, <3>3, RenameCases, Zenon DEF Inv
  <2>4. CASE Restore(p)
    <3>1. ASSUME NEW f \in mem[p].todo, RollbackPersist(mem[p].backup, mem[p].saved, {f}),
                 UNCHANGED <<pc, req>>, pc[p] = "restore",
                 mem'[p] = [mem[p] EXCEPT !.todo = @ \ {f}]
          PROVE  Kept(p)'
      <4>1. /\ mem'[p].backup = mem[p].backup /\ mem'[p].saved = mem[p].saved
            /\ mem'[p].todo = mem[p].todo \ {f}
        BY <1>c, <3>1, Zenon DEF Memories
      <4>2. f \in mem[p].saved \cap dirty
        BY <1>4, <3>1, Zenon
      <4>3. /\ dirty' = dirty
            /\ \A k \in Leaves : disk'[k] = IF FileOf[k] = f THEN mem[p].backup[k] ELSE disk[k]
        BY <3>1, <4>2, Zenon DEF RollbackPersist, Restored, memVars
      <4> QED
        BY <1>4, <3>1, <4>1, <4>3, Zenon
    <3>2. pc[p] \in {"restore", "undo"}
      BY <2>4, Zenon DEF Restore
    <3> QED
      BY <2>1, <2>4, <3>1, <3>2, RestoreCases, Zenon DEF Inv
  <2>5. CASE Rollback(p)
    <3>1. pc'[p] = "undo"
      BY <1>c, <2>5, Zenon DEF Rollback, Turn
    <3> QED
      BY <2>1, <3>1, Zenon
  <2> QED
    BY <2>1, <2>2, <2>3, <2>4, <2>5, StaysOut, Zenon DEF Inv, Writing
<1> QED
  BY <1>2, <1>3, <1>5, Zenon DEF WriteInv

LEMMA WritersHold == Spec => [](Inv /\ CommitOnly /\ WriteInv)
<1>1. Init => CommitOnly /\ WriteInv
  BY Zenon DEF Init, CommitOnly, CommitPCs, WriteInv, Writing
<1>2. Inv /\ CommitOnly /\ WriteInv /\ [Next]_vars => (CommitOnly /\ WriteInv)'
  <2>1. ASSUME CommitOnly, WriteInv, UNCHANGED vars
        PROVE  (CommitOnly /\ WriteInv)'
    BY <2>1, Zenon DEF vars, CommitOnly, WriteInv
  <2> QED
    BY <2>1, CommitOnlyStep, WriteStep, Zenon DEF Next, Inv
<1> QED
  BY <1>1, <1>2, InvHolds, PTL DEF Spec

-----------------------------------------------------------------------------
(* Files and running configuration *)

(* cfg says of every leaf what the running configuration does *)
Agrees(cfg) == \A k \in Leaves : cfg[k] \in {running[k], ReadBack[running[k]]}

(* While a commit is open the files hold the edited leaves of the candidate, but
   for the files it has yet to write or has restored, and otherwise what the
   running configuration says; the backup of the commit is what they held before.
   A second commit that changes nothing takes the files of the first for its
   backup, so only one of the backups need agree with the running configuration. *)
OpenCommit(p) ==
  /\ \A k \in Leaves \ dirtyKeys :
       /\ disk[k] \in {running[k], ReadBack[running[k]]}
       /\ mem[p].backup[k] = disk[k]
  /\ \A k \in dirtyKeys :
       IF pc[p] \in {"restore", "undo"}
         THEN FileOf[k] \notin mem[p].todo => disk[k] = mem[p].backup[k]
         ELSE (pc[p] = "rename" => FileOf[k] \notin mem[p].todo) => disk[k] = ReadBack[cand[k]]
  /\ mem[p].saved = dirty
  /\ mem[p].backup = disk \/ Agrees(mem[p].backup)

(* The files agree with the running configuration, or a backup does *)
Rooted == Agrees(disk) \/ \E q \in Slots : InCommit(q) /\ Agrees(mem[q].backup)

FilesInv ==
  history \cap {"disturbed", "broken"} = {} =>
    Rooted /\ \A p \in Slots : InCommit(p) => OpenCommit(p)

(* Only Persist opens a commit, and only Restore and Finalize close one; between,
   what is neither a file written nor one restored leaves store and backup alone *)
LEMMA CommitStays ==
  ASSUME ControlOK, CommitOnly, NEW p \in Slots, Handle(p) \/ Step(p),
         ~(Persist(p) \/ Rename(p) \/ Restore(p) \/ Finalize(p) \/ Rollback(p))
  PROVE  /\ InCommit(p)' <=> InCommit(p)
         /\ InCommit(p) => /\ UNCHANGED storeVars /\ mem'[p] = mem[p]
                           /\ pc[p] \notin Writing /\ pc'[p] \notin Writing
         /\ UNCHANGED <<running, disk>>
<1>0. /\ DOMAIN pc = Slots /\ DOMAIN req = Slots /\ DOMAIN mem = Slots
      /\ req[p] \in Requests
      /\ pc[p] \in CommitPCs => req[p].op = "commit"
  BY Zenon DEF ControlOK, CommitOnly
<1> USE DEF Begin, Go, Return, GoRefresh, NoReq, InCommit, CommitWindow, CommitPCs, Writing, storeVars
<1>1. CASE Handle(p)
  <2>1. pc[p] = "idle"
    BY <1>1, Zenon DEF Handle
  <2>2. pc'[p] \in CommitWindow => req'[p].op # "commit"
    <3>1. CASE HandleRestart(p)
      BY <1>0, <3>1, Zenon DEF HandleRestart
    <3>2. CASE HandleEditConfig(p) \/ HandleDiscard(p) \/ HandleCommit(p)
      BY <1>0, <3>2, ZenonT(60) DEF HandleEditConfig, HandleDiscard, HandleCommit, EnsureCandidate
    <3>3. CASE HandleLock(p) \/ HandleUnlock(p) \/ HandleKeepAlive(p) \/ HandleEditFlat(p)
      BY <1>0, <3>3 DEF HandleLock, HandleUnlock, HandleKeepAlive, HandleEditFlat
    <3>4. CASE HandleClose(p) \/ HandleSweep(p) \/ HandleReset(p)
      BY <1>0, <3>4, ZenonT(60) DEF HandleClose, HandleSweep, HandleReset
    <3> QED
      BY <1>1, <3>1, <3>2, <3>3, <3>4, Zenon DEF Handle
  <2>3. UNCHANGED <<running, disk>>
    BY <1>1, Zenon DEF Handle, HandleLock, HandleUnlock, HandleKeepAlive, HandleEditConfig,
       HandleEditFlat, HandleDiscard, HandleCommit, HandleRestart, HandleClose, HandleSweep,
       HandleReset, EnsureCandidate, LeaseOnly, EditAccepted, EditRefused
  <2> QED
    BY <2>1, <2>2, <2>3, Zenon
<1>2. CASE Diff(p) \/ Edit(p) \/ Note(p) \/ Reset(p) \/ Clear(p) \/ Consume(p)
  BY <1>0, <1>2, Zenon DEF Diff, Edit, Note, Reset, Clear, Consume, EditAccepted, EditRefused,
     ResetCandidate
<1>3. CASE ReadRunning(p) \/ ReadCandidate(p) \/ WriteArtifact(p) \/ EnsureRunning(p)
  BY <1>0, <1>3, Zenon DEF ReadRunning, ReadCandidate, WriteArtifact, EnsureRunning, LeaseOnly
<1>4. CASE StopENB(p) \/ StartENB(p) \/ ENBReady(p)
  BY <1>0, <1>4, Zenon DEF StopENB, StartENB, ENBReady, RestartFailed
<1> QED
  BY <1>1, <1>2, <1>3, <1>4, Zenon DEF Step

LEMMA FilesStep ==
  ASSUME {"disturbed", "broken"} \subseteq Recorded,
         Inv, CommitOnly, FilesInv, NEW p \in Slots, Handle(p) \/ Step(p)
  PROVE  FilesInv'
<1> SUFFICES ASSUME history' \cap {"disturbed", "broken"} = {}
             PROVE  Rooted' /\ \A q \in Slots : InCommit(q)' => OpenCommit(q)'
  BY Zenon DEF FilesInv
<1>o. \A q \in Slots \ {p} : (InCommit(q)' <=> InCommit(q)) /\ pc'[q] = pc[q] /\ mem'[q] = mem[q]
  BY OthersStay, Zenon DEF Inv, InCommit
<1>h. Rooted /\ \A q \in Slots : InCommit(q) => OpenCommit(q)
  BY OthersStay, Zenon DEF FilesInv, Inv
<1>d. /\ disk \in Configs
      /\ \A k \in dirtyKeys : FileOf[k] \in dirty
      /\ \A k \in Leaves \ dirtyKeys : cand[k] = running[k]
      /\ dirtyKeys \subseteq Leaves
  BY Zenon DEF Inv, StoreOK, EditsAreMarked
<1>c. /\ DOMAIN pc = Slots /\ DOMAIN req = Slots /\ DOMAIN mem = Slots
      /\ req[p] \in Requests /\ mem[p] \in Memories
      /\ pc[p] \in CommitPCs => req[p].op = "commit"
  BY Zenon DEF Inv, ControlOK, CommitOnly
<1>u. ASSUME NEW q \in Slots \ {p}, InCommit(q) PROVE UNCHANGED storeVars
  BY <1>u, Undisturbed, Zenon
(* the other requests' commits *)
<1>q. ASSUME NEW q \in Slots \ {p}, InCommit(q)' PROVE OpenCommit(q)'
  <2>1. OpenCommit(q) /\ pc'[q] = pc[q] /\ mem'[q] = mem[q] /\ UNCHANGED storeVars
    BY <1>h, <1>o, <1>q, <1>u, Zenon
  <2> QED
    BY <2>1, ZenonT(60) DEF OpenCommit, Agrees, storeVars
(* a backup of p that stays, or files that stay, keep the root *)
<1>r. ASSUME UNCHANGED storeVars,
             InCommit(p) => InCommit(p)' /\ mem'[p].backup = mem[p].backup
      PROVE  Rooted'
  <2>1. UNCHANGED <<running, disk>>
    BY <1>r, Zenon DEF storeVars
  <2>2. CASE Agrees(disk)
    BY <2>1, <2>2, Zenon DEF Rooted, Agrees
  <2>3. ASSUME NEW q \in Slots, InCommit(q), Agrees(mem[q].backup) PROVE Rooted'
    <3>1. InCommit(q)' /\ mem'[q].backup = mem[q].backup
      BY <1>o, <1>r, <2>3, Zenon
    <3>2. Agrees(mem[q].backup)'
      BY <2>1, <2>3, <3>1, Zenon DEF Agrees
    <3> QED
      BY <3>1, <3>2, Zenon DEF Rooted
  <2> QED
    BY <1>h, <2>2, <2>3, Zenon DEF Rooted
<1>b. ASSUME InCommit(p)', Agrees(mem[p].backup), mem'[p].backup = mem[p].backup, running' = running
      PROVE  Rooted' /\ Agrees(mem[p].backup)'
  BY <1>b, Zenon DEF Rooted, Agrees
(* the backup of p agrees unless the files are the backup *)
<1>a. ASSUME InCommit(p), \A q \in Slots \ {p} : ~InCommit(q)
      PROVE  Agrees(mem[p].backup)
  <2>1. mem[p].backup = disk \/ Agrees(mem[p].backup)
    BY <1>a, <1>h, Zenon DEF OpenCommit
  <2>2. Agrees(disk) \/ Agrees(mem[p].backup)
    BY <1>a, <1>h, Zenon DEF Rooted
  <2> QED
    BY <2>1, <2>2, Zenon DEF Agrees
<1>1. CASE ~(Persist(p) \/ Rename(p) \/ Restore(p) \/ Finalize(p) \/ Rollback(p))
  <2>1. /\ InCommit(p)' <=> InCommit(p)
        /\ InCommit(p) => /\ UNCHANGED storeVars /\ mem'[p] = mem[p]
                          /\ pc[p] \notin Writing /\ pc'[p] \notin Writing
        /\ UNCHANGED <<running, disk>>
    BY <1>1, CommitStays, Zenon DEF Inv
  <2>2. InCommit(p)' => OpenCommit(p)'
    <3> SUFFICES ASSUME InCommit(p) PROVE OpenCommit(p)'
      BY <2>1, Zenon
    <3>1. OpenCommit(p) /\ UNCHANGED storeVars /\ mem'[p] = mem[p]
      BY <1>h, <2>1, Zenon
    <3> QED
      BY <2>1, <3>1, ZenonT(60) DEF OpenCommit, Agrees, storeVars, Writing
  <2>3. CASE \A q \in Slots : ~InCommit(q)
    <3>1. Agrees(disk)
      BY <1>h, <2>3, Zenon DEF Rooted
    <3> QED
      BY <1>q, <2>1, <2>2, <3>1, Zenon DEF Rooted, Agrees
  <2>4. CASE \E q \in Slots : InCommit(q)
    <3>1. UNCHANGED storeVars
      BY <1>u, <2>1, <2>4, Zenon
    <3>2. Rooted'
      BY <1>r, <2>1, <3>1, Zenon
    <3> QED
      BY <1>q, <2>2, <3>2, Zenon
  <2> QED
    BY <2>3, <2>4, Zenon
<1>2. CASE Persist(p)
  <2>0. ~InCommit(p) /\ UNCHANGED storeVars
    BY <1>2, Zenon DEF Persist, InCommit, CommitWindow, Writing
  <2>1. Rooted'
    BY <1>r, <2>0, Zenon
  <2>2. CASE ~InCommit(p)'
    BY <1>q, <2>1, <2>2, Zenon
  <2>3. CASE InCommit(p)'
    <3>1. pc'[p] # "idle"
      BY <2>3, Zenon DEF InCommit, CommitWindow, Writing
    <3>2. /\ pc'[p] = "rename"
          /\ mem'[p] = [NoMem EXCEPT !.backup = disk, !.saved = dirty, !.todo = dirty]
      BY <1>2, <1>c, <3>1, Zenon DEF Persist, Return
    <3>3. mem'[p].backup = disk /\ mem'[p].saved = dirty /\ mem'[p].todo = dirty
      BY <3>2, Zenon DEF NoMem
    <3>4. \A k \in Leaves \ dirtyKeys : disk[k] \in {running[k], ReadBack[running[k]]}
      <4>1. CASE Agrees(disk)
        BY <4>1, Zenon DEF Agrees
      <4>2. CASE \E q \in Slots : InCommit(q)
        BY <1>h, <4>2, Zenon DEF OpenCommit
      <4> QED
        BY <1>h, <4>1, <4>2, Zenon DEF Rooted
    <3>5. OpenCommit(p)'
      BY <1>d, <2>0, <3>2, <3>3, <3>4, Zenon DEF OpenCommit, storeVars
    <3> QED
      BY <1>q, <2>1, <3>5, Zenon
  <2> QED
    BY <2>2, <2>3, Zenon
<1>3. CASE Rename(p)
  <2>0. pc[p] = "rename" /\ InCommit(p) /\ OpenCommit(p)
    BY <1>3, <1>c, <1>h, Zenon DEF Rename, InCommit, CommitPCs, CommitWindow, Writing
  <2>1. ASSUME NEW f \in mem[p].todo, disk' = Patched({f}), UNCHANGED memVars,
               UNCHANGED <<pc, req>>, mem'[p] = [mem[p] EXCEPT !.todo = @ \ {f}]
        PROVE  Rooted' /\ OpenCommit(p)'
    <3>1. /\ InCommit(p)' /\ pc'[p] = "rename"
          /\ mem'[p].backup = mem[p].backup /\ mem'[p].saved = mem[p].saved
          /\ mem'[p].todo = mem[p].todo \ {f}
      BY <1>c, <2>0, <2>1, Zenon DEF InCommit, Memories
    <3>2. UNCHANGED <<running, cand, dirty, dirtyKeys>>
      BY <2>1, Zenon DEF memVars
    <3>3. \A k \in Leaves : disk'[k] = IF k \in dirtyKeys /\ FileOf[k] = f
                                        THEN ReadBack[cand[k]] ELSE disk[k]
      BY <2>1, Zenon DEF Patched
    <3>4. Rooted' /\ (mem[p].backup = disk \/ Agrees(mem[p].backup))'
      <4>1. CASE \A q \in Slots \ {p} : ~InCommit(q)
        BY <1>a, <1>b, <2>0, <3>1, <3>2, <4>1, Zenon
      <4>2. CASE \E q \in Slots \ {p} : InCommit(q)
        <5>1. UNCHANGED storeVars
          BY <1>u, <4>2, Zenon
        <5>2. (mem[p].backup = disk \/ Agrees(mem[p].backup))'
          BY <2>0, <3>1, <5>1, Zenon DEF OpenCommit, Agrees, storeVars
        <5> QED
          BY <1>r, <3>1, <5>1, <5>2, Zenon
      <4> QED
        BY <4>1, <4>2, Zenon
    <3>5. \A k \in Leaves \ dirtyKeys :
            disk'[k] \in {running[k], ReadBack[running[k]]} /\ mem[p].backup[k] = disk'[k]
      BY <2>0, <3>3, Zenon DEF OpenCommit
    <3>6. \A k \in dirtyKeys : FileOf[k] \notin mem[p].todo \ {f} => disk'[k] = ReadBack[cand[k]]
      BY <1>d, <2>0, <3>3, Zenon DEF OpenCommit
    <3> QED
      BY <2>0, <3>1, <3>2, <3>4, <3>5, <3>6, Zenon DEF OpenCommit
  <2>2. ASSUME UNCHANGED storeVars, pc'[p] = "restore", req' = req,
               mem'[p] = [mem[p] EXCEPT !.todo = mem[p].saved]
        PROVE  Rooted' /\ OpenCommit(p)'
    <3>1. /\ InCommit(p)'
          /\ mem'[p].backup = mem[p].backup /\ mem'[p].saved = mem[p].saved
          /\ mem'[p].todo = mem[p].saved
      BY <1>c, <2>0, <2>2, Zenon DEF InCommit, CommitWindow, Writing, Memories
    <3>2. OpenCommit(p)'
      BY <1>d, <2>0, <2>2, <3>1, ZenonT(60) DEF OpenCommit, Agrees, storeVars
    <3> QED
      BY <1>r, <2>2, <3>1, <3>2, Zenon
  <2>3. ASSUME UNCHANGED storeVars, mem[p].todo = {}, UNCHANGED <<req, mem>>,
               pc'[p] \in {"stop", "finalize"}
        PROVE  Rooted' /\ OpenCommit(p)'
    <3>1. InCommit(p)' /\ mem'[p] = mem[p]
      BY <2>0, <2>3, Zenon DEF InCommit, CommitWindow
    <3>2. OpenCommit(p)'
      BY <2>0, <2>3, <3>1, ZenonT(60) DEF OpenCommit, Agrees, storeVars
    <3> QED
      BY <1>r, <2>3, <3>1, <3>2, Zenon
  <2>4. Rooted' /\ OpenCommit(p)'
    BY <1>3, <2>1, <2>2, <2>3, RenameCases, Zenon DEF Inv
  <2> QED
    BY <1>q, <2>4, Zenon
<1>4. CASE Restore(p)
  <2>0. pc[p] \in {"restore", "undo"} /\ InCommit(p) /\ OpenCommit(p)
    BY <1>4, <1>c, <1>h, Zenon DEF Restore, InCommit, CommitPCs, CommitWindow, Writing
  <2>b. mem[p].backup \in Configs
    BY <2>0, Zenon DEF Inv, ControlOK, HasRead
  <2>1. ASSUME NEW f \in mem[p].todo, RollbackPersist(mem[p].backup, mem[p].saved, {f}),
               UNCHANGED <<pc, req>>, mem'[p] = [mem[p] EXCEPT !.todo = @ \ {f}]
        PROVE  Rooted' /\ OpenCommit(p)'
    <3>1. /\ InCommit(p)' /\ pc'[p] = pc[p]
          /\ mem'[p].backup = mem[p].backup /\ mem'[p].saved = mem[p].saved
          /\ mem'[p].todo = mem[p].todo \ {f}
      BY <1>c, <2>0, <2>1, Zenon DEF InCommit, Memories
    <3>2. UNCHANGED <<running, cand, dirty, dirtyKeys>>
      BY <2>1, Zenon DEF RollbackPersist, memVars
    <3>3. \A k \in Leaves : disk'[k] = IF FileOf[k] = f /\ f \in dirty
                                        THEN mem[p].backup[k] ELSE disk[k]
      BY <2>0, <2>1, Zenon DEF RollbackPersist, Restored, OpenCommit
    <3>4. Rooted' /\ (mem[p].backup = disk \/ Agrees(mem[p].backup))'
      <4>1. CASE Agrees(mem[p].backup)
        BY <1>b, <3>1, <3>2, <4>1, Zenon
      <4>2. CASE mem[p].backup = disk
        <5>1. disk' = [k \in Leaves |-> disk[k]]
          BY <2>1, <4>2, Zenon DEF RollbackPersist, Restored
        <5>2. disk' = disk
          BY <1>d, <5>1, Zenon DEF Configs
        <5> QED
          BY <1>r, <3>1, <3>2, <4>2, <5>2, Zenon DEF storeVars
      <4> QED
        BY <2>0, <4>1, <4>2, Zenon DEF OpenCommit
    <3>5. \A k \in Leaves \ dirtyKeys :
            disk'[k] \in {running[k], ReadBack[running[k]]} /\ mem[p].backup[k] = disk'[k]
      BY <2>0, <3>3, Zenon DEF OpenCommit
    <3>6. \A k \in dirtyKeys : FileOf[k] \notin mem[p].todo \ {f} => disk'[k] = mem[p].backup[k]
      BY <1>d, <2>0, <3>3, Zenon DEF OpenCommit
    <3> QED
      BY <2>0, <3>1, <3>2, <3>4, <3>5, <3>6, Zenon DEF OpenCommit
  <2>2. ASSUME UNCHANGED storeVars, ~InCommit(p)',
               disk = Restored(mem[p].backup, mem[p].saved, mem[p].todo)
        PROVE  Rooted'
    <3>1. \A k \in Leaves : FileOf[k] \in mem[p].todo /\ FileOf[k] \in dirty => disk[k] = mem[p].backup[k]
      BY <2>0, <2>2, Zenon DEF Restored, OpenCommit
    <3>2. \A k \in Leaves : disk[k] = mem[p].backup[k]
      BY <1>d, <2>0, <3>1, Zenon DEF OpenCommit
    <3>3. CASE Agrees(disk) \/ Agrees(mem[p].backup)
      BY <2>2, <3>2, <3>3, Zenon DEF Rooted, Agrees, storeVars
    <3>4. ASSUME NEW q \in Slots \ {p}, InCommit(q), Agrees(mem[q].backup) PROVE Rooted'
      <4>1. InCommit(q)' /\ mem'[q] = mem[q] /\ running' = running
        BY <1>o, <2>2, <3>4, Zenon DEF storeVars
      <4> QED
        BY <3>4, <4>1, Zenon DEF Rooted, Agrees
    <3> QED
      BY <1>h, <3>3, <3>4, Zenon DEF Rooted
  <2>3. pc'[p] \in {"idle", "reset"} => ~InCommit(p)'
    BY Zenon DEF InCommit, CommitWindow, Writing
  <2>4. Rooted' /\ (InCommit(p)' => OpenCommit(p)')
    BY <1>4, <2>1, <2>2, <2>3, RestoreCases, Zenon DEF Inv
  <2> QED
    BY <1>q, <2>4, Zenon
<1>5. CASE Finalize(p)
  <2>1. pc[p] = "finalize" /\ InCommit(p) /\ OpenCommit(p)
    BY <1>5, <1>c, <1>h, Zenon DEF Finalize, InCommit, CommitPCs, CommitWindow
  <2>2. running' = cand /\ UNCHANGED disk /\ ~InCommit(p)'
    BY <1>5, <1>c, Zenon DEF Finalize, FinalizeCommit, Leave, InCommit, CommitWindow, Writing
  <2>3. Agrees(disk)'
    BY <1>d, <2>1, <2>2, Zenon DEF OpenCommit, Agrees
  <2> QED
    BY <1>q, <2>2, <2>3, Zenon DEF Rooted
<1>6. CASE Rollback(p)
  <2>1. pc[p] = "rollback" /\ InCommit(p) /\ OpenCommit(p) /\ UNCHANGED storeVars
    BY <1>6, <1>c, <1>h, Zenon DEF Rollback, InCommit, CommitPCs, CommitWindow
  <2>2. pc'[p] = "undo" /\ req' = req /\ mem'[p] = [mem[p] EXCEPT !.todo = mem[p].saved \cap dirty]
    BY <1>6, <1>c, Zenon DEF Rollback, Turn
  <2>s. mem[p].saved \cap dirty = dirty
    BY <2>1, Zenon DEF OpenCommit
  <2>3. /\ InCommit(p)'
        /\ mem'[p].backup = mem[p].backup /\ mem'[p].saved = mem[p].saved
        /\ mem'[p].todo = dirty
    BY <1>c, <2>1, <2>2, <2>s, Zenon DEF InCommit, CommitWindow, Writing, Memories
  <2>4. OpenCommit(p)'
    BY <1>d, <2>1, <2>2, <2>3, ZenonT(60) DEF OpenCommit, Agrees, storeVars
  <2>5. Rooted'
    BY <1>r, <2>1, <2>3, Zenon
  <2> QED
    BY <1>q, <2>4, <2>5, Zenon
<1> QED
  BY <1>1, <1>2, <1>3, <1>4, <1>5, <1>6, Zenon

(***************************************************************************)
(* Files and running configuration agree whenever no commit is open, for   *)
(* any number of requests that overlap and any number of files, as long as *)
(* the incidents that excuse a difference are recorded: another request    *)
(* has changed the store under a commit, or a file could not be restored.  *)
(***************************************************************************)
THEOREM FilesFollowRunning ==
  ASSUME {"disturbed", "broken"} \subseteq Recorded
  PROVE  Spec => []FilesMatchRunning
<1>1. Init => FilesInv
  BY Zenon DEF Init, StoreInit, FilesInv, InCommit, CommitWindow, Writing, Rooted, Agrees
<1>2. Inv /\ CommitOnly /\ FilesInv /\ [Next]_vars => FilesInv'
  <2>1. ASSUME FilesInv, UNCHANGED vars PROVE FilesInv'
    BY <2>1, ZenonT(60) DEF vars, FilesInv, Rooted, OpenCommit, InCommit, Agrees
  <2> QED
    BY <2>1, FilesStep, Zenon DEF Next
<1>3. FilesInv => FilesMatchRunning
  BY Zenon DEF FilesInv, FilesMatchRunning, NoOpenCommit, Rooted, Agrees
<1> QED
  BY <1>1, <1>2, <1>3, WritersHold, PTL DEF Spec

-----------------------------------------------------------------------------
(* What the eNB runs *)

(* A restart is under way that will start the eNB with the files *)
RestartDue ==
  \/ enb = Down /\ \E q \in Slots : pc[q] = "start"
  \/ \E q \in Slots : pc[q] = "stop" /\ req[q].op = "commit"

(* The eNB runs the files.  While a commit writes them, it runs what they were, or
   what they have become. *)
RunsFiles ==
  \/ enb = disk /\ \A q \in Slots : pc[q] \notin {"rename", "restore"}
  \/ \E q \in Slots : /\ pc[q] \in {"rename", "restore"}
                      /\ enb = mem[q].backup \/ (enb = disk /\ mem[q].todo = {})

ENBInv ==
  history \cap {"broken", "norestart", "midway"} = {} =>
    /\ RestartDue \/ RunsFiles
    /\ \A p \in Slots : pc[p] \notin {"rollback", "undo"}

LEMMA ENBStep ==
  ASSUME {"broken", "norestart", "midway"} \subseteq Recorded,
         Inv, CommitOnly, WriteInv, ENBInv, NEW p \in Slots, Handle(p) \/ Step(p)
  PROVE  ENBInv'
<1> SUFFICES ASSUME history' \cap {"broken", "norestart", "midway"} = {}
             PROVE  /\ RestartDue' \/ RunsFiles'
                    /\ \A q \in Slots : pc'[q] \notin {"rollback", "undo"}
  BY Zenon DEF ENBInv
<1>o. \A q \in Slots \ {p} : pc'[q] = pc[q] /\ req'[q] = req[q] /\ mem'[q] = mem[q]
  BY OthersStay, Zenon DEF Inv
<1>h. /\ RestartDue \/ RunsFiles
      /\ \A q \in Slots : pc[q] \notin {"rollback", "undo"}
  BY OthersStay, Zenon DEF ENBInv, Inv
<1>c. /\ DOMAIN pc = Slots /\ DOMAIN req = Slots /\ DOMAIN mem = Slots
      /\ req[p] \in Requests /\ mem[p] \in Memories /\ disk \in Configs
      /\ pc[p] \in CommitPCs => req[p].op = "commit"
  BY Zenon DEF Inv, ControlOK, StoreOK, CommitOnly
<1>f. ~RestartFailed(p) /\ ~Rollback(p)
  BY <1>h, Zenon DEF RestartFailed, Record, Rollback
(* p writes: it is the only one *)
<1>w. ASSUME pc[p] \in {"rename", "restore"}, ~RestartDue
      PROVE  /\ enb = mem[p].backup \/ (enb = disk /\ mem[p].todo = {})
             /\ \A q \in Slots \ {p} : pc[q] \notin {"rename", "restore"}
  <2>1. \A q \in Slots \ {p} : pc[q] \notin {"rename", "restore"}
    BY <1>w, Zenon DEF WriteInv, Writing
  <2>2. RunsFiles
    BY <1>h, <1>w, Zenon
  <2> QED
    BY <1>w, <2>1, <2>2, Zenon DEF RunsFiles
(* a restart that is due stays due while p is at none of its points *)
<1>d. ASSUME RestartDue, enb' = enb, pc[p] \notin {"stop", "start"} PROVE RestartDue'
  BY <1>d, <1>o, Zenon DEF RestartDue
(* p neither writes nor restarts *)
<1>s. ASSUME UNCHANGED <<enb, disk>>, pc[p] \notin {"stop", "start", "rename", "restore"},
             pc'[p] \notin {"rename", "restore"}
      PROVE  RestartDue' \/ RunsFiles'
  <2>1. CASE RunsFiles
    BY <1>o, <1>s, <2>1, Zenon DEF RunsFiles
  <2> QED
    BY <1>d, <1>h, <1>s, <2>1, Zenon
<1>1. CASE Handle(p)
  <2>1. UNCHANGED <<enb, disk>> /\ pc[p] = "idle"
    BY <1>1, Zenon DEF Handle, HandleLock, HandleUnlock, HandleKeepAlive, HandleEditConfig,
       HandleEditFlat, HandleDiscard, HandleCommit, HandleRestart, HandleClose, HandleSweep,
       HandleReset, EnsureCandidate, LeaseOnly, storeVars, EditAccepted, EditRefused
  <2>2. pc'[p] \notin {"rollback", "undo", "rename", "restore"}
    BY <1>1, <1>c, ZenonT(60) DEF Handle, HandleLock, HandleUnlock, HandleKeepAlive, HandleEditConfig,
       HandleEditFlat, HandleDiscard, HandleCommit, HandleRestart, HandleClose, HandleSweep,
       HandleReset, EnsureCandidate, Begin
  <2>3. RestartDue' \/ RunsFiles'
    BY <1>s, <2>1, <2>2, Zenon
  <2> QED
    BY <1>h, <1>o, <2>2, <2>3, Zenon
<1>2. CASE StopENB(p)
  <2>1. enb' = Down /\ pc'[p] = "start"
    BY <1>2, <1>c, <1>f, Zenon DEF StopENB, Go
  <2> QED
    BY <1>h, <1>o, <2>1, Zenon DEF RestartDue
<1>3. CASE StartENB(p)
  <2>1. /\ enb' = (IF enb = Down THEN disk ELSE enb) /\ disk' = disk
        /\ pc'[p] = "ready" /\ pc[p] = "start"
        /\ ~(enb = Down /\ HalfWritten)
    BY <1>3, <1>c, <1>f, Zenon DEF StartENB, Go, storeVars, Record
  <2>2. CASE enb = Down
    <3>1. enb' = disk' /\ ~HalfWritten
      BY <2>1, <2>2, Zenon
    <3>2. CASE \E q \in Slots : pc[q] \in {"rename", "restore"}
      <4>1. PICK q \in Slots : pc[q] \in {"rename", "restore"}
        BY <3>2, Zenon
      <4>2. q # p /\ pc'[q] = pc[q] /\ mem'[q] = mem[q]
        BY <1>o, <2>1, <4>1, Zenon
      <4>3. mem[q].todo = {} \/ disk = mem[q].backup
        BY <3>1, <4>1, Zenon DEF HalfWritten
      <4>4. RunsFiles'
        BY <2>1, <3>1, <4>1, <4>2, <4>3, Zenon DEF RunsFiles
      <4> QED
        BY <1>h, <1>o, <2>1, <4>4, Zenon
    <3>3. CASE \A q \in Slots : pc[q] \notin {"rename", "restore"}
      BY <1>h, <1>o, <2>1, <3>1, <3>3, Zenon DEF RunsFiles
    <3> QED
      BY <3>2, <3>3, Zenon
  <2>3. CASE enb # Down
    <3>1. UNCHANGED <<enb, disk>>
      BY <2>1, <2>3, Zenon
    <3>2. RestartDue => RestartDue'
      BY <1>o, <2>1, <2>3, <3>1, Zenon DEF RestartDue
    <3>3. RunsFiles => RunsFiles'
      BY <1>o, <2>1, <3>1, Zenon DEF RunsFiles
    <3> QED
      BY <1>h, <1>o, <2>1, <3>2, <3>3, Zenon
  <2> QED
    BY <2>2, <2>3, Zenon
<1>4. CASE ENBReady(p)
  <2>1. UNCHANGED <<enb, disk>> /\ pc'[p] \in {"finalize", "idle"} /\ pc[p] = "ready"
    BY <1>4, <1>c, <1>f, Zenon DEF ENBReady, Go, Return, storeVars
  <2>2. RestartDue' \/ RunsFiles'
    BY <1>s, <2>1, Zenon
  <2> QED
    BY <1>h, <1>o, <2>1, <2>2, Zenon
<1>5. CASE Persist(p)
  <2>1. UNCHANGED <<enb, disk>> /\ pc[p] = "persist" /\ StoreFree(p)
    BY <1>5, Zenon DEF Persist, storeVars, managerVars
  <2>2. CASE pc'[p] = "idle"
    <3>1. RestartDue' \/ RunsFiles'
      BY <1>s, <2>1, <2>2, Zenon
    <3> QED
      BY <1>h, <1>o, <2>2, <3>1, Zenon
  <2>3. CASE pc'[p] # "idle"
    <3>1. /\ pc'[p] = "rename"
          /\ mem'[p] = [NoMem EXCEPT !.backup = disk, !.saved = dirty, !.todo = dirty]
      BY <1>5, <1>c, <2>3, Zenon DEF Persist, Return
    <3>2. mem'[p].backup = disk
      BY <3>1, Zenon DEF NoMem
    <3>3. RunsFiles => enb = disk
      BY <2>1, Zenon DEF RunsFiles, StoreFree, Writing
    <3>4. RestartDue' \/ RunsFiles'
      BY <1>d, <1>h, <2>1, <3>1, <3>2, <3>3, Zenon DEF RunsFiles
    <3> QED
      BY <1>h, <1>o, <3>1, <3>4, Zenon
  <2> QED
    BY <2>2, <2>3, Zenon
<1>6. CASE Rename(p)
  <2>0. pc[p] = "rename" /\ enb' = enb /\ req[p].op = "commit"
    BY <1>6, <1>c, Zenon DEF Rename, CommitPCs, Writing
  <2>1. ASSUME NEW f \in mem[p].todo, UNCHANGED <<pc, req>>,
               mem'[p] = [mem[p] EXCEPT !.todo = @ \ {f}]
        PROVE  RestartDue' \/ RunsFiles'
    <3>1. pc'[p] = "rename" /\ mem'[p].backup = mem[p].backup
      BY <1>c, <2>0, <2>1, Zenon DEF Memories
    <3>2. ~RestartDue => enb = mem[p].backup
      BY <1>w, <2>0, <2>1, Zenon
    <3> QED
      BY <1>d, <2>0, <3>1, <3>2, Zenon DEF RunsFiles
  <2>2. ASSUME mem[p].todo # {}, pc'[p] = "restore",
               mem'[p] = [mem[p] EXCEPT !.todo = mem[p].saved]
        PROVE  RestartDue' \/ RunsFiles'
    <3>1. mem'[p].backup = mem[p].backup
      BY <1>c, <2>2, Zenon DEF Memories
    <3>2. ~RestartDue => enb = mem[p].backup
      BY <1>w, <2>0, <2>2, Zenon
    <3> QED
      BY <1>d, <2>0, <2>2, <3>1, <3>2, Zenon DEF RunsFiles
  <2>3. ASSUME pc'[p] = "stop", UNCHANGED <<req, mem>>
        PROVE  RestartDue' \/ RunsFiles'
    BY <2>0, <2>3, Zenon DEF RestartDue
  <2>4. ASSUME pc'[p] = "finalize", mem[p].saved = {}, UNCHANGED storeVars
        PROVE  RestartDue' \/ RunsFiles'
    <3>1. mem[p].backup \in Configs
      BY <2>0, Zenon DEF Inv, ControlOK, HasRead, Writing
    <3>2. \A k \in Leaves : disk[k] = mem[p].backup[k]
      BY <2>0, <2>4, Zenon DEF WriteInv
    <3>3. disk = mem[p].backup
      BY <1>c, <3>1, <3>2, SMT DEF Configs
    <3>4. disk' = disk
      BY <2>4, Zenon DEF storeVars
    <3>5. ~RestartDue => RunsFiles'
      BY <1>o, <1>w, <2>0, <2>4, <3>3, <3>4, Zenon DEF RunsFiles
    <3> QED
      BY <1>d, <2>0, <3>5, Zenon
  <2>5. /\ RestartDue' \/ RunsFiles'
        /\ pc'[p] \in {"rename", "restore", "stop", "finalize"}
    BY <1>6, <2>0, <2>1, <2>2, <2>3, <2>4, RenameCases, Zenon DEF Inv
  <2> QED
    BY <1>h, <1>o, <2>5, Zenon
<1>7. CASE Restore(p)
  <2>0. pc[p] = "restore" /\ enb' = enb
    BY <1>7, <1>h, Zenon DEF Restore
  <2>1. ASSUME NEW f \in mem[p].todo, UNCHANGED <<pc, req>>,
               mem'[p] = [mem[p] EXCEPT !.todo = @ \ {f}]
        PROVE  RestartDue' \/ RunsFiles'
    <3>1. pc'[p] = "restore" /\ mem'[p].backup = mem[p].backup
      BY <1>c, <2>0, <2>1, Zenon DEF Memories
    <3>2. ~RestartDue => enb = mem[p].backup
      BY <1>w, <2>0, <2>1, Zenon
    <3> QED
      BY <1>d, <2>0, <3>1, <3>2, Zenon DEF RunsFiles
  <2>2. ASSUME pc'[p] = "idle", UNCHANGED storeVars,
               disk = Restored(mem[p].backup, mem[p].saved, mem[p].todo)
        PROVE  RestartDue' \/ RunsFiles'
    <3>1. mem[p].backup \in Configs
      BY <2>0, Zenon DEF Inv, ControlOK, HasRead, Writing
    <3>2. mem[p].saved = dirty /\ mem[p].todo \subseteq dirty
      BY <2>0, Zenon DEF WriteInv
    <3>3. \A k \in Leaves : FileOf[k] \in mem[p].todo => disk[k] = mem[p].backup[k]
      BY <2>2, <3>2, Zenon DEF Restored
    <3>4. \A k \in Leaves : FileOf[k] \notin mem[p].todo => disk[k] = mem[p].backup[k]
      BY <2>0, Zenon DEF WriteInv
    <3>5. disk = mem[p].backup
      BY <1>c, <3>1, <3>3, <3>4, SMT DEF Configs
    <3>6. disk' = disk
      BY <2>2, Zenon DEF storeVars
    <3>7. ~RestartDue => RunsFiles'
      BY <1>o, <1>w, <2>0, <2>2, <3>5, <3>6, Zenon DEF RunsFiles
    <3> QED
      BY <1>d, <2>0, <3>7, Zenon
  <2>3. RestartDue' \/ RunsFiles'
    BY <1>7, <2>0, <2>1, <2>2, RestoreCases, Zenon DEF Inv
  <2>4. pc'[p] \in {"restore", "idle"}
    BY <1>7, <2>0, RestoreCases, Zenon DEF Inv
  <2> QED
    BY <1>h, <1>o, <2>3, <2>4, Zenon
<1>8. CASE Step(p) /\ ~(\/ StopENB(p) \/ StartENB(p) \/ ENBReady(p) \/ Persist(p)
                        \/ Rename(p) \/ Restore(p) \/ Rollback(p))
  <2>1. UNCHANGED <<enb, disk>>
    BY <1>8, Zenon DEF Step, Diff, Edit, Note, Reset, Clear, Consume, ReadRunning, ReadCandidate,
       WriteArtifact, EnsureRunning, Finalize, StoreOnly, LeaseOnly, storeVars, managerVars,
       EditAccepted, EditRefused, ResetCandidate, FinalizeCommit
  <2>2. /\ pc[p] \notin {"stop", "start", "rename", "restore"}
        /\ pc'[p] \notin {"rollback", "undo", "rename", "restore"}
    BY <1>8, <1>c, Zenon DEF Step, Diff, Edit, Note, Reset, Clear, Consume, ReadRunning,
       ReadCandidate, WriteArtifact, EnsureRunning, Finalize, Leave, Go, GoRefresh, Return
  <2>3. RestartDue' \/ RunsFiles'
    BY <1>s, <2>1, <2>2, Zenon
  <2> QED
    BY <1>h, <1>o, <2>2, <2>3, Zenon
<1> QED
  BY <1>1, <1>2, <1>3, <1>4, <1>5, <1>6, <1>7, <1>8, <1>f, Zenon DEF Step

(***************************************************************************)
(* Whatever restarts and commits overlap, and however many files a commit  *)
(* writes one after the other, the eNB runs what the files say once no     *)
(* restart and no commit is in progress, as long as failed restarts, files *)
(* that could not be restored and starts between two renames are recorded  *)
(* and have not happened.                                                  *)
(***************************************************************************)
THEOREM ENBFollowsFiles ==
  ASSUME {"broken", "norestart", "midway"} \subseteq Recorded
  PROVE  Spec => []ENBRunsFiles
<1>1. Init => ENBInv
  BY Zenon DEF Init, ENBInv, RunsFiles
<1>2. Inv /\ CommitOnly /\ WriteInv /\ ENBInv /\ [Next]_vars => ENBInv'
  <2>1. ASSUME ENBInv, UNCHANGED vars PROVE ENBInv'
    BY <2>1, Zenon DEF vars, ENBInv, RestartDue, RunsFiles
  <2> QED
    BY <2>1, ENBStep, Zenon DEF Next
<1>3. ENBInv => ENBRunsFiles
  BY Zenon DEF ENBInv, ENBRunsFiles, RestartDue, RunsFiles, CommitWindow, Writing
<1> QED
  BY <1>1, <1>2, <1>3, WritersHold, PTL DEF Spec

-----------------------------------------------------------------------------
(* The lock of the candidate *)

(* Only a lock request gives the candidate to a session *)
LEMMA CandidateLock ==
  ASSUME NEW p \in Slots, Handle(p) \/ Step(p), ~(pc[p] = "idle" /\ HandleLock(p))
  PROVE  locks'["candidate"] \in {None, locks["candidate"]}
<1>0. "candidate" \in Datastores
  BY Zenon DEF Datastores
<1>1. CASE UNCHANGED leaseVars
  BY <1>1, Zenon DEF leaseVars
<1>2. ASSUME NEW L, locks' = AfterExpiry(L) PROVE locks'["candidate"] \in {None, locks["candidate"]}
  BY <1>0, <1>2, Zenon DEF AfterExpiry
<1>3. CASE HandleUnlock(p)
  BY <1>0, <1>3, Zenon DEF HandleUnlock, Unlock, AfterExpiry
<1>4. CASE HandleEditConfig(p) \/ HandleDiscard(p) \/ HandleCommit(p)
  BY <1>2, <1>4, Zenon DEF HandleEditConfig, HandleDiscard, HandleCommit, EnsureCandidate, Ensure
<1>5. CASE HandleKeepAlive(p) \/ HandleReset(p)
  BY <1>0, <1>5, Zenon DEF HandleKeepAlive, HandleReset, KeepAlive, ResetAll
<1>6. CASE HandleClose(p) \/ HandleSweep(p)
  BY <1>2, <1>6, Zenon DEF HandleClose, HandleSweep, ReleaseSession, Sweep
<1>7. CASE HandleEditFlat(p) \/ HandleRestart(p)
  BY <1>1, <1>7, Zenon DEF HandleEditFlat, HandleRestart
<1>8. CASE EnsureRunning(p)
  BY <1>2, <1>8, Zenon DEF EnsureRunning, Ensure
<1>9. CASE Step(p) /\ ~EnsureRunning(p)
  BY <1>1, <1>9, Zenon DEF Step, Diff, Edit, Note, Reset, Clear, Consume, ReadRunning, ReadCandidate,
     WriteArtifact, Persist, Rename, Restore, StopENB, StartENB, ENBReady, Finalize, Rollback, StoreOnly
<1> QED
  BY <1>3, <1>4, <1>5, <1>6, <1>7, <1>8, <1>9, Zenon DEF Handle

(* A request that is past its ensure after a step was past it before, for the same
   session, or has just been let in *)
LEMMA Admission ==
  ASSUME ControlOK, CommitOnly, NEW p \in Slots, Handle(p) \/ Step(p), Admitted(p)'
  PROVE  \/ Admitted(p) /\ req'[p].id = req[p].id
         \/ locks'["candidate"] \in {None, req'[p].id}
<1>0. /\ DOMAIN pc = Slots /\ DOMAIN req = Slots /\ req[p] \in Requests
      /\ pc[p] \in CommitPCs => req[p].op = "commit"
  BY Zenon DEF ControlOK, CommitOnly
<1>1. ASSUME NEW op, NEW id, NEW chg, NEW nxt, EnsureCandidate(p, op, id, chg, nxt)
      PROVE  locks'["candidate"] \in {None, req'[p].id}
  <2>1. PICK L : /\ locks' = AfterExpiry(L)
                 /\ Begin(p, [NoReq EXCEPT !.op = op, !.id = id, !.chg = chg],
                          IF Admits(AfterExpiry(L), "candidate", id) THEN nxt ELSE "idle")
    BY <1>1, Zenon DEF EnsureCandidate, Ensure
  <2>2. pc'[p] # "idle"
    BY Zenon DEF Admitted
  <2>3. Admits(AfterExpiry(L), "candidate", id)
    BY <1>0, <2>1, <2>2, Zenon DEF Begin
  <2>4. req'[p].id = id
    BY <1>0, <2>1, <2>2, <2>3, Zenon DEF Begin, NoReq
  <2> QED
    BY <2>1, <2>3, <2>4, Zenon DEF Admits
<1>2. CASE HandleEditConfig(p) \/ HandleDiscard(p) \/ HandleCommit(p)
  BY <1>1, <1>2, Zenon DEF HandleEditConfig, HandleDiscard, HandleCommit
<1>3. CASE HandleLock(p) \/ HandleUnlock(p) \/ HandleKeepAlive(p) \/ HandleEditFlat(p)
        \/ HandleRestart(p) \/ HandleClose(p) \/ HandleSweep(p) \/ HandleReset(p)
  BY <1>0, <1>3, ZenonT(60) DEF HandleLock, HandleUnlock, HandleKeepAlive, HandleEditFlat, HandleRestart,
     HandleClose, HandleSweep, HandleReset, Begin, NoReq, Admitted
<1>4. CASE Diff(p) \/ EnsureRunning(p)
  BY <1>0, <1>4 DEF Diff, EnsureRunning, Go, Return, Admitted, Requests
<1>5. CASE Persist(p) \/ Rename(p) \/ Restore(p) \/ Finalize(p) \/ Rollback(p)
  BY <1>0, <1>5, Zenon DEF Persist, Rename, Persisted, Restore, Finalize, Rollback, Done, Turn, Go,
     Leave, Return, Admitted, CommitPCs, Writing
<1>6. CASE StopENB(p) \/ StartENB(p) \/ ENBReady(p)
  BY <1>0, <1>6, Zenon DEF StopENB, StartENB, ENBReady, RestartFailed, Go, Return, Admitted
<1>7. CASE Edit(p) \/ Note(p) \/ Reset(p) \/ Clear(p) \/ Consume(p)
        \/ ReadRunning(p) \/ ReadCandidate(p) \/ WriteArtifact(p)
  BY <1>0, <1>7, Zenon DEF Edit, Note, Reset, Clear, Consume, ReadRunning, ReadCandidate,
     WriteArtifact, Go, GoRefresh, Return, Admitted
<1> QED
  BY <1>2, <1>3, <1>4, <1>5, <1>6, <1>7, Zenon DEF Handle, Step

LEMMA HolderStep ==
  ASSUME "overtaken" \in Recorded, Inv, CommitOnly, OnlyHolderProceeds,
         NEW p \in Slots, Handle(p) \/ Step(p)
  PROVE  OnlyHolderProceeds'
<1> SUFFICES ASSUME "overtaken" \notin history', NEW q \in Slots, Admitted(q)'
             PROVE  locks'["candidate"] \in {None, req'[q].id}
  BY Zenon DEF OnlyHolderProceeds
<1>h. \A r \in Slots : Admitted(r) => locks["candidate"] \in {None, req[r].id}
  BY OthersStay, Zenon DEF OnlyHolderProceeds, Inv
<1>1. \/ Admitted(q) /\ req'[q].id = req[q].id
      \/ locks'["candidate"] \in {None, req'[q].id}
  BY OthersStay, Admission, SMTT(30) DEF Inv, Admitted
<1>2. CASE ~(pc[p] = "idle" /\ HandleLock(p))
  BY <1>1, <1>2, <1>h, CandidateLock, ZenonT(60)
<1>3. CASE HandleLock(p)
  <2>1. PICK ds \in Datastores, id \in Ids, L \in SUBSET Expirable, S \in SUBSET sessions :
          Lock(ds, id, L, S) /\ Grant(ds, id, L, S)
    BY <1>3, Zenon DEF HandleLock
  <2>2. /\ AfterExpiry(L)["candidate"] \in {None, locks["candidate"]}
        /\ locks'["candidate"] =
             IF ds = "candidate" /\ AfterExpiry(L)["candidate"] = None
             THEN id ELSE AfterExpiry(L)["candidate"]
    BY <2>1, Zenon DEF Lock, AfterExpiry, Datastores
  <2>3. CASE ds = "candidate" /\ AfterExpiry(L)["candidate"] = None
    <3>1. \A r \in Slots : Admitted(r) => req[r].id = id
      BY <2>1, <2>3, Zenon DEF Grant, Record
    <3> QED
      BY <1>1, <2>2, <2>3, <3>1, Zenon
  <2> QED
    BY <1>1, <1>h, <2>2, <2>3, Zenon
<1> QED
  BY <1>2, <1>3, Zenon

(***************************************************************************)
(* However many requests run at once, none works on a candidate that       *)
(* another session holds, unless that session was granted the lock while   *)
(* the request was past its ensure.                                        *)
(***************************************************************************)
THEOREM HoldersAreAlone ==
  ASSUME "overtaken" \in Recorded
  PROVE  Spec => []OnlyHolderProceeds
<1>1. Init => OnlyHolderProceeds
  BY Zenon DEF Init, OnlyHolderProceeds, Admitted
<1>2. Inv /\ CommitOnly /\ OnlyHolderProceeds /\ [Next]_vars => OnlyHolderProceeds'
  <2>1. ASSUME OnlyHolderProceeds, UNCHANGED vars PROVE OnlyHolderProceeds'
    BY <2>1, Zenon DEF vars, OnlyHolderProceeds, Admitted
  <2> QED
    BY <2>1, HolderStep, Zenon DEF Next
<1> QED
  BY <1>1, <1>2, WritersHold, PTL DEF Spec

-----------------------------------------------------------------------------
(* The owner of the edits *)

(* An operation of the lock manager that drops no lease forgets no session *)
LEMMA SessionsStay ==
  ASSUME "unreported" \in Recorded, "unreported" \notin history', NEW p \in Slots,
         \/ HandleLock(p) \/ HandleUnlock(p) \/ HandleKeepAlive(p) \/ HandleRestart(p)
         \/ HandleEditConfig(p) \/ HandleEditFlat(p) \/ HandleDiscard(p) \/ HandleCommit(p)
         \/ EnsureRunning(p)
  PROVE  sessions \subseteq sessions'
<1>1. ASSUME NEW L, NEW S, Drop(L, S) \/ \E ds, id : Grant(ds, id, L, S) PROVE S = {}
  BY <1>1, Zenon DEF Drop, Grant, Record
<1>2. CASE HandleLock(p)
  BY <1>1, <1>2, Zenon DEF HandleLock, Lock, ExpireAndTouch
<1>3. CASE HandleUnlock(p)
  BY <1>1, <1>3, Zenon DEF HandleUnlock, Unlock, ExpireAndTouch
<1>4. CASE HandleEditConfig(p) \/ HandleDiscard(p) \/ HandleCommit(p) \/ EnsureRunning(p)
  BY <1>1, <1>4, Zenon DEF HandleEditConfig, HandleDiscard, HandleCommit, EnsureCandidate,
     EnsureRunning, Ensure, ExpireAndTouch
<1>5. CASE HandleKeepAlive(p)
  BY <1>5, Zenon DEF HandleKeepAlive, KeepAlive
<1>6. CASE HandleEditFlat(p) \/ HandleRestart(p)
  BY <1>6, Zenon DEF HandleEditFlat, HandleRestart, leaseVars
<1> QED
  BY <1>2, <1>3, <1>4, <1>5, <1>6, Zenon

(* Who will give the edits an owner, or take them back *)
Settles(p) ==
  \/ pc[p] \in {"note", "reset", "resetonly", "clearfirst"}
  \/ pc[p] = "consume" /\ lastEdit \in req[p].gone

OwnerInv ==
  history \cap {"anonymous", "unreported", "late", "unowned"} = {} =>
    /\ \A p \in Slots : pc[p] = "note" => req[p].id # Anon
    /\ cand # running => lastEdit \in sessions \/ \E p \in Slots : Settles(p)

LEMMA OwnerStep ==
  ASSUME {"anonymous", "unreported", "late", "unowned"} \subseteq Recorded,
         Inv, OwnerInv, NEW p \in Slots, Handle(p) \/ Step(p)
  PROVE  OwnerInv'
<1> DEFINE Sessioned == \A q \in Slots : pc[q] = "note" => req[q].id # Anon
           Kept == cand # running => lastEdit \in sessions \/ \E q \in Slots : Settles(q)
<1> SUFFICES ASSUME history' \cap {"anonymous", "unreported", "late", "unowned"} = {}
             PROVE  Sessioned' /\ Kept'
  BY Zenon DEF OwnerInv
<1>o. \A q \in Slots \ {p} : pc'[q] = pc[q] /\ req'[q] = req[q]
  BY OthersStay, Zenon DEF Inv
<1>h. Sessioned /\ Kept
  BY OthersStay, Zenon DEF OwnerInv, Inv
<1>0. DOMAIN pc = Slots /\ DOMAIN req = Slots /\ req[p] \in Requests
  BY Zenon DEF Inv, ControlOK
<1>n. pc'[p] # "note" => Sessioned'
  BY <1>h, <1>o, Zenon
<1>d. pc'[p] \in {"reset", "resetonly", "clearfirst"} => Kept'
  BY Zenon DEF Settles
(* a step of p that neither edits nor forgets a session *)
<1>k. ASSUME UNCHANGED <<cand, running, lastEdit>>, sessions \subseteq sessions', ~Settles(p)
      PROVE  Kept'
  <2>1. ASSUME NEW q \in Slots, Settles(q) PROVE Settles(q)'
    BY <1>k, <1>o, <2>1, Zenon DEF Settles
  <2> QED
    BY <1>h, <1>k, <2>1, Zenon
<1> HIDE DEF Sessioned, Kept
<1>1. CASE /\ pc[p] = "idle"
           /\ HandleLock(p) \/ HandleUnlock(p) \/ HandleKeepAlive(p) \/ HandleRestart(p)
  <2>1. UNCHANGED <<cand, running, lastEdit>> /\ pc'[p] \in {"idle", "reset", "stop"}
    BY <1>0, <1>1, Zenon DEF HandleLock, HandleUnlock, HandleKeepAlive, HandleRestart, Begin,
       LeaseOnly, storeVars
  <2>2. sessions \subseteq sessions'
    BY <1>1, SessionsStay, Zenon
  <2> QED
    BY <1>1, <1>k, <1>n, <2>1, <2>2, Zenon DEF Settles
<1>2. CASE pc[p] = "idle" /\ (HandleEditConfig(p) \/ HandleDiscard(p) \/ HandleCommit(p))
  <2>1. UNCHANGED <<cand, running, lastEdit>> /\ pc'[p] \in {"idle", "diff", "reset", "ensure"}
    BY <1>0, <1>2, Zenon DEF HandleEditConfig, HandleDiscard, HandleCommit, EnsureCandidate, Begin,
       LeaseOnly, storeVars
  <2>2. sessions \subseteq sessions'
    BY <1>2, SessionsStay, Zenon
  <2> QED
    BY <1>2, <1>k, <1>n, <2>1, <2>2, Zenon DEF Settles
<1>3. CASE pc[p] = "idle" /\ HandleEditFlat(p)
  <2>1. UNCHANGED <<cand, running, lastEdit, sessions>> /\ pc'[p] \in {"idle", "refresh"}
    BY <1>0, <1>3, Zenon DEF HandleEditFlat, EditRefused, Disturb, Record, Begin, leaseVars
  <2> QED
    BY <1>3, <1>k, <1>n, <2>1, Zenon DEF Settles
<1>4. CASE pc[p] = "idle" /\ HandleClose(p)
  <2>1. PICK t \in Sessions, st \in {"resetonly", "consume"} :
          ReleaseSession(t) /\ Begin(p, [NoReq EXCEPT !.op = "close", !.gone = {t}], st)
    BY <1>4, Zenon DEF HandleClose
  <2>2. sessions' = sessions \ {t} /\ pc'[p] = st /\ req'[p].gone = {t}
    BY <1>0, <2>1, Zenon DEF ReleaseSession, Begin, NoReq
  <2>3. UNCHANGED <<cand, running, lastEdit>>
    BY <1>4, Zenon DEF HandleClose, LeaseOnly, storeVars
  <2>4. CASE lastEdit = t
    BY <1>n, <2>2, <2>3, <2>4, Zenon DEF Kept, Settles
  <2>5. CASE lastEdit # t
    <3>1. ASSUME NEW q \in Slots, Settles(q) PROVE Settles(q)'
      BY <1>4, <1>o, <2>3, <3>1, Zenon DEF Settles
    <3> QED
      BY <1>h, <1>n, <2>2, <2>3, <2>5, <3>1, Zenon DEF Kept
  <2> QED
    BY <2>4, <2>5, Zenon
<1>5. CASE pc[p] = "idle" /\ HandleSweep(p)
  <2>1. PICK L \in SUBSET Expirable, S \in SUBSET sessions, st \in {"resetonly", "consume", "idle"} :
          /\ Sweep(L, S)
          /\ Begin(p, [NoReq EXCEPT !.op = "sweep", !.gone = S \cup {locks[ds] : ds \in L}], st)
          /\ st = "idle" => S \cup {locks[ds] : ds \in L} = {}
    BY <1>5, Zenon DEF HandleSweep
  <2>2. sessions' = sessions \ S /\ pc'[p] = st /\ (st = "idle" => S = {})
    BY <1>0, <2>1, Zenon DEF Sweep, Begin
  <2>3. st # "idle" => req'[p].gone = S \cup {locks[ds] : ds \in L}
    BY <1>0, <2>1, Zenon DEF Begin, NoReq
  <2>4. UNCHANGED <<cand, running, lastEdit>>
    BY <1>5, Zenon DEF HandleSweep, LeaseOnly, storeVars
  <2>5. pc'[p] = "consume" => S \subseteq req'[p].gone
    BY <2>2, <2>3, Zenon
  <2>6. CASE lastEdit \in S
    BY <1>d, <1>n, <2>1, <2>2, <2>4, <2>5, <2>6, Zenon DEF Kept, Settles
  <2>7. CASE lastEdit \notin S
    <3>1. ASSUME NEW q \in Slots, Settles(q) PROVE Settles(q)'
      BY <1>5, <1>o, <2>4, <3>1, Zenon DEF Settles
    <3> QED
      BY <1>h, <1>n, <2>1, <2>2, <2>4, <2>7, <3>1, Zenon DEF Kept
  <2> QED
    BY <2>6, <2>7, Zenon
<1>6. CASE pc[p] = "idle" /\ HandleReset(p)
  <2>1. pc'[p] = "clearfirst"
    BY <1>0, <1>6, Zenon DEF HandleReset, Begin
  <2> QED
    BY <1>d, <1>n, <2>1, Zenon
<1>7. CASE Diff(p)
  <2>1. pc[p] = "diff" /\ pc'[p] \in {"idle", "edit"} /\ UNCHANGED <<cand, running, lastEdit, sessions>>
    BY <1>0, <1>7, Zenon DEF Diff, Return, leaseVars, storeVars, managerVars
  <2> QED
    BY <1>k, <1>n, <2>1, Zenon DEF Settles
<1>8. CASE Edit(p)
  <2>1. pc[p] = "edit" /\ UNCHANGED <<lastEdit, sessions, running>>
    BY <1>8, Zenon DEF Edit, EditAccepted, EditRefused, leaseVars
  <2>2. \/ pc'[p] = "idle" /\ UNCHANGED cand
        \/ pc'[p] = "note" /\ req'[p].id = req[p].id /\ req[p].id # Anon
    BY <1>0, <1>8, Zenon DEF Edit, EditRefused, Disturb, Record, Go, Return
  <2>3. CASE pc'[p] = "note"
    BY <1>h, <1>o, <2>2, <2>3, Zenon DEF Kept, Settles, Sessioned
  <2> QED
    BY <1>k, <1>n, <2>1, <2>2, <2>3, Zenon DEF Settles
<1>9. CASE Note(p)
  <2>1. req[p].id # Anon
    BY <1>9, <1>h, Zenon DEF Note, Sessioned
  <2>2. /\ lastEdit' = req[p].id /\ UNCHANGED <<sessions, cand, running>>
        /\ pc'[p] \in {"refresh", "idle"}
        /\ cand # running => req[p].id \in sessions
    BY <1>0, <1>9, <2>1, Zenon DEF Note, Record, GoRefresh, Go, Return, leaseVars, storeVars
  <2> QED
    BY <1>n, <2>2, Zenon DEF Kept
<1>10. CASE Reset(p)
  <2>1. cand' = running' /\ pc'[p] \in {"clear", "refresh", "idle"}
    BY <1>0, <1>10, Zenon DEF Reset, ResetCandidate, GoRefresh, Go, Return
  <2> QED
    BY <1>n, <2>1, Zenon DEF Kept
<1>11. CASE Clear(p)
  <2>1. /\ UNCHANGED <<cand, running, sessions>> /\ lastEdit' = Anon
        /\ \/ pc[p] = "clear" /\ pc'[p] \in {"refresh", "idle"}
           \/ pc'[p] = "resetonly"
    BY <1>0, <1>11, Zenon DEF Clear, GoRefresh, Go, Return, storeVars, leaseVars
  <2>2. CASE pc'[p] = "resetonly"
    BY <1>d, <1>n, <2>2, Zenon
  <2>3. CASE pc[p] = "clear"
    <3>1. cand # running /\ lastEdit # Anon => \E q \in Slots : pc[q] = "note"
      BY <1>11, <2>3, Zenon DEF Clear, Record
    <3>2. ASSUME NEW q \in Slots, pc[q] = "note" PROVE Kept'
      BY <1>o, <2>3, <3>2, Zenon DEF Kept, Settles
    <3>3. ASSUME lastEdit = Anon PROVE Kept'
      BY <1>k, <2>1, <2>3, <3>3, Zenon DEF Settles
    <3>4. ASSUME cand = running PROVE Kept'
      BY <2>1, <3>4, Zenon DEF Kept
    <3> QED
      BY <1>n, <2>1, <3>1, <3>2, <3>3, <3>4, Zenon
  <2> QED
    BY <2>1, <2>2, <2>3, Zenon
<1>12. CASE Consume(p)
  <2>1. /\ pc[p] = "consume" /\ UNCHANGED <<cand, running, sessions>>
        /\ \/ pc'[p] = "resetonly"
           \/ pc'[p] = "idle" /\ lastEdit \notin req[p].gone /\ lastEdit' = lastEdit
    BY <1>0, <1>12, Zenon DEF Consume, Go, Return, storeVars, leaseVars
  <2> QED
    BY <1>d, <1>k, <1>n, <2>1, Zenon DEF Settles
<1>13. CASE ReadRunning(p) \/ ReadCandidate(p) \/ WriteArtifact(p)
  <2>1. /\ pc[p] \in {"refresh", "readcand", "writerun", "writecand"}
        /\ pc'[p] \in {"readcand", "writerun", "writecand", "idle"}
        /\ UNCHANGED <<cand, running, lastEdit, sessions>>
    BY <1>0, <1>13, Zenon DEF ReadRunning, ReadCandidate, WriteArtifact, Go, Return, leaseVars,
       storeVars, managerVars
  <2> QED
    BY <1>k, <1>n, <2>1, Zenon DEF Settles
<1>14. CASE EnsureRunning(p)
  <2>1. pc[p] = "ensure" /\ pc'[p] \in {"persist", "idle"} /\ UNCHANGED <<cand, running, lastEdit>>
    BY <1>0, <1>14, Zenon DEF EnsureRunning, Go, Return, LeaseOnly, storeVars
  <2>2. sessions \subseteq sessions'
    BY <1>14, SessionsStay, Zenon
  <2> QED
    BY <1>k, <1>n, <2>1, <2>2, Zenon DEF Settles
<1>15. CASE Persist(p) \/ Rename(p) \/ Restore(p) \/ StopENB(p) \/ StartENB(p) \/ ENBReady(p) \/ Rollback(p)
  <2>1. pc[p] \in CommitWindow \cup {"persist"}
    BY <1>15, Zenon DEF Persist, Rename, Restore, StopENB, StartENB, ENBReady, Rollback, CommitWindow,
       Writing
  <2>2. pc'[p] \in CommitWindow \cup {"idle", "reset"}
    BY <1>0, <1>15, <2>1, ZenonT(60) DEF Persist, Rename, Persisted, Restore, StopENB, StartENB,
       ENBReady, RestartFailed, Rollback, Done, Turn, Leave, Go, Return, CommitWindow, Writing
  <2>3. UNCHANGED <<cand, running, lastEdit, sessions>>
    BY <1>15, ZenonT(60) DEF Persist, Rename, Persisted, Restore, RollbackPersist, StopENB, StartENB,
       ENBReady, Rollback, memVars, storeVars, managerVars, leaseVars
  <2> QED
    BY <1>k, <1>n, <2>1, <2>2, <2>3, Zenon DEF Settles, CommitWindow, Writing
<1>16. CASE Finalize(p)
  <2>1. pc'[p] = "reset"
    BY <1>0, <1>16, Zenon DEF Finalize, Leave
  <2> QED
    BY <1>d, <1>n, <2>1, Zenon
<1> QED
  BY <1>1, <1>2, <1>3, <1>4, <1>5, <1>6, <1>7, <1>8, <1>9, <1>10, <1>11, <1>12, <1>13, <1>14, <1>15,
     <1>16, Zenon DEF Handle, Step

(***************************************************************************)
(* However many requests run at once, uncommitted edits have an owner      *)
(* whose session the lock manager tracks once all are answered, unless an  *)
(* edit was made without a session, a lease was dropped unreported, or one *)
(* of the two races between an edit and the end of its session, or between *)
(* an edit and another's reset, has happened.                              *)
(***************************************************************************)
THEOREM EditsKeepTheirOwner ==
  ASSUME {"anonymous", "unreported", "late", "unowned"} \subseteq Recorded
  PROVE  Spec => []EditsHaveALiveOwner
<1>1. Init => OwnerInv
  BY Zenon DEF Init, StoreInit, OwnerInv
<1>2. Inv /\ OwnerInv /\ [Next]_vars => OwnerInv'
  <2>1. ASSUME OwnerInv, UNCHANGED vars PROVE OwnerInv'
    BY <2>1, Zenon DEF vars, OwnerInv, Settles
  <2> QED
    BY <2>1, OwnerStep, Zenon DEF Next
<1>3. OwnerInv => EditsHaveALiveOwner
  BY Zenon DEF OwnerInv, Settles, EditsHaveALiveOwner, Quiet
<1> QED
  BY <1>1, <1>2, <1>3, InvHolds, PTL DEF Spec

-----------------------------------------------------------------------------
(* The artifacts *)

Stored(ds) == IF ds = "running" THEN running ELSE cand

(* p has yet to read ds for its refresh *)
WillRead(p, ds) ==
  \/ pc[p] \in {"note", "clear", "clearfirst", "reset", "resetonly", "refresh"}
  \/ pc[p] = "readcand" /\ ds = "candidate"

(* p will write what the store holds, unless the store changes again *)
WillShow(p, ds) == WillRead(p, ds) \/ (Holds(p, ds) /\ mem[p].snap[ds] = Stored(ds))

(* The artifact of ds and all snapshots of ds are what the store holds, or a refresh
   will set them right *)
Fresh(ds) ==
  \/ \E p \in Slots : WillShow(p, ds)
  \/ /\ art[ds] = Stored(ds)
     /\ \A p \in Slots : Holds(p, ds) => mem[p].snap[ds] = Stored(ds)

ArtInv == history \cap {"noartifact", "crossed"} = {} => \A ds \in Datastores : Fresh(ds)

LEMMA ArtStep ==
  ASSUME Artifacts = TRUE, {"noartifact", "crossed"} \subseteq Recorded,
         Inv, DOMAIN art = Datastores, ArtInv, NEW p \in Slots, Handle(p) \/ Step(p)
  PROVE  ArtInv'
<1> SUFFICES ASSUME history' \cap {"noartifact", "crossed"} = {}, NEW ds \in Datastores
             PROVE  Fresh(ds)'
  BY Zenon DEF ArtInv
<1>o. \A q \in Slots \ {p} : pc'[q] = pc[q] /\ mem'[q] = mem[q]
  BY OthersStay, Zenon DEF Inv
<1>h. Fresh(ds)
  BY OthersStay, Zenon DEF ArtInv, Inv
<1>0. /\ DOMAIN pc = Slots /\ DOMAIN req = Slots /\ DOMAIN mem = Slots
      /\ mem[p] \in Memories
  BY Zenon DEF Inv, ControlOK
<1>ds. ds \in {"running", "candidate"}
  BY Zenon DEF Datastores
<1> DEFINE Ahead == {"note", "clear", "clearfirst", "reset", "resetonly", "refresh"}
           Reading == {"readcand", "writerun", "writecand"}
(* p has yet to read the store *)
<1>e. pc'[p] \in Ahead => Fresh(ds)'
  BY Zenon DEF Fresh, WillShow, WillRead
(* neither the store nor what p has to do for ds changes *)
<1>c. ASSUME UNCHANGED <<running, cand>>, art'[ds] = art[ds],
             WillShow(p, ds) => WillShow(p, ds)',
             Holds(p, ds)' => Holds(p, ds) /\ mem'[p].snap[ds] = mem[p].snap[ds]
      PROVE  Fresh(ds)'
  <2>1. Stored(ds)' = Stored(ds)
    BY <1>c, Zenon DEF Stored
  <2>2. ASSUME NEW q \in Slots \ {p}, WillShow(q, ds) PROVE WillShow(q, ds)'
    BY <1>o, <2>1, <2>2, Zenon DEF WillShow, WillRead, Holds
  <2>3. ASSUME NEW q \in Slots, Holds(q, ds)'
        PROVE  Holds(q, ds) /\ mem'[q].snap[ds] = mem[q].snap[ds]
    BY <1>c, <1>o, <2>3, Zenon DEF Holds
  <2> QED
    BY <1>c, <1>h, <2>1, <2>2, <2>3, Zenon DEF Fresh
<1>s. ASSUME UNCHANGED <<running, cand, art>>, pc[p] \notin Ahead \cup Reading, pc'[p] \notin Reading
      PROVE  Fresh(ds)'
  BY <1>c, <1>s, Zenon DEF WillShow, WillRead, Holds
<1>1. CASE Handle(p) /\ ~HandleEditFlat(p)
  <2>1. UNCHANGED <<running, cand, art>> /\ pc[p] = "idle"
    BY <1>1, Zenon DEF Handle, HandleLock, HandleUnlock, HandleKeepAlive, HandleEditConfig,
       HandleDiscard, HandleCommit, HandleRestart, HandleClose, HandleSweep, HandleReset,
       EnsureCandidate, LeaseOnly, storeVars
  <2>2. pc'[p] \notin Reading
    BY <1>0, <1>1, ZenonT(60) DEF Handle, HandleLock, HandleUnlock, HandleKeepAlive, HandleEditConfig,
       HandleDiscard, HandleCommit, HandleRestart, HandleClose, HandleSweep, HandleReset,
       EnsureCandidate, Begin
  <2> QED
    BY <1>s, <2>1, <2>2, Zenon
<1>2. CASE pc[p] = "idle" /\ HandleEditFlat(p)
  <2>1. pc'[p] = "refresh" \/ (pc'[p] = "idle" /\ UNCHANGED <<running, cand, art>>)
    BY <1>0, <1>2, Zenon DEF HandleEditFlat, Begin, EditRefused
  <2> QED
    BY <1>2, <1>e, <1>s, <2>1, Zenon
<1>3. CASE Diff(p) \/ Edit(p)
  <2>1. pc[p] \in {"diff", "edit"}
    BY <1>3, Zenon DEF Diff, Edit
  <2>2. pc'[p] = "note" \/ (pc'[p] \in {"edit", "idle"} /\ UNCHANGED <<running, cand, art>>)
    BY <1>0, <1>3, Zenon DEF Diff, Edit, Go, Return, EditRefused, storeVars, managerVars
  <2> QED
    BY <1>e, <1>s, <2>1, <2>2, Zenon
<1>4. CASE Note(p) \/ Reset(p) \/ Clear(p)
  <2>1. pc'[p] \in Ahead
    BY <1>0, <1>4, Zenon DEF Note, Reset, Clear, GoRefresh, Go
  <2> QED
    BY <1>e, <2>1, Zenon
<1>5. CASE Consume(p)
  <2>1. pc'[p] = "resetonly" \/ (pc[p] = "consume" /\ pc'[p] = "idle" /\ UNCHANGED <<running, cand, art>>)
    BY <1>0, <1>5, Zenon DEF Consume, Go, Return, storeVars
  <2> QED
    BY <1>e, <1>s, <2>1, Zenon
<1>6. CASE ReadRunning(p)
  <2>1. UNCHANGED <<running, cand, art>> /\ pc'[p] = "readcand"
    BY <1>0, <1>6, Zenon DEF ReadRunning, storeVars, managerVars
  <2>2. mem'[p].snap["running"] = running
    BY <1>0, <1>6, SMTT(30) DEF ReadRunning, Memories, Datastores
  <2> QED
    BY <1>ds, <2>1, <2>2, Zenon DEF Fresh, WillShow, WillRead, Holds, Stored
<1>7. CASE ReadCandidate(p)
  <2>1. UNCHANGED <<running, cand, art>> /\ pc[p] = "readcand" /\ pc'[p] = "writerun"
    BY <1>0, <1>7, Zenon DEF ReadCandidate, storeVars, managerVars
  <2>2. mem'[p].snap["candidate"] = cand /\ mem'[p].snap["running"] = mem[p].snap["running"]
    BY <1>0, <1>7, SMTT(30) DEF ReadCandidate, Memories, Datastores
  <2>3. CASE ds = "candidate"
    BY <2>1, <2>2, <2>3, Zenon DEF Fresh, WillShow, Holds, Stored
  <2>4. CASE ds = "running"
    <3>1. WillShow(p, ds) => WillShow(p, ds)'
      BY <2>1, <2>2, <2>4, Zenon DEF WillShow, WillRead, Holds, Stored
    <3>2. Holds(p, ds) /\ mem'[p].snap[ds] = mem[p].snap[ds]
      BY <2>1, <2>2, <2>4, Zenon DEF Holds
    <3> QED
      BY <1>c, <2>1, <3>1, <3>2, Zenon
  <2> QED
    BY <1>ds, <2>3, <2>4, Zenon
<1>8. CASE WriteArtifact(p)
  <2>1. UNCHANGED <<running, cand>>
    BY <1>8, Zenon DEF WriteArtifact, storeVars
  <2>2. Stored(ds)' = Stored(ds)
    BY <2>1, Zenon DEF Stored
  (* the artifact is written *)
  <2>3. ASSUME Publish(p, ds), Holds(p, ds), ~WillRead(p, ds), ~Holds(p, ds)' PROVE Fresh(ds)'
    <3>1. art'[ds] = mem[p].snap[ds]
      BY <2>3, Zenon DEF Publish
    <3>2. \A q \in Slots \ {p} : Holds(q, ds) => mem[q].snap[ds] = mem[p].snap[ds]
      BY <2>3, Zenon DEF Publish, Record
    <3>3. CASE mem[p].snap[ds] = Stored(ds)
      <4>1. ASSUME NEW q \in Slots, Holds(q, ds)' PROVE mem'[q].snap[ds] = Stored(ds)'
        BY <1>o, <2>2, <2>3, <3>2, <3>3, <4>1, Zenon DEF Holds
      <4> QED
        BY <2>2, <3>1, <3>3, <4>1, Zenon DEF Fresh
    <3>4. CASE mem[p].snap[ds] # Stored(ds)
      <4>1. PICK q \in Slots : WillShow(q, ds)
        BY <1>h, <2>3, <3>4, Zenon DEF Fresh
      <4>2. q # p
        BY <2>3, <3>4, <4>1, Zenon DEF WillShow
      <4>3. WillShow(q, ds)'
        BY <1>o, <2>2, <4>1, <4>2, Zenon DEF WillShow, WillRead, Holds
      <4> QED
        BY <4>3, Zenon DEF Fresh
    <3> QED
      BY <3>3, <3>4, Zenon
  <2>4. \/ /\ pc[p] = "writerun" /\ pc'[p] = "writecand" /\ mem'[p] = mem[p] /\ Publish(p, "running")
        \/ pc[p] = "writecand" /\ pc'[p] = "idle" /\ Publish(p, "candidate")
    BY <1>0, <1>8, Zenon DEF WriteArtifact, Record, Go, Return
  <2>5. CASE pc[p] = "writerun" /\ ds = "running"
    BY <2>3, <2>4, <2>5, Zenon DEF WillRead, Holds
  <2>6. CASE pc[p] = "writecand" /\ ds = "candidate"
    BY <2>3, <2>4, <2>6, Zenon DEF WillRead, Holds
  <2>7. CASE pc[p] = "writerun" /\ ds = "candidate"
    <3>1. art'[ds] = art[ds] /\ mem'[p] = mem[p] /\ pc'[p] = "writecand"
      BY <2>4, <2>7, Zenon DEF Publish
    <3>2. Holds(p, ds) /\ Holds(p, ds)' /\ ~WillRead(p, ds)
      BY <2>7, <3>1, Zenon DEF Holds, WillRead
    <3> QED
      BY <1>c, <2>1, <2>2, <3>1, <3>2, Zenon DEF WillShow
  <2>8. CASE pc[p] = "writecand" /\ ds = "running"
    <3>1. art'[ds] = art[ds] /\ pc'[p] = "idle"
      BY <2>4, <2>8, Zenon DEF Publish
    <3>2. ~Holds(p, ds) /\ ~Holds(p, ds)' /\ ~WillRead(p, ds)
      BY <2>8, <3>1, Zenon DEF Holds, WillRead
    <3> QED
      BY <1>c, <2>1, <3>1, <3>2, Zenon DEF WillShow
  <2> QED
    BY <1>ds, <2>4, <2>5, <2>6, <2>7, <2>8, Zenon
<1>9. CASE EnsureRunning(p) \/ Persist(p) \/ Rename(p) \/ Restore(p) \/ StopENB(p) \/ StartENB(p)
        \/ ENBReady(p) \/ Rollback(p)
  <2>1. pc[p] \in CommitWindow \cup {"ensure", "persist"}
    BY <1>9, Zenon DEF EnsureRunning, Persist, Rename, Restore, StopENB, StartENB, ENBReady, Rollback,
       CommitWindow, Writing
  <2>2. pc'[p] \in CommitWindow \cup {"persist", "idle", "reset"}
    BY <1>0, <1>9, <2>1, ZenonT(60) DEF EnsureRunning, Persist, Rename, Persisted, Restore, StopENB,
       StartENB, ENBReady, RestartFailed, Rollback, Done, Turn, Leave, Go, Return, CommitWindow, Writing
  <2>3. UNCHANGED <<cand, running, art>>
    BY <1>9, ZenonT(60) DEF EnsureRunning, LeaseOnly, Persist, Rename, Persisted, Restore,
       RollbackPersist, StopENB, StartENB, ENBReady, Rollback, memVars, storeVars, managerVars
  <2> QED
    BY <1>s, <2>1, <2>2, <2>3, Zenon DEF CommitWindow, Writing
<1>10. CASE Finalize(p)
  <2>1. pc'[p] = "reset"
    BY <1>0, <1>10, Zenon DEF Finalize, Leave
  <2> QED
    BY <1>e, <2>1, Zenon
<1> QED
  BY <1>1, <1>2, <1>3, <1>4, <1>5, <1>6, <1>7, <1>8, <1>9, <1>10, Zenon DEF Handle, Step

(***************************************************************************)
(* However many requests run at once, beside the collector: once all are   *)
(* answered the artifacts show running and candidate as the store has      *)
(* them, unless one could not be written or was written while another      *)
(* refresh held other data.                                                *)
(***************************************************************************)
THEOREM ArtifactsAreCurrent ==
  ASSUME Artifacts = TRUE, {"noartifact", "crossed"} \subseteq Recorded
  PROVE  Spec => []ArtifactsFollowStore
<1>1. Init => ArtInv
  <2> SUFFICES ASSUME Init, NEW ds \in Datastores PROVE Fresh(ds)
    BY Zenon DEF ArtInv
  <2>1. art[ds] = Stored(ds)
    BY Zenon DEF Init, StoreInit, Stored
  <2>2. \A p \in Slots : pc[p] = "idle"
    BY Zenon DEF Init
  <2> QED
    BY <2>1, <2>2, Zenon DEF Fresh, Holds
<1>2. Inv /\ TypeOK /\ ArtInv /\ [Next]_vars => ArtInv'
  <2>1. ASSUME ArtInv, UNCHANGED vars PROVE ArtInv'
    BY <2>1, Zenon DEF vars, ArtInv, Fresh, WillShow, WillRead, Holds, Stored
  <2>2. TypeOK => DOMAIN art = Datastores
    BY Zenon DEF TypeOK
  <2> QED
    BY <2>1, <2>2, ArtStep, Zenon DEF Next
<1>3. TypeOK /\ ArtInv => ArtifactsFollowStore
  <2> SUFFICES ASSUME TypeOK, ArtInv, Quiet, history \cap {"noartifact", "crossed"} = {}
               PROVE  art = [ds \in Datastores |-> IF ds = "running" THEN running ELSE cand]
    BY Zenon DEF ArtifactsFollowStore
  <2>1. \A ds \in Datastores : art[ds] = Stored(ds)
    BY Zenon DEF ArtInv, Fresh, WillShow, WillRead, Holds, Quiet
  <2>2. art \in [Datastores -> Configs]
    BY Zenon DEF TypeOK
  <2> QED
    BY <2>1, <2>2 DEF Stored
<1> QED
  BY <1>1, <1>2, <1>3, InvHolds, TypeCorrect, PTL DEF Spec

=============================================================================
