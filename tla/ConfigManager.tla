---------------------------- MODULE ConfigManager ----------------------------
(***************************************************************************)
(* The NETCONF configuration manager, internal/ems/netconfcm/manager.go,   *)
(* as the control API (internal/ems/services/config_control.go) and the    *)
(* session collector (netconf_session_gc.go) call it: every request runs   *)
(* in a goroutine of its own, and takes the mutexes of the lock manager,   *)
(* the store and the manager one after the other, never two at a time.     *)
(* A step here is what happens under one mutex, or one file or container   *)
(* operation; requests interleave between steps.  While a commit writes    *)
(* its files, one after the other, it holds the mutex of the store, and    *)
(* only the eNB, which needs no mutex to read them, sees the files between *)
(* two renames.                                                            *)
(*                                                                         *)
(* The lock manager is used through what it promises (LeaseLock), the      *)
(* store through its methods (ConfigStore).                                *)
(***************************************************************************)
EXTENDS LeaseLock, ConfigStore

CONSTANTS
  Slots,     \* the requests that may be in progress at a time
  Calls,     \* Calls[p]: the handlers that are called in slot p
  Down,      \* the eNB container is not running
  Artifacts, \* whether the paths of the artifacts are set (ArtifactPaths)
  Recorded   \* the incidents that history keeps

Incidents ==
  {"disturbed",   \* a commit's store was changed before the commit was done
   "broken",      \* a file could not be restored
   "norestart",   \* a restart failed or had no target
   "midway",      \* the eNB was started on files of a commit that had some to go
   "noartifact",  \* an artifact could not be rendered or written
   "crossed",     \* an artifact was written while another refresh held other data
   "anonymous",   \* an edit was made without a session
   "unreported",  \* lock, unlock or ensure dropped a lease and told nobody
   "late",        \* an edit was noted for a session that had ended meanwhile
   "unowned",     \* the owner was cleared when another had edited after the reset
   "overtaken"}   \* the candidate was locked under a request past its ensure

ASSUME ManagerConstants == Artifacts \in BOOLEAN /\ Recorded \subseteq Incidents

VARIABLES
  lastEdit,   \* m.lastEditSession, with Anon for 0
  art,        \* the artifacts: what the NETCONF server shows for each datastore
  enb,        \* the configuration the eNB was started with, or Down
  restarting, \* s.mu of ConfigControl, held by a requested restart
  pc,         \* pc[p]: the next step of the request in slot p
  req,        \* req[p]: the request's handler, session and arguments
  mem,        \* mem[p]: what the handler has read, a backup or a snapshot, and the
              \* files it has yet to write
  history     \* the incidents of this behaviour so far

reqVars == <<pc, req, mem>>
managerVars == <<lastEdit, art, enb, restarting, history>>
vars == <<locks, sessions, running, cand, dirty, dirtyKeys, disk,
          lastEdit, art, enb, restarting, pc, req, mem, history>>

NoReq == [op |-> "none", id |-> Anon, chg |-> << >>, gone |-> {}]
NoCfg == << >>
NoMem == [backup |-> NoCfg, saved |-> {}, todo |-> {}, snap |-> [ds \in Datastores |-> NoCfg]]

-----------------------------------------------------------------------------
(* Where a request stands *)

(* Where the files are written, with s.mu of the store held: PersistCandidate, its
   return after a failed rename, and RollbackPersist *)
Writing == {"rename", "restore", "undo"}

(* Nobody else holds s.mu of the store *)
StoreFree(p) == \A q \in Slots \ {p} : pc[q] \notin Writing

(* p is between the writing of the files and the end of its commit *)
CommitWindow == Writing \cup {"stop", "start", "ready", "finalize", "rollback"}
InCommit(p) == req[p].op = "commit" /\ pc[p] \in CommitWindow

Begin(p, r, step) ==
  /\ pc' = [pc EXCEPT ![p] = step]
  /\ req' = [req EXCEPT ![p] = IF step = "idle" THEN NoReq ELSE r]
  /\ UNCHANGED mem

Go(p, step) == pc' = [pc EXCEPT ![p] = step] /\ UNCHANGED <<req, mem>>

Return(p) ==
  /\ pc' = [pc EXCEPT ![p] = "idle"]
  /\ req' = [req EXCEPT ![p] = NoReq]
  /\ mem' = [mem EXCEPT ![p] = NoMem]

(* RefreshArtifacts comes last; it does nothing without paths to write to *)
GoRefresh(p) == IF Artifacts THEN Go(p, "refresh") ELSE Return(p)

Record(incidents) == history' = history \cup (incidents \cap Recorded)

(* p was let in by ensure, and has yet to do what it was let in for *)
Admitted(p) ==
  \/ pc[p] \in {"diff", "edit", "ensure", "persist"}
  \/ pc[p] = "reset" /\ req[p].op = "discard"

(* The history of an operation of the lock manager that drops the leases L and
   S on its way and grants the candidate to id, if it was free *)
Drop(L, S) == Record(IF L \cup S = {} THEN {} ELSE {"unreported"})

Grant(ds, id, L, S) ==
  Record((IF L \cup S = {} THEN {} ELSE {"unreported"}) \cup
         (IF /\ ds = "candidate"
             /\ AfterExpiry(L)[ds] = None
             /\ \E q \in Slots : Admitted(q) /\ req[q].id # id
          THEN {"overtaken"} ELSE {}))

(* The history of a step of p that changes the store: another's commit in
   progress is disturbed *)
Disturb(p, more) ==
  Record(more \cup IF /\ \E q \in Slots \ {p} : InCommit(q)
                      /\ storeVars' # storeVars
                  THEN {"disturbed"} ELSE {})

LeaseOnly == UNCHANGED <<storeVars, lastEdit, art, enb, restarting>>
StoreOnly(p) ==
  /\ Disturb(p, {})
  /\ UNCHANGED <<leaseVars, lastEdit, art, enb, restarting>>

-----------------------------------------------------------------------------
(* Lock, KeepAlive: one step under the lock manager's mutex *)
HandleLock(p) ==
  /\ \E ds \in Datastores, id \in Ids, L \in SUBSET Expirable, S \in SUBSET sessions :
       Lock(ds, id, L, S) /\ Grant(ds, id, L, S)
  /\ Begin(p, NoReq, "idle")
  /\ LeaseOnly

HandleKeepAlive(p) ==
  /\ \E K \in SUBSET Sessions : KeepAlive(K)
  /\ Begin(p, NoReq, "idle")
  /\ LeaseOnly
  /\ UNCHANGED history

(* Unlock: if the lock manager reports no error, and it reports none when the
   datastore was not locked, the candidate is reset *)
HandleUnlock(p) ==
  /\ \E ds \in Datastores, id \in Ids, L \in SUBSET Expirable, S \in SUBSET sessions :
       /\ Unlock(ds, id, L, S)
       /\ Begin(p, [NoReq EXCEPT !.op = "unlock"],
                IF Admits(AfterExpiry(L), ds, id) THEN "reset" ELSE "idle")
       /\ Drop(L, S)
  /\ LeaseOnly

(* Fault: ensure is asked about the other datastore *)
EnsureWrongDatastore(p, op, id, chg, next) ==
  /\ \E L \in SUBSET Expirable, S \in SUBSET sessions :
       /\ Ensure("running", id, L, S)
       /\ Begin(p, [NoReq EXCEPT !.op = op, !.id = id, !.chg = chg],
                IF Admits(AfterExpiry(L), "running", id) THEN next ELSE "idle")
       /\ Drop(L, S)
  /\ LeaseOnly

(* The ensure of the candidate, on behalf of handler op *)
EnsureCandidate(p, op, id, chg, next) ==
  /\ \E L \in SUBSET Expirable, S \in SUBSET sessions :
       /\ Ensure("candidate", id, L, S)
       /\ Begin(p, [NoReq EXCEPT !.op = op, !.id = id, !.chg = chg],
                IF Admits(AfterExpiry(L), "candidate", id) THEN next ELSE "idle")
       /\ Drop(L, S)
  /\ LeaseOnly

-----------------------------------------------------------------------------
(* EditConfig *)
HandleEditConfig(p) ==
  \E id \in Ids, chg \in Changes : EnsureCandidate(p, "edit", id, chg, "diff")

(* extractChanges keeps the leaves that differ from the candidate it reads.
   With none left, for a bad option or payload, and for test-only, the request
   ends here. *)
Diff(p) ==
  LET chg == req[p].chg
      differs == {k \in DOMAIN chg : chg[k] # cand[k]}
  IN /\ pc[p] = "diff"
     /\ StoreFree(p)
     /\ \/ Return(p)
        \/ /\ differs # {}
           /\ pc' = [pc EXCEPT ![p] = "edit"]
           /\ req' = [req EXCEPT ![p].chg = [k \in differs |-> chg[k]]]
           /\ UNCHANGED mem
     /\ UNCHANGED <<leaseVars, storeVars, managerVars>>

(* store.Edit *)
Edit(p) ==
  /\ pc[p] = "edit"
  /\ StoreFree(p)
  /\ \/ /\ EditAccepted(req[p].chg)
        /\ Go(p, "note")
        /\ Disturb(p, IF req[p].id = Anon THEN {"anonymous"} ELSE {})
     \/ /\ EditRefused(req[p].chg)
        /\ Return(p)
        /\ Disturb(p, {})
  /\ UNCHANGED <<leaseVars, lastEdit, art, enb, restarting>>

(* noteCandidateEdit *)
Note(p) ==
  /\ pc[p] = "note"
  /\ lastEdit' = IF req[p].id = Anon THEN lastEdit ELSE req[p].id
  /\ GoRefresh(p)
  /\ Record(IF cand # running /\ req[p].id \notin sessions \cup {Anon} THEN {"late"} ELSE {})
  /\ UNCHANGED <<leaseVars, storeVars, art, enb, restarting>>

(* EditFlat: store.Edit without a lock test and without a note *)
HandleEditFlat(p) ==
  /\ StoreFree(p)
  /\ \E chg \in Changes :
       \/ /\ EditAccepted(chg)
          /\ Begin(p, [NoReq EXCEPT !.op = "flat"],
                   IF Artifacts THEN "refresh" ELSE "idle")
          /\ Disturb(p, {"anonymous"})
       \/ /\ EditRefused(chg)
          /\ Begin(p, NoReq, "idle")
          /\ Disturb(p, {})
  /\ UNCHANGED <<leaseVars, lastEdit, art, enb, restarting>>

-----------------------------------------------------------------------------
(* Fault: a handler that clears nothing forgets the artifacts as well *)
ResetUnrendered(p) ==
  /\ pc[p] \in {"reset", "resetonly"}
  /\ StoreFree(p)
  /\ ResetCandidate
  /\ IF pc[p] = "reset" THEN Go(p, "clear") ELSE Return(p)
  /\ StoreOnly(p)

(* ResetCandidate, clearCandidateEditOwner and RefreshArtifacts end most
   handlers; "resetonly" skips the clearing *)
Reset(p) ==
  /\ pc[p] \in {"reset", "resetonly"}
  /\ StoreFree(p)
  /\ ResetCandidate
  /\ IF pc[p] = "reset" THEN Go(p, "clear") ELSE GoRefresh(p)
  /\ StoreOnly(p)

Clear(p) ==
  /\ pc[p] \in {"clear", "clearfirst"}
  /\ lastEdit' = Anon
  /\ IF pc[p] = "clear" THEN GoRefresh(p) ELSE Go(p, "resetonly")
  /\ Record(IF /\ pc[p] = "clear" /\ cand # running /\ lastEdit # Anon
               /\ \A q \in Slots : pc[q] # "note"
            THEN {"unowned"} ELSE {})
  /\ UNCHANGED <<leaseVars, storeVars, art, enb, restarting>>

(* RefreshArtifacts reads the store twice and then writes two files; an error
   ends it *)
ReadRunning(p) ==
  /\ pc[p] = "refresh"
  /\ StoreFree(p)
  /\ mem' = [mem EXCEPT ![p].snap["running"] = running]
  /\ pc' = [pc EXCEPT ![p] = "readcand"]
  /\ UNCHANGED <<leaseVars, storeVars, managerVars, req>>

ReadCandidate(p) ==
  /\ pc[p] = "readcand"
  /\ StoreFree(p)
  /\ mem' = [mem EXCEPT ![p].snap["candidate"] = cand]
  /\ pc' = [pc EXCEPT ![p] = "writerun"]
  /\ UNCHANGED <<leaseVars, storeVars, managerVars, req>>

(* p has a snapshot of ds that it has not written yet *)
Holds(p, ds) ==
  \/ ds = "running" /\ pc[p] \in {"readcand", "writerun"}
  \/ ds = "candidate" /\ pc[p] \in {"writerun", "writecand"}

Publish(p, ds) ==
  /\ art' = [art EXCEPT ![ds] = mem[p].snap[ds]]
  /\ Record(IF \E q \in Slots \ {p} : Holds(q, ds) /\ mem[q].snap[ds] # mem[p].snap[ds]
            THEN {"crossed"} ELSE {})

WriteArtifact(p) ==
  /\ \/ pc[p] = "writerun" /\ Publish(p, "running") /\ Go(p, "writecand")
     \/ pc[p] = "writecand" /\ Publish(p, "candidate") /\ Return(p)
     \/ /\ pc[p] \in {"writerun", "writecand"}
        /\ Record({"noartifact"})
        /\ Return(p)
        /\ UNCHANGED art
  /\ UNCHANGED <<leaseVars, storeVars, lastEdit, enb, restarting>>

-----------------------------------------------------------------------------
HandleDiscard(p) ==
  \E id \in Ids : EnsureCandidate(p, "discard", id, << >>, "reset")

(* SessionClose: the candidate is reset if the session held its lock or, when
   it did not, was the last to edit it *)
HandleClose(p) ==
  /\ \E s \in Sessions :
       /\ ReleaseSession(s)
       /\ Begin(p, [NoReq EXCEPT !.op = "close", !.gone = {s}],
                IF locks["candidate"] = s THEN "resetonly" ELSE "consume")
  /\ LeaseOnly
  /\ UNCHANGED history

(* Fault: the owner of an expired lock is read after the lock is deleted *)
HandleSweepLate(p) ==
  /\ \A q \in Slots : req[q].op # "sweep"
  /\ \E L \in SUBSET Expirable, S \in SUBSET sessions :
       LET expired == S \cup {AfterExpiry(L)[ds] : ds \in L}
       IN /\ Sweep(L, S)
          /\ Begin(p, [NoReq EXCEPT !.op = "sweep", !.gone = expired],
                   IF "candidate" \in L THEN "resetonly"
                   ELSE IF expired # {} THEN "consume" ELSE "idle")
  /\ LeaseOnly
  /\ UNCHANGED history

(* Fault: SweepExpiredSessions looks at the candidate lock only *)
HandleSweepLocks(p) ==
  /\ \A q \in Slots : req[q].op # "sweep"
  /\ \E L \in SUBSET Expirable, S \in SUBSET sessions :
       /\ Sweep(L, S)
       /\ Begin(p, [NoReq EXCEPT !.op = "sweep"],
                IF "candidate" \in L THEN "resetonly" ELSE "idle")
  /\ LeaseOnly
  /\ UNCHANGED history

(* SweepExpiredSessions, called from the one goroutine of NetconfSessionGC *)
HandleSweep(p) ==
  /\ \A q \in Slots : req[q].op # "sweep"
  /\ \E L \in SUBSET Expirable, S \in SUBSET sessions :
       LET expired == S \cup {locks[ds] : ds \in L}
       IN /\ Sweep(L, S)
          /\ Begin(p, [NoReq EXCEPT !.op = "sweep", !.gone = expired],
                   IF "candidate" \in L THEN "resetonly"
                   ELSE IF expired # {} THEN "consume" ELSE "idle")
  /\ LeaseOnly
  /\ UNCHANGED history

(* consumeCandidateEditOwner, expiredCandidateEditOwner *)
Consume(p) ==
  /\ pc[p] = "consume"
  /\ IF lastEdit \in req[p].gone
       THEN lastEdit' = Anon /\ Go(p, "resetonly")
       ELSE UNCHANGED lastEdit /\ Return(p)
  /\ UNCHANGED <<leaseVars, storeVars, art, enb, restarting, history>>

(* ResetSessions *)
HandleReset(p) ==
  /\ ResetAll
  /\ Begin(p, [NoReq EXCEPT !.op = "resetall"], "clearfirst")
  /\ LeaseOnly
  /\ UNCHANGED history

-----------------------------------------------------------------------------
(* Commit *)
HandleCommit(p) ==
  \E id \in Ids : EnsureCandidate(p, "commit", id, << >>, "ensure")

EnsureRunning(p) ==
  /\ pc[p] = "ensure"
  /\ \E L \in SUBSET Expirable, S \in SUBSET sessions :
       /\ Ensure("running", req[p].id, L, S)
       /\ IF Admits(AfterExpiry(L), "running", req[p].id)
            THEN Go(p, "persist") ELSE Return(p)
       /\ Drop(L, S)
  /\ LeaseOnly

(* PersistCandidate up to its first rename, after a validation that cannot fail, see
   ConfigIsValid.  Until then an error leaves the files as they are. *)
Persist(p) ==
  /\ pc[p] = "persist"
  /\ StoreFree(p)
  /\ \/ /\ Validates(cand)
        /\ mem' = [mem EXCEPT ![p] = [NoMem EXCEPT !.backup = disk, !.saved = dirty, !.todo = dirty]]
        /\ pc' = [pc EXCEPT ![p] = "rename"]
        /\ req' = [req EXCEPT ![p].id = Anon]   \* not used any more
     \/ Return(p)
  /\ UNCHANGED <<leaseVars, storeVars, managerVars>>

(* p is done with file f, or turns to the files F *)
Done(p, f) == mem' = [mem EXCEPT ![p].todo = @ \ {f}] /\ UNCHANGED <<pc, req>>
Turn(p, step, F) ==
  /\ pc' = [pc EXCEPT ![p] = step]
  /\ mem' = [mem EXCEPT ![p].todo = F]
  /\ UNCHANGED req

(* Fault: needsRestart is taken for false *)
PersistedForgetsRestart(p) ==
  /\ mem[p].todo = {}
  /\ Go(p, "finalize")
  /\ UNCHANGED <<storeVars, history>>

(* All files are written.  A restart is due if there was one to write and the eNB's
   serial has a container. *)
Persisted(p) ==
  /\ mem[p].todo = {}
  /\ \/ mem[p].saved # {} /\ Go(p, "stop") /\ UNCHANGED history
     \/ Go(p, "finalize") /\ Record(IF mem[p].saved = {} THEN {} ELSE {"norestart"})
  /\ UNCHANGED storeVars

(* commitStagedFiles, one file after the other (in any order here); if a rename
   fails, all files are restored from the backup *)
Rename(p) ==
  /\ pc[p] = "rename"
  /\ \/ \E f \in mem[p].todo :
          /\ disk' = Patched({f})
          /\ UNCHANGED memVars
          /\ Done(p, f)
          /\ Disturb(p, {})
     \/ /\ mem[p].todo # {}
        /\ Turn(p, "restore", mem[p].saved)
        /\ UNCHANGED <<storeVars, history>>
     \/ Persisted(p)
  /\ UNCHANGED <<leaseVars, lastEdit, art, enb, restarting>>

(* The store is done with; ResetCandidate comes next *)
Leave(p) ==
  /\ pc' = [pc EXCEPT ![p] = "reset"]
  /\ mem' = [mem EXCEPT ![p] = NoMem]
  /\ UNCHANGED req

(* restoreDirtyFilesLocked for PersistCandidate, whose caller gives up, and for
   RollbackPersist, whose error is ignored; it stops at the first file it cannot
   write *)
Restore(p) ==
  /\ pc[p] \in {"restore", "undo"}
  /\ \/ \E f \in mem[p].todo :
          /\ RollbackPersist(mem[p].backup, mem[p].saved, {f})
          /\ Done(p, f)
          /\ Disturb(p, {})
     \/ /\ IF pc[p] = "restore" THEN Return(p) ELSE Leave(p)
        /\ Record(IF disk = Restored(mem[p].backup, mem[p].saved, mem[p].todo)
                  THEN {} ELSE {"broken"})
        /\ UNCHANGED storeVars
  /\ UNCHANGED <<leaseVars, lastEdit, art, enb, restarting>>

(* Fault: a failed restart resets the candidate and leaves the files *)
RestartFailedNoRollback(p) ==
  /\ IF req[p].op = "commit" THEN Go(p, "reset") ELSE Return(p)
  /\ restarting' = (IF req[p].op = "commit" THEN restarting ELSE FALSE)
  /\ Record({"norestart"})

(* The restart that a commit or handleRestart waits for: the container is
   stopped, started and watched.  It may fail at each point, and a failed stop
   may still have stopped it. *)
RestartFailed(p) ==
  /\ IF req[p].op = "commit" THEN Go(p, "rollback") ELSE Return(p)
  /\ restarting' = (IF req[p].op = "commit" THEN restarting ELSE FALSE)
  /\ Record({"norestart"})

StopENB(p) ==
  /\ pc[p] = "stop"
  /\ \/ /\ enb' = Down
        /\ Go(p, "start")
        /\ UNCHANGED <<restarting, history>>
     \/ /\ enb' \in {enb, Down}
        /\ RestartFailed(p)
  /\ UNCHANGED <<leaseVars, storeVars, lastEdit, art>>

(* A commit that may yet fail has written some of its files *)
HalfWritten ==
  \E q \in Slots : /\ pc[q] \in {"rename", "restore"}
                   /\ mem[q].todo # {}
                   /\ disk # mem[q].backup

(* The eNB reads its files when it starts; starting a running container is
   answered 304 and changes nothing.  A start that timed out may have worked. *)
StartENB(p) ==
  /\ pc[p] = "start"
  /\ \/ /\ enb' = IF enb = Down THEN disk ELSE enb
        /\ Go(p, "ready")
        /\ Record(IF enb = Down /\ HalfWritten THEN {"midway"} ELSE {})
        /\ UNCHANGED restarting
     \/ /\ enb' \in {enb, IF enb = Down THEN disk ELSE enb}
        /\ RestartFailed(p)
  /\ UNCHANGED <<leaseVars, storeVars, lastEdit, art>>

ENBReady(p) ==
  /\ pc[p] = "ready"
  /\ \/ /\ enb # Down
        /\ IF req[p].op = "commit" THEN Go(p, "finalize") ELSE Return(p)
        /\ restarting' = (IF req[p].op = "commit" THEN restarting ELSE FALSE)
        /\ UNCHANGED history
     \/ RestartFailed(p)
  /\ UNCHANGED <<leaseVars, storeVars, lastEdit, art, enb>>

(* FinalizeCommit; its validation cannot fail, see ConfigIsValid *)
Finalize(p) ==
  /\ pc[p] = "finalize"
  /\ StoreFree(p)
  /\ FinalizeCommit
  /\ Leave(p)
  /\ StoreOnly(p)

(* RollbackPersist gets hold of s.mu: of the files saved it writes those that are
   dirty by now *)
Rollback(p) ==
  /\ pc[p] = "rollback"
  /\ StoreFree(p)
  /\ Turn(p, "undo", mem[p].saved \cap dirty)
  /\ UNCHANGED <<leaseVars, storeVars, managerVars>>

(* handleRestart: one at a time, but not excluding the restart of a commit *)
HandleRestart(p) ==
  /\ ~restarting
  /\ restarting' = TRUE
  /\ Begin(p, [NoReq EXCEPT !.op = "restart"], "stop")
  /\ UNCHANGED <<leaseVars, storeVars, lastEdit, art, enb, history>>

-----------------------------------------------------------------------------
(* NewManager on a fresh store, which renders the artifacts *)
Init ==
  /\ LeaseInit
  /\ StoreInit
  /\ lastEdit = Anon
  /\ art = [ds \in Datastores |-> disk]
  /\ enb = disk
  /\ restarting = FALSE
  /\ pc = [p \in Slots |-> "idle"]
  /\ req = [p \in Slots |-> NoReq]
  /\ mem = [p \in Slots |-> NoMem]
  /\ history = {}

Handle(p) ==
  /\ pc[p] = "idle"
  /\ \/ "lock" \in Calls[p] /\ HandleLock(p)
     \/ "unlock" \in Calls[p] /\ HandleUnlock(p)
     \/ "keepalive" \in Calls[p] /\ HandleKeepAlive(p)
     \/ "edit" \in Calls[p] /\ HandleEditConfig(p)
     \/ "flat" \in Calls[p] /\ HandleEditFlat(p)
     \/ "discard" \in Calls[p] /\ HandleDiscard(p)
     \/ "commit" \in Calls[p] /\ HandleCommit(p)
     \/ "restart" \in Calls[p] /\ HandleRestart(p)
     \/ "close" \in Calls[p] /\ HandleClose(p)
     \/ "sweep" \in Calls[p] /\ HandleSweep(p)
     \/ "resetall" \in Calls[p] /\ HandleReset(p)

Step(p) ==
  \/ Diff(p) \/ Edit(p) \/ Note(p)
  \/ Reset(p) \/ Clear(p) \/ Consume(p)
  \/ ReadRunning(p) \/ ReadCandidate(p) \/ WriteArtifact(p)
  \/ EnsureRunning(p) \/ Persist(p) \/ Rename(p) \/ Restore(p)
  \/ StopENB(p) \/ StartENB(p) \/ ENBReady(p)
  \/ Finalize(p) \/ Rollback(p)

Next == \E p \in Slots : Handle(p) \/ Step(p)

Spec == Init /\ [][Next]_vars

-----------------------------------------------------------------------------
PCs == CommitWindow \cup
       {"idle", "diff", "edit", "note", "reset", "resetonly", "clear", "clearfirst",
        "refresh", "readcand", "writerun", "writecand", "consume", "ensure", "persist"}

Ops == {"none", "edit", "flat", "discard", "commit", "restart", "unlock",
        "close", "sweep", "resetall"}

Requests ==
  [op : Ops, id : Ids, chg : Changes \cup {<< >>}, gone : SUBSET Sessions]

Memories ==
  [backup : Configs \cup {NoCfg}, saved : SUBSET Files, todo : SUBSET Files,
   snap : [Datastores -> Configs \cup {NoCfg}]]

(* What request p has read by the time it uses it *)
HasRead(p) ==
  /\ pc[p] \in {"diff", "edit"} => req[p].chg \in Changes
  /\ pc[p] \in Writing \cup {"rollback"} \/ InCommit(p) => mem[p].backup \in Configs
  /\ pc[p] \in {"readcand", "writerun"} => mem[p].snap["running"] \in Configs
  /\ pc[p] \in {"writerun", "writecand"} => mem[p].snap["candidate"] \in Configs

ControlOK ==
  /\ pc \in [Slots -> PCs]
  /\ req \in [Slots -> Requests]
  /\ mem \in [Slots -> Memories]
  /\ \A p \in Slots : HasRead(p)

TypeOK ==
  /\ ControlOK
  /\ locks \in [Datastores -> Ids \cup {None}]
  /\ sessions \in SUBSET Sessions
  /\ running \in Configs
  /\ cand \in Configs
  /\ dirty \in SUBSET Files
  /\ dirtyKeys \in SUBSET Leaves
  /\ disk \in Configs
  /\ lastEdit \in Ids
  /\ art \in [Datastores -> Configs]
  /\ enb \in Configs \cup {Down}
  /\ restarting \in BOOLEAN
  /\ history \in SUBSET Incidents

(* No commit has written files that it has not yet answered for *)
NoOpenCommit == \A p \in Slots : ~InCommit(p)

(***************************************************************************)
(* Under every interleaving of requests, the candidate and the running     *)
(* configuration validate: the validation of Commit and FinalizeCommit     *)
(* (manager.go:192, store.go:410) never fails, and the error path at       *)
(* manager.go:216-222 is never taken.                                      *)
(***************************************************************************)
ConfigIsValid == Validates(running) /\ Validates(cand)

(***************************************************************************)
(* Once no commit is open, files and running configuration agree, if no    *)
(* other request changed the store while a commit waited for its restart   *)
(* (manager.go:196-216 holds no lock) and no backup failed to be restored. *)
(***************************************************************************)
FilesMatchRunning ==
  NoOpenCommit /\ history \cap {"disturbed", "broken"} = {} =>
    \A k \in Leaves : disk[k] \in {running[k], ReadBack[running[k]]}

(***************************************************************************)
(* If every restart succeeded and no backup failed to be restored, then    *)
(* with no restart and no commit in progress the eNB runs what the files   *)
(* say: each commit's restart comes after its files are in place (store.go *)
(* :398, manager.go:199), whatever other restarts and commits overlap it,  *)
(* also one whose renames fail.  The exception is an eNB that another      *)
(* request started between two renames: nothing stops that (config_control *)
(* .go takes no mutex of the store).                                       *)
(***************************************************************************)
ENBRunsFiles ==
  /\ \A p \in Slots : pc[p] \notin CommitWindow
  /\ history \cap {"broken", "norestart", "midway"} = {}
  => enb = disk

(***************************************************************************)
(* A request works on a candidate that another session holds only if the   *)
(* lock was granted after its ensure: between ensure (manager.go:83, 173,  *)
(* 186) and the store there is no other way past the lock.                 *)
(***************************************************************************)
OnlyHolderProceeds ==
  "overtaken" \notin history =>
    \A p \in Slots : Admitted(p) => locks["candidate"] \in {None, req[p].id}

(* No request is in progress *)
Quiet == \A p \in Slots : pc[p] = "idle"

(***************************************************************************)
(* Uncommitted edits always have an owner that the lock manager still      *)
(* tracks, so that its close or its expiry discards them, however requests *)
(* interleave; unless they were made without a session, or the owner's     *)
(* lease was dropped by a lock, unlock or ensure (locks.go:51, 72, 97),    *)
(* whose callers ignore what they expire, or a session ended while its     *)
(* edit was on its way to noteCandidateEdit (manager.go:114), or an edit   *)
(* was made and noted between ResetCandidate and clearCandidateEditOwner   *)
(* (manager.go:167, 176, 223).                                             *)
(***************************************************************************)
EditsHaveALiveOwner ==
  /\ Quiet
  /\ cand # running
  /\ history \cap {"anonymous", "unreported", "late", "unowned"} = {}
  => lastEdit \in sessions

(***************************************************************************)
(* Between requests the artifacts show what the store holds, however the   *)
(* requests before interleaved: every path of every handler that changes   *)
(* the store ends in RefreshArtifacts.  The exceptions are an artifact     *)
(* that could not be written and two refreshes that crossed: each reads    *)
(* the store and writes later (manager.go:55-68), the collector's beside   *)
(* those of the requests.                                                  *)
(***************************************************************************)
ArtifactsFollowStore ==
  Quiet /\ history \cap {"noartifact", "crossed"} = {} =>
    art = [ds \in Datastores |-> IF ds = "running" THEN running ELSE cand]

(* Running and candidate configuration behave like a NETCONF datastore *)
Datastore == INSTANCE CandidateDatastore

(***************************************************************************)
(* However requests interleave, a client sees a candidate datastore: the   *)
(* running configuration only ever becomes the candidate, and the          *)
(* candidate changes by accepted edits and by resets.                      *)
(***************************************************************************)
ImplementsDatastore == Datastore!SteadySpec
=============================================================================
