------------------------------ MODULE FileCommit ------------------------------
(***************************************************************************)
(* How a commit reaches the files: PersistCandidate and RollbackPersist of *)
(* internal/ems/configuration/store.go taken apart into the single renames *)
(* they are made of, with every I/O error they handle and with a crash of  *)
(* the agent between any two of them, after which NewStore reads the files *)
(* again.  The steps around them are those of Manager.Commit               *)
(* (internal/ems/netconfcm/manager.go) for one client at a time.           *)
(***************************************************************************)
EXTENDS ConfigStore

CONSTANT Rank   \* Rank[f]: the order in which the files are written

ASSUME RankAssumption ==
  /\ Rank \in [Files -> Nat]
  /\ \A f, g \in Files : Rank[f] = Rank[g] => f = g

VARIABLES
  step,     \* "idle", "rename", "persisted", "restore" or "rollback"
  todo,     \* the files that the loop of this step still has to write
  backup,   \* the files as backupDirtyFilesLocked read them
  accepted, \* history: the leaves of the accepted edits since the last reset
  broken    \* history: a backup could not be written back

vars == <<running, cand, dirty, dirtyKeys, disk,
          step, todo, backup, accepted, broken>>

first == CHOOSE f \in todo : \A g \in todo : Rank[f] <= Rank[g]

Edit ==
  /\ step = "idle"
  /\ \E chg \in Changes :
       \/ EditAccepted(chg) /\ accepted' = accepted \cup DOMAIN chg
       \/ EditRefused(chg) /\ UNCHANGED accepted
  /\ UNCHANGED <<step, todo, backup, broken>>

(* DiscardChanges and the like *)
Reset ==
  /\ step = "idle"
  /\ ResetCandidate
  /\ accepted' = {}
  /\ UNCHANGED <<step, todo, backup, broken>>

(* PersistCandidate up to the temporary files.  If a backup or a temporary file
   fails, no file has changed and it returns: that step changes nothing here. *)
Stage ==
  /\ step = "idle"
  /\ Validates(cand)
  /\ backup' = disk
  /\ step' = "rename"
  /\ todo' = dirty
  /\ UNCHANGED <<running, cand, dirty, dirtyKeys, disk, accepted, broken>>

(* commitStagedFiles: one rename of a temporary file over its target *)
Rename ==
  /\ step = "rename"
  /\ todo # {}
  /\ disk' = Patched({first})
  /\ todo' = todo \ {first}
  /\ UNCHANGED <<running, cand, dirty, dirtyKeys, step, backup, accepted, broken>>

(* a rename fails: the files are restored from the backup, all of them *)
RenameFails ==
  /\ step = "rename"
  /\ todo # {}
  /\ step' = "restore"
  /\ todo' = dirty
  /\ UNCHANGED <<running, cand, dirty, dirtyKeys, disk, backup, accepted, broken>>

Persisted ==
  /\ step = "rename"
  /\ todo = {}
  /\ step' = "persisted"
  /\ UNCHANGED <<running, cand, dirty, dirtyKeys, disk, todo, backup, accepted, broken>>

(* The eNB restarted, or needed no restart: FinalizeCommit, then the
   ResetCandidate of Manager.Commit, which changes nothing more *)
Finalize ==
  /\ step = "persisted"
  /\ FinalizeCommit
  /\ step' = "idle"
  /\ accepted' = {}
  /\ UNCHANGED <<todo, backup, broken>>

(* Fault: Manager.Commit resets the candidate before it rolls back, which
   clears the marks that restoreDirtyFilesLocked goes by *)
ResetThenRollback ==
  /\ step = "persisted"
  /\ dirty # {}
  /\ ResetCandidate
  /\ step' = "idle"
  /\ accepted' = {}
  /\ UNCHANGED <<todo, backup, broken>>

(* The restart failed: RollbackPersist.  Only a commit that wrote a file asks
   for a restart (backup.Dirty). *)
RestartFails ==
  /\ step = "persisted"
  /\ dirty # {}
  /\ step' = "rollback"
  /\ todo' = dirty
  /\ UNCHANGED <<running, cand, dirty, dirtyKeys, disk, backup, accepted, broken>>

(* restoreDirtyFilesLocked: one file of the backup written back *)
Restore ==
  /\ step \in {"restore", "rollback"}
  /\ todo # {}
  /\ disk' = Restored(backup, dirty, {first})
  /\ todo' = todo \ {first}
  /\ UNCHANGED <<running, cand, dirty, dirtyKeys, step, backup, accepted, broken>>

(* Back in PersistCandidate the candidate is kept for another try; back in
   Manager.Commit, after a rollback, it is reset *)
AfterRestore ==
  /\ step' = "idle"
  /\ todo' = {}
  /\ UNCHANGED backup
  /\ \/ /\ step = "restore"
        /\ UNCHANGED <<running, cand, dirty, dirtyKeys, disk, accepted>>
     \/ /\ step = "rollback"
        /\ ResetCandidate
        /\ accepted' = {}

(* restoreDirtyFilesLocked stops at the first write that fails *)
RestoreFails ==
  /\ step \in {"restore", "rollback"}
  /\ todo # {}
  /\ AfterRestore
  /\ broken' = TRUE

RestoreDone ==
  /\ step \in {"restore", "rollback"}
  /\ todo = {}
  /\ AfterRestore
  /\ UNCHANGED broken

(* The agent dies and starts again: NewStore parses the files.  On files that do
   not validate it does not start, and nothing more happens here. *)
Crash ==
  /\ Validates(disk)
  /\ running' = disk
  /\ cand' = disk
  /\ dirty' = {}
  /\ dirtyKeys' = {}
  /\ step' = "idle"
  /\ todo' = {}
  /\ accepted' = {}
  /\ broken' = FALSE
  /\ UNCHANGED <<disk, backup>>

Init ==
  /\ StoreInit
  /\ step = "idle"
  /\ todo = {}
  /\ backup = disk
  /\ accepted = {}
  /\ broken = FALSE

Next == \/ Edit \/ Reset
        \/ Stage \/ Rename \/ RenameFails \/ Persisted
        \/ Finalize \/ RestartFails
        \/ Restore \/ RestoreFails \/ RestoreDone
        \/ Crash

Spec == Init /\ [][Next]_vars

-----------------------------------------------------------------------------
Steps == {"idle", "rename", "persisted", "restore", "rollback"}

TypeOK ==
  /\ running \in Configs
  /\ cand \in Configs
  /\ dirty \in SUBSET Files
  /\ dirtyKeys \in SUBSET Leaves
  /\ disk \in Configs
  /\ step \in Steps
  /\ todo \in SUBSET dirty
  /\ backup \in Configs
  /\ accepted \in SUBSET dirtyKeys
  /\ broken \in BOOLEAN

(* The values a file may hold: valid ones, and what is read back of them *)
Readable == Good \cup {ReadBack[v] : v \in Good}

(* Leaf k of the files agrees with the running configuration, written or read
   back *)
OnDisk(k) == disk[k] \in {running[k], ReadBack[running[k]]}

(***************************************************************************)
(* Nothing invalid ever gets in.  Running and candidate configuration      *)
(* validate, so the second and third validation (store.go:385, 410) never  *)
(* fail; and the files hold valid values as they are read back, wherever a *)
(* rename fails or the agent dies.                                         *)
(***************************************************************************)
NothingInvalid ==
  /\ Validates(running)
  /\ Validates(cand)
  /\ \A k \in Leaves : disk[k] \in Readable

(***************************************************************************)
(* Between commits the files hold the running configuration: a commit that *)
(* fails at any rename or at the restart has put back every file, unless   *)
(* writing a backup failed too (store.go:524-549).                         *)
(***************************************************************************)
CommitIsAllOrNothing ==
  step = "idle" /\ ~broken => \A k \in Leaves : OnDisk(k)

(***************************************************************************)
(* The running configuration never runs ahead of the files: a leaf that    *)
(* becomes running is already on disk (PersistCandidate before             *)
(* FinalizeCommit), whatever failed in earlier commits.                    *)
(***************************************************************************)
RunningIsOnDisk ==
  [][\A k \in Leaves : running'[k] # running[k] => OnDisk(k)']_vars

(* Where the loop over the files stands: written so far are the files that are
   not in todo, put back so far likewise; and the backup is what was running *)
LoopInvariant ==
  /\ step \in {"rename", "persisted"} => \A k \in Leaves :
       disk[k] = IF k \in dirtyKeys /\ FileOf[k] \notin todo
                   THEN ReadBack[cand[k]] ELSE backup[k]
  /\ step \in {"restore", "rollback"} => \A k \in Leaves :
       FileOf[k] \notin todo => disk[k] = backup[k]
  /\ step \in {"idle", "persisted"} => todo = {}
  /\ step # "idle" /\ ~broken => \A k \in Leaves :
       backup[k] \in {running[k], ReadBack[running[k]]}
  /\ \A k \in Leaves : backup[k] \in Readable

(* Running and candidate configuration behave like a NETCONF datastore *)
Datastore == INSTANCE CandidateDatastore

(***************************************************************************)
(* Whatever fails and wherever the agent dies, a client sees a candidate   *)
(* datastore: edits, resets, commits and reloads of valid configurations.  *)
(***************************************************************************)
ImplementsDatastore == Datastore!DatastoreSpec

(***************************************************************************)
(* store.go:127-128 says of the dirty marks: "This prevents unrelated      *)
(* files from being touched when only one leaf is edited."  So a file that *)
(* a commit writes holds a leaf of an edit that was accepted.              *)
(***************************************************************************)
OnlyEditedFilesAreTouched ==
  step = "rename" => \A f \in todo : \E k \in accepted : FileOf[k] = f
=============================================================================
