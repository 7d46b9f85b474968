---------------------------- MODULE CommitProofs ----------------------------
(***************************************************************************)
(* Proofs about what a commit leads to.  The first part is about its       *)
(* files, under I/O errors and crashes, for any number of leaves and       *)
(* files, any values, and any order of the files.  The second is about the *)
(* restart plan, for any number of restart requests and commits that       *)
(* overlap, any number of containers, and any number of attempts and       *)
(* polls.                                                                  *)
(***************************************************************************)
EXTENDS FileCommit, RestartPlan, TLAPS

-----------------------------------------------------------------------------
(* What the operations of the store preserve *)

(* A request changes known leaves; the ones it may store are typed *)
LEMMA ChangesType ==
  ASSUME NEW chg \in Changes
  PROVE  /\ DOMAIN chg \subseteq Leaves
         /\ WellTyped(chg) \subseteq DOMAIN chg
         /\ \A k \in WellTyped(chg) : chg[k] \in Values
BY StoreConstants DEF Changes, WellTyped, Values

LEMMA InitOK ==
  ASSUME StoreInit
  PROVE  StoreOK
BY Zenon DEF StoreInit, StoreOK, EditsAreMarked, ValidConfigs, Configs, Values

(* An accepted edit makes a valid candidate and marks what it changes *)
LEMMA EditAcceptedOK ==
  ASSUME StoreOK, NEW chg \in Changes, EditAccepted(chg)
  PROVE  StoreOK' /\ cand' \in ValidConfigs /\ UNCHANGED <<running, disk>>
<1>1. cand' \in ValidConfigs /\ UNCHANGED <<running, disk>>
  BY Zenon DEF EditAccepted, Overlay, Validates, ValidConfigs
<1>2. dirtyKeys' \in SUBSET Leaves
  BY ChangesType, Zenon DEF EditAccepted, MarkDirty, StoreOK
<1>3. \A k \in Leaves : cand'[k] # running'[k] => k \in dirtyKeys'
  BY <1>1, Zenon DEF EditAccepted, MarkDirty, Overlay, StoreOK, EditsAreMarked
<1>4. dirty' = {FileOf[k] : k \in dirtyKeys'}
  BY Zenon DEF EditAccepted, MarkDirty, StoreOK, EditsAreMarked
<1> QED
  BY <1>1, <1>2, <1>3, <1>4, Zenon DEF StoreOK, EditsAreMarked

(* A refused edit leaves the configurations, and may leave marks *)
LEMMA EditRefusedOK ==
  ASSUME StoreOK, NEW chg \in Changes, EditRefused(chg)
  PROVE  StoreOK' /\ UNCHANGED <<running, cand, disk>> /\ dirtyKeys \subseteq dirtyKeys'
<1>1. PICK K \in SUBSET DOMAIN chg : MarkDirty(K)
  BY ChangesType, Zenon DEF EditRefused
<1>2. UNCHANGED <<running, cand, disk>>
  BY Zenon DEF EditRefused
<1>3. dirtyKeys' = dirtyKeys \cup K /\ dirty' = dirty \cup {FileOf[k] : k \in K}
  BY <1>1, Zenon DEF MarkDirty
<1>4. dirtyKeys' \in SUBSET Leaves
  BY <1>3, ChangesType, Zenon DEF StoreOK
<1>5. dirty' = {FileOf[k] : k \in dirtyKeys'}
  BY <1>3, Zenon DEF StoreOK, EditsAreMarked
<1> QED
  BY <1>2, <1>3, <1>4, <1>5, Zenon DEF StoreOK, EditsAreMarked

LEMMA ResetOK ==
  ASSUME StoreOK, ResetCandidate
  PROVE  StoreOK'
BY Zenon DEF StoreOK, ResetCandidate, EditsAreMarked

LEMMA FinalizeOK ==
  ASSUME StoreOK, FinalizeCommit
  PROVE  StoreOK'
BY Zenon DEF StoreOK, FinalizeCommit, EditsAreMarked

(* Writing files keeps them typed: a valid value is read back as some value *)
LEMMA PatchedType ==
  ASSUME StoreOK, NEW F
  PROVE  Patched(F) \in Configs
BY StoreConstants, Zenon DEF Patched, StoreOK, ValidConfigs, Configs, Values

LEMMA RestoredType ==
  ASSUME StoreOK, NEW b \in Configs, NEW saved, NEW F
  PROVE  Restored(b, saved, F) \in Configs
BY Zenon DEF Restored, StoreOK, Configs

(* The files do not matter to the rest *)
LEMMA FilesOnlyOK ==
  ASSUME StoreOK, UNCHANGED memVars, disk' \in Configs
  PROVE  StoreOK'
BY Zenon DEF StoreOK, memVars, EditsAreMarked

-----------------------------------------------------------------------------
(* A commit *)

Inv ==
  /\ StoreOK
  /\ TypeOK
  /\ NothingInvalid
  /\ LoopInvariant
  /\ CommitIsAllOrNothing

LEMMA InitInv == Init => Inv
<1> SUFFICES ASSUME Init PROVE Inv
  BY Zenon
<1>1. StoreOK
  BY InitOK, Zenon DEF Init
<1>2. TypeOK
  BY <1>1, Zenon DEF Init, StoreInit, TypeOK, StoreOK, Configs, ValidConfigs, Values, Steps
<1>3. NothingInvalid
  BY <1>1, Zenon DEF Init, StoreInit, NothingInvalid, Validates, ValidConfigs, Readable
<1>4. LoopInvariant
  BY Zenon DEF Init, StoreInit, LoopInvariant, ValidConfigs, Readable
<1>5. CommitIsAllOrNothing
  BY Zenon DEF Init, StoreInit, CommitIsAllOrNothing, OnDisk
<1> QED
  BY <1>1, <1>2, <1>3, <1>4, <1>5, Zenon DEF Inv

(* Steps that only edit or reset, between commits *)
LEMMA EditInv ==
  ASSUME Inv, Edit
  PROVE  Inv'
<1>1. PICK chg \in Changes :
        \/ EditAccepted(chg) /\ accepted' = accepted \cup DOMAIN chg
        \/ EditRefused(chg) /\ UNCHANGED accepted
  BY Zenon DEF Edit
<1>2. StoreOK' /\ UNCHANGED <<running, disk>>
  BY <1>1, EditAcceptedOK, EditRefusedOK, Zenon DEF Inv
<1>3. accepted' \in SUBSET dirtyKeys'
  BY <1>1, EditRefusedOK, Zenon DEF Inv, TypeOK, EditAccepted, MarkDirty
<1>4. dirty' \in SUBSET Files
  BY <1>2, StoreConstants DEF StoreOK, EditsAreMarked
<1>5. dirty \subseteq dirty'
  BY <1>1, Zenon DEF EditAccepted, EditRefused, MarkDirty
<1>6. TypeOK'
  BY <1>2, <1>3, <1>4, <1>5, Zenon DEF Edit, Inv, TypeOK, StoreOK, ValidConfigs, Configs, Values
<1>7. NothingInvalid'
  BY <1>2, Zenon DEF Inv, NothingInvalid, Validates, StoreOK, ValidConfigs
<1>8. LoopInvariant'
  BY Zenon DEF Edit, Inv, LoopInvariant
<1>9. CommitIsAllOrNothing'
  BY <1>2, Zenon DEF Edit, Inv, CommitIsAllOrNothing, OnDisk
<1> QED
  BY <1>2, <1>6, <1>7, <1>8, <1>9, Zenon DEF Inv

LEMMA ResetInv ==
  ASSUME Inv, Reset
  PROVE  Inv'
<1>1. StoreOK'
  BY ResetOK, Zenon DEF Inv, Reset
<1>2. TypeOK'
  BY Zenon DEF Reset, ResetCandidate, Inv, TypeOK, LoopInvariant
<1>3. NothingInvalid'
  BY Zenon DEF Reset, ResetCandidate, Inv, NothingInvalid, Validates
<1>4. LoopInvariant'
  BY Zenon DEF Reset, ResetCandidate, Inv, LoopInvariant
<1>5. CommitIsAllOrNothing'
  BY Zenon DEF Reset, ResetCandidate, Inv, CommitIsAllOrNothing, OnDisk
<1> QED
  BY <1>1, <1>2, <1>3, <1>4, <1>5, Zenon DEF Inv

(* A commit starts: nothing is written yet, and the backup is what is running *)
LEMMA StageInv ==
  ASSUME Inv, Stage
  PROVE  Inv'
<1>1. StoreOK'
  BY FilesOnlyOK, Zenon DEF Inv, Stage, memVars, StoreOK
<1>2. TypeOK'
  BY Zenon DEF Stage, Inv, TypeOK, Steps
<1>3. NothingInvalid'
  BY Zenon DEF Stage, Inv, NothingInvalid, Validates
<1>4. LoopInvariant'
  <2>1. \A k \in dirtyKeys : FileOf[k] \in dirty
    BY Zenon DEF Inv, StoreOK, EditsAreMarked
  <2>2. ~broken => \A k \in Leaves : disk[k] \in {running[k], ReadBack[running[k]]}
    BY Zenon DEF Stage, Inv, CommitIsAllOrNothing, OnDisk
  <2> QED
    BY <2>1, <2>2, Zenon DEF Stage, Inv, LoopInvariant, NothingInvalid
<1>5. CommitIsAllOrNothing'
  BY Zenon DEF Stage, CommitIsAllOrNothing
<1> QED
  BY <1>1, <1>2, <1>3, <1>4, <1>5, Zenon DEF Inv

LEMMA RenameInv ==
  ASSUME Inv, Rename
  PROVE  Inv'
<1>0. disk' \in Configs
  BY PatchedType, Zenon DEF Inv, Rename
<1>1. StoreOK'
  BY <1>0, FilesOnlyOK, Zenon DEF Inv, Rename, memVars
<1>2. TypeOK'
  BY <1>0, Zenon DEF Rename, Inv, TypeOK
<1>3. NothingInvalid'
  BY Zenon DEF Rename, Patched, Inv, NothingInvalid, Validates, Readable
<1>4. LoopInvariant'
  BY Zenon DEF Rename, Patched, Inv, LoopInvariant
<1>5. CommitIsAllOrNothing'
  BY Zenon DEF Rename, CommitIsAllOrNothing
<1> QED
  BY <1>1, <1>2, <1>3, <1>4, <1>5, Zenon DEF Inv

(* A rename or the restart fails: all files are to be restored.  The ones that
   are not marked were never written. *)
LEMMA FailureInv ==
  ASSUME Inv, RenameFails \/ RestartFails
  PROVE  Inv'
<1>1. UNCHANGED <<running, cand, dirty, dirtyKeys, disk, backup, accepted, broken>>
  BY Zenon DEF RenameFails, RestartFails
<1>2. StoreOK'
  BY <1>1, FilesOnlyOK, Zenon DEF Inv, memVars, StoreOK
<1>3. TypeOK'
  BY <1>1, Zenon DEF RenameFails, RestartFails, Inv, TypeOK, Steps
<1>4. NothingInvalid'
  BY <1>1, Zenon DEF Inv, NothingInvalid, Validates
<1>5. LoopInvariant'
  <2>1. step \in {"rename", "persisted"} /\ step' \in {"restore", "rollback"} /\ todo' = dirty
    BY Zenon DEF RenameFails, RestartFails
  <2>2. \A k \in Leaves : FileOf[k] \notin dirty => k \notin dirtyKeys
    BY Zenon DEF Inv, StoreOK, EditsAreMarked
  <2> QED
    BY <1>1, <2>1, <2>2, Zenon DEF Inv, LoopInvariant
<1>6. CommitIsAllOrNothing'
  BY Zenon DEF RenameFails, RestartFails, CommitIsAllOrNothing
<1> QED
  BY <1>2, <1>3, <1>4, <1>5, <1>6, Zenon DEF Inv

LEMMA PersistedInv ==
  ASSUME Inv, Persisted
  PROVE  Inv'
<1>1. StoreOK'
  BY FilesOnlyOK, Zenon DEF Inv, Persisted, memVars, StoreOK
<1>2. TypeOK'
  BY Zenon DEF Persisted, Inv, TypeOK, Steps
<1>3. NothingInvalid'
  BY Zenon DEF Persisted, Inv, NothingInvalid, Validates
<1>4. LoopInvariant'
  BY Zenon DEF Persisted, Inv, LoopInvariant
<1>5. CommitIsAllOrNothing'
  BY Zenon DEF Persisted, CommitIsAllOrNothing
<1> QED
  BY <1>1, <1>2, <1>3, <1>4, <1>5, Zenon DEF Inv

(* The candidate becomes running: its marked leaves are on disk, the others
   are as they were running *)
LEMMA FinalizeInv ==
  ASSUME Inv, Finalize
  PROVE  Inv'
<1>1. StoreOK'
  BY FinalizeOK, Zenon DEF Inv, Finalize
<1>2. TypeOK'
  BY Zenon DEF Finalize, FinalizeCommit, Inv, TypeOK, Steps, LoopInvariant
<1>3. NothingInvalid'
  BY Zenon DEF Finalize, FinalizeCommit, Inv, NothingInvalid, Validates
<1>4. LoopInvariant'
  BY Zenon DEF Finalize, FinalizeCommit, Inv, LoopInvariant
<1>5. CommitIsAllOrNothing'
  <2> SUFFICES ASSUME ~broken, NEW k \in Leaves
               PROVE  disk[k] \in {cand[k], ReadBack[cand[k]]}
    BY Zenon DEF Finalize, FinalizeCommit, CommitIsAllOrNothing, OnDisk
  <2>1. CASE k \in dirtyKeys
    BY <2>1, Zenon DEF Finalize, Inv, LoopInvariant
  <2>2. CASE k \notin dirtyKeys
    BY <2>2, Zenon DEF Finalize, Inv, LoopInvariant, StoreOK, EditsAreMarked
  <2> QED
    BY <2>1, <2>2, Zenon
<1> QED
  BY <1>1, <1>2, <1>3, <1>4, <1>5, Zenon DEF Inv

LEMMA RestoreInv ==
  ASSUME Inv, Restore
  PROVE  Inv'
<1>0. disk' \in Configs
  BY RestoredType, Zenon DEF Inv, Restore, TypeOK
<1>1. StoreOK'
  BY <1>0, FilesOnlyOK, Zenon DEF Inv, Restore, memVars
<1>2. TypeOK'
  BY <1>0, Zenon DEF Restore, Inv, TypeOK
<1>3. NothingInvalid'
  BY Zenon DEF Restore, Restored, Inv, NothingInvalid, LoopInvariant, Validates
<1>4. LoopInvariant'
  <2>1. \A k \in Leaves : FileOf[k] \notin todo' => disk'[k] = backup[k]
    BY Zenon DEF Restore, Restored, Inv, LoopInvariant, TypeOK
  <2> QED
    BY <2>1, Zenon DEF Restore, Inv, LoopInvariant
<1>5. CommitIsAllOrNothing'
  BY Zenon DEF Restore, CommitIsAllOrNothing
<1> QED
  BY <1>1, <1>2, <1>3, <1>4, <1>5, Zenon DEF Inv

(* The files are restored, or one could not be, which broken records *)
LEMMA AfterRestoreInv ==
  ASSUME Inv, RestoreFails \/ RestoreDone
  PROVE  Inv'
<1>1. /\ step' = "idle" /\ todo' = {} /\ backup' = backup
      /\ running' = running /\ disk' = disk
  BY Zenon DEF RestoreFails, RestoreDone, AfterRestore, ResetCandidate
<1>2. \/ UNCHANGED <<cand, dirty, dirtyKeys, accepted>>
      \/ ResetCandidate /\ accepted' = {}
  BY Zenon DEF RestoreFails, RestoreDone, AfterRestore
<1>3. StoreOK'
  BY <1>1, <1>2, ResetOK, FilesOnlyOK, Zenon DEF Inv, memVars, StoreOK
<1>4. broken' \in BOOLEAN
  BY Zenon DEF RestoreFails, RestoreDone, Inv, TypeOK
<1>5. TypeOK'
  BY <1>1, <1>2, <1>4, Zenon DEF ResetCandidate, Inv, TypeOK, Steps
<1>6. NothingInvalid'
  BY <1>1, <1>2, Zenon DEF ResetCandidate, Inv, NothingInvalid, Validates
<1>7. LoopInvariant'
  BY <1>1, Zenon DEF Inv, LoopInvariant
<1>8. CommitIsAllOrNothing'
  BY <1>1, Zenon DEF RestoreFails, RestoreDone, Inv, LoopInvariant, CommitIsAllOrNothing, OnDisk
<1> QED
  BY <1>3, <1>5, <1>6, <1>7, <1>8, Zenon DEF Inv

LEMMA CrashInv ==
  ASSUME Inv, Crash
  PROVE  Inv'
<1>1. StoreOK'
  BY Zenon DEF Crash, Inv, StoreOK, EditsAreMarked, Validates, ValidConfigs, Configs
<1>2. TypeOK'
  BY Zenon DEF Crash, Inv, TypeOK, Steps
<1>3. NothingInvalid'
  BY Zenon DEF Crash, Inv, NothingInvalid, Validates
<1>4. LoopInvariant'
  BY Zenon DEF Crash, Inv, LoopInvariant
<1>5. CommitIsAllOrNothing'
  BY Zenon DEF Crash, CommitIsAllOrNothing, OnDisk
<1> QED
  BY <1>1, <1>2, <1>3, <1>4, <1>5, Zenon DEF Inv

LEMMA StutterInv ==
  ASSUME Inv, UNCHANGED vars
  PROVE  Inv'
<1>1. StoreOK'
  BY FilesOnlyOK, Zenon DEF Inv, vars, memVars, StoreOK
<1> QED
  BY <1>1, Zenon DEF Inv, vars, TypeOK, NothingInvalid, Validates, LoopInvariant,
              CommitIsAllOrNothing, OnDisk

LEMMA NextInv == Inv /\ [Next]_vars => Inv'
BY EditInv, ResetInv, StageInv, RenameInv, FailureInv, PersistedInv, FinalizeInv,
   RestoreInv, AfterRestoreInv, CrashInv, StutterInv, Zenon DEF Next

(* The inductive invariant holds throughout *)
LEMMA InvHolds == Spec => []Inv
BY InitInv, NextInv, PTL DEF Spec

-----------------------------------------------------------------------------
(***************************************************************************)
(* Type correctness of the store during commits, failures and crashes.     *)
(***************************************************************************)
THEOREM TypeCorrect == Spec => []TypeOK
<1>1. Inv => TypeOK
  BY Zenon DEF Inv
<1> QED
  BY <1>1, InvHolds, PTL

(***************************************************************************)
(* Nothing invalid is ever in the candidate or the running configuration,  *)
(* and the files hold valid values as read back, for any leaves and files. *)
(***************************************************************************)
THEOREM NothingInvalidGetsIn == Spec => []NothingInvalid
<1>1. Inv => NothingInvalid
  BY Zenon DEF Inv
<1> QED
  BY <1>1, InvHolds, PTL

(***************************************************************************)
(* A commit marks for writing every leaf that it makes running.            *)
(***************************************************************************)
THEOREM EditsStayMarked == Spec => []EditsAreMarked
<1>1. Inv => EditsAreMarked
  BY Zenon DEF Inv, StoreOK
<1> QED
  BY <1>1, InvHolds, PTL

(***************************************************************************)
(* A commit is all or nothing, for any number of files and wherever it     *)
(* fails, as long as the files it backed up can be written back.           *)
(***************************************************************************)
THEOREM CommitsAreAllOrNothing == Spec => []CommitIsAllOrNothing
<1>1. Inv => CommitIsAllOrNothing
  BY Zenon DEF Inv
<1> QED
  BY <1>1, InvHolds, PTL

(***************************************************************************)
(* What becomes running is on disk first, whatever failed before.          *)
(***************************************************************************)
THEOREM RunningFollowsDisk == Spec => RunningIsOnDisk
<1>1. Inv /\ [Next]_vars
        => [\A k \in Leaves : running'[k] # running[k] => OnDisk(k)']_vars
  <2> SUFFICES ASSUME Inv, [Next]_vars, NEW k \in Leaves, running'[k] # running[k]
               PROVE  OnDisk(k)'
    BY Zenon
  <2>1. CASE Finalize
    <3>1. k \in dirtyKeys /\ step = "persisted" /\ todo = {}
      BY <2>1, Zenon DEF Finalize, FinalizeCommit, Inv, StoreOK, EditsAreMarked, LoopInvariant
    <3>2. disk[k] = ReadBack[cand[k]]
      BY <3>1, Zenon DEF Inv, LoopInvariant
    <3> QED
      BY <2>1, <3>2, Zenon DEF Finalize, FinalizeCommit, OnDisk
  <2>2. CASE Crash
    BY <2>2, Zenon DEF Crash, OnDisk
  <2>3. CASE Edit
    BY <2>3, Zenon DEF Edit, EditAccepted, EditRefused
  <2>4. CASE ~(Finalize \/ Crash \/ Edit)
    BY <2>4, Zenon DEF Next, Reset, Stage, Rename, RenameFails, Persisted, RestartFails,
                Restore, RestoreFails, RestoreDone, AfterRestore, ResetCandidate, vars
  <2> QED
    BY <2>1, <2>2, <2>3, <2>4, Zenon
<1> QED
  BY <1>1, InvHolds, PTL DEF Spec, RunningIsOnDisk

(***************************************************************************)
(* Through all failures and crashes the store implements the candidate     *)
(* datastore: a commit is the step that finalizes it, a crash a reload,    *)
(* and everything between is invisible.                                    *)
(***************************************************************************)
THEOREM ImplementsCandidateDatastore == Spec => ImplementsDatastore
<1>1. Init => Datastore!DatastoreInit
  BY Zenon DEF Init, StoreInit, Datastore!DatastoreInit
<1>2. Inv /\ [Next]_vars => [Datastore!DatastoreNext]_(Datastore!datastoreVars)
  <2> SUFFICES ASSUME Inv, [Next]_vars
               PROVE  Datastore!DatastoreNext \/ UNCHANGED <<running, cand>>
    BY Zenon DEF Datastore!datastoreVars
  <2>1. CASE Edit
    <3>1. (cand' \in ValidConfigs /\ running' = running) \/ UNCHANGED <<running, cand>>
      BY <2>1, EditAcceptedOK, EditRefusedOK, Zenon DEF Edit, Inv
    <3> QED
      BY <3>1, Zenon DEF Datastore!DatastoreNext, Datastore!Edit
  <2>2. CASE Reset \/ RestoreFails \/ RestoreDone
    BY <2>2, Zenon DEF Reset, RestoreFails, RestoreDone, AfterRestore, ResetCandidate,
                Datastore!DatastoreNext, Datastore!Discard
  <2>3. CASE Finalize
    BY <2>3, Zenon DEF Finalize, FinalizeCommit, Datastore!DatastoreNext, Datastore!Commit
  <2>4. CASE Crash
    <3>1. running' \in ValidConfigs /\ cand' = running'
      BY <2>4, Zenon DEF Crash, Inv, StoreOK, Validates, ValidConfigs, Configs
    <3> QED
      BY <3>1, Zenon DEF Datastore!DatastoreNext, Datastore!Reload
  <2>5. CASE Stage \/ Rename \/ RenameFails \/ Persisted \/ RestartFails \/ Restore
    BY <2>5, Zenon DEF Stage, Rename, RenameFails, Persisted, RestartFails, Restore
  <2>6. CASE UNCHANGED vars
    BY <2>6, Zenon DEF vars
  <2> QED
    BY <2>1, <2>2, <2>3, <2>4, <2>5, <2>6, Zenon DEF Next
<1> QED
  BY <1>1, <1>2, InvHolds, PTL DEF Spec, ImplementsDatastore, Datastore!DatastoreSpec
-----------------------------------------------------------------------------
(* The restart plan *)

Places == {"idle", "stop", "kill", "start", "ready", "delay", "hung"}

PlanType ==
  /\ up \in SUBSET Containers
  /\ at \in [Callers -> Places]
  /\ pos \in [Callers -> Containers]
  /\ result \in [Callers -> {"none", "ok", "error"}]
  /\ old \in [Callers -> SUBSET Containers]

(* Somebody answers for every container that is down *)
DownInv ==
  \A c \in Containers : c \in up \cup lost \/ \E p \in Callers : c \in Owes(p)

(* p has stopped c *)
HasStopped(p, c) ==
  \/ at[p] \in {"stop", "kill"} /\ c < pos[p]
  \/ at[p] \in {"start", "ready", "delay"}

(* p has started c *)
HasStarted(p, c) ==
  \/ at[p] = "start" /\ c < pos[p]
  \/ at[p] \in {"ready", "delay"} /\ c = Primary

(* A container that p has stopped and that runs was started since *)
OldInv ==
  \A p \in Callers : \A c \in old[p] :
    /\ HasStopped(p, c) => c \notin up
    /\ ~HasStarted(p, c)

(* The mutex lets one restart request in at a time *)
MutexInv ==
  /\ \A p \in Requests : at[p] # "idle" => mu
  /\ \A p, q \in Requests : at[p] # "idle" /\ at[q] # "idle" => p = q

PlanInv == PlanType /\ DownInv /\ OldInv /\ MutexInv

-----------------------------------------------------------------------------
LEMMA ContainerFacts ==
  /\ Primary \in Containers /\ N \in Containers
  /\ \A c \in Containers : c \in Int /\ Primary <= c /\ c <= N /\ (c < N => c + 1 \in Containers)
  /\ IF N > 1 THEN 2 \in Containers ELSE N = 1 /\ Containers = {Primary}
BY PlanAssumption DEF Containers, Primary

(* Where a step takes its caller, and that it takes no other one anywhere *)
LEMMA Moves ==
  ASSUME PlanType, NEW p \in Callers, Begin(p) \/ Step(p)
  PROVE  /\ \A q \in Callers \ {p} : at'[q] = at[q] /\ pos'[q] = pos[q]
         /\ at' \in [Callers -> Places]
         /\ pos' \in [Callers -> Containers]
         /\ result' \in [Callers -> {"none", "ok", "error"}]
<1> USE ContainerFacts DEF PlanType, Places
<1>1. ASSUME NEW where \in Places, NEW to \in Containers, Went(p, where, to)
      PROVE  /\ \A q \in Callers \ {p} : at'[q] = at[q] /\ pos'[q] = pos[q]
             /\ at' \in [Callers -> Places]
             /\ pos' \in [Callers -> Containers]
  BY <1>1, Zenon DEF Went
<1>2. CASE Begin(p)
  BY <1>1, <1>2, Zenon DEF Begin
<1>3. ASSUME NextStop(p)
      PROVE  \E where \in Places, to \in Containers : Went(p, where, to)
  BY <1>3, Zenon DEF NextStop
<1>4. CASE StopContainer(p) \/ KillContainer(p)
  BY <1>1, <1>3, <1>4, Zenon DEF StopContainer, KillContainer
<1>5. CASE StopError(p) \/ Ready(p)
  BY <1>1, <1>5, Zenon DEF StopError, Ready
<1>6. ASSUME NEW r \in {"none", "ok", "error"}, Return(p, r)
      PROVE  /\ \A q \in Callers \ {p} : at'[q] = at[q] /\ pos'[q] = pos[q]
             /\ at' \in [Callers -> Places]
             /\ pos' \in [Callers -> Containers]
             /\ result' \in [Callers -> {"none", "ok", "error"}]
  BY <1>1, <1>6, Zenon DEF Return
<1>7. CASE KillError(p) \/ StartError(p)
  BY <1>6, <1>7, Zenon DEF KillError, StartError, GiveUp
<1>8. CASE StartContainer(p)
  BY <1>1, <1>6, <1>8, Zenon DEF StartContainer, AfterStart
<1>9. CASE StartRetry(p) \/ Hang(p)
  BY <1>9, Zenon DEF StartRetry, Hang
<1>10. CASE NotReady(p)
  BY <1>6, <1>10, Zenon DEF NotReady, GiveUp
<1>11. CASE Delay(p)
  BY <1>1, <1>6, <1>11, Zenon DEF Delay
<1> QED
  BY <1>2, <1>4, <1>5, <1>7, <1>8, <1>9, <1>10, <1>11, Zenon DEF Step

(* What p does to the containers, and where it stands after *)
LEMMA Effects ==
  ASSUME PlanType, NEW p \in Callers, Step(p)
  PROVE  \/ /\ at[p] \in {"stop", "kill"} /\ Stopped(pos[p])
            /\ \/ at'[p] = "stop" /\ pos[p] < N /\ pos'[p] = pos[p] + 1
               \/ at'[p] = "kill" /\ pos'[p] = pos[p]
               \/ at'[p] = "start" /\ pos[p] = N /\ pos'[p] = Primary
         \/ at[p] = "stop" /\ NoEffect /\ at'[p] = "kill" /\ pos'[p] = pos[p]
         \/ /\ at'[p] = "idle" /\ result'[p] = "error"
            /\ up' \in SUBSET Containers /\ up \cup lost \cup Owes(p) \subseteq up' \cup lost'
            /\ \/ up' \subseteq up /\ old' = old
               \/ /\ at[p] = "start" /\ up' = up \cup {pos[p]}
                  /\ old' = IF pos[p] \in up THEN old ELSE [q \in Callers |-> old[q] \ {pos[p]}]
         \/ /\ at[p] = "start" /\ Started(pos[p])
            /\ \/ at'[p] = "ready" /\ pos[p] = Primary /\ pos'[p] = Primary
               \/ at'[p] = "start" /\ Primary < pos[p] /\ pos[p] < N /\ pos'[p] = pos[p] + 1
               \/ at'[p] = "start" /\ pos'[p] = pos[p]
               \/ at'[p] = "idle" /\ pos[p] = N /\ Primary < N
         \/ /\ NoEffect
            /\ \/ at[p] = "start" /\ at'[p] = "start" /\ pos'[p] = pos[p]
               \/ at[p] = "ready" /\ at'[p] \in {"ready", "delay", "hung"}
               \/ at[p] = "delay" /\ at'[p] = "start" /\ pos'[p] = 2 /\ N > 1
               \/ at[p] = "delay" /\ at'[p] = "idle" /\ N = 1
<1> USE ContainerFacts DEF PlanType, Places
<1>0. pos[p] \in Containers /\ DOMAIN at = Callers /\ DOMAIN pos = Callers /\ DOMAIN result = Callers
  BY Zenon
<1>1. CASE StopContainer(p) \/ KillContainer(p)
  BY <1>0, <1>1 DEF StopContainer, KillContainer, NextStop, Went
<1>2. CASE StopError(p)
  BY <1>0, <1>2, Zenon DEF StopError, Went
<1>3. CASE KillError(p)
  <2>1. pos[p] \in Owes(p) /\ at[p] = "kill"
    BY <1>0, <1>3 DEF KillError, Owes
  <2> QED
    BY <1>0, <1>3, <2>1, Zenon DEF KillError, GiveUp, Return, Went
<1>4. CASE StartContainer(p)
  <2>1. at[p] = "start" /\ Started(pos[p]) /\ AfterStart(p)
    BY <1>4, Zenon DEF StartContainer
  <2>2. CASE pos[p] = Primary
    BY <1>0, <2>1, <2>2, Zenon DEF AfterStart, Went
  <2>3. CASE pos[p] # Primary
    <3>1. Primary < pos[p] /\ (pos[p] < N \/ pos[p] = N)
      BY <1>0, <2>3
    <3>2. CASE pos[p] < N
      BY <1>0, <2>1, <2>3, <3>1, <3>2, Zenon DEF AfterStart, Went
    <3>3. CASE pos[p] = N
      BY <1>0, <2>1, <2>3, <3>1, <3>3, Zenon DEF AfterStart, Return, Went
    <3> QED
      BY <3>1, <3>2, <3>3, Zenon
  <2> QED
    BY <2>2, <2>3, Zenon
<1>5. CASE StartRetry(p)
  BY <1>0, <1>5, Zenon DEF StartRetry
<1>6. CASE StartError(p)
  <2>1. CASE GiveUp(p)
    BY <1>0, <1>6, <2>1, Zenon DEF GiveUp, Return, Went
  <2>2. CASE ~GiveUp(p)
    <3>1. /\ at[p] = "start" /\ Return(p, "error")
          /\ up' = up \cup {pos[p]}
          /\ old' = IF pos[p] \in up THEN old ELSE [q \in Callers |-> old[q] \ {pos[p]}]
          /\ lost' = (lost \cup (Owes(p) \ up)) \ {pos[p]}
      BY <1>6, <2>2, Zenon DEF StartError
    <3>2. at'[p] = "idle" /\ result'[p] = "error"
      BY <1>0, <3>1, Zenon DEF Return, Went
    <3>3. up' \in SUBSET Containers /\ up \cup lost \cup Owes(p) \subseteq up' \cup lost'
      BY <1>0, <3>1, Zenon
    <3> QED
      BY <3>1, <3>2, <3>3, Zenon
  <2> QED
    BY <2>1, <2>2, Zenon
<1>7. CASE Ready(p) \/ Hang(p)
  BY <1>0, <1>7, Zenon DEF Ready, Hang, Went, NoEffect
<1>8. CASE NotReady(p)
  BY <1>0, <1>8, Zenon DEF NotReady, GiveUp, Return, Went, NoEffect
<1>9. CASE Delay(p)
  BY <1>0, <1>9, Zenon DEF Delay, Return, Went, NoEffect
<1> QED
  BY <1>1, <1>2, <1>3, <1>4, <1>5, <1>6, <1>7, <1>8, <1>9 DEF Step

LEMMA DownStep ==
  ASSUME PlanType, DownInv, NEW p \in Callers, Begin(p) \/ Step(p)
  PROVE  DownInv'
<1>o. \A q \in Callers \ {p}, c \in Containers : c \in Owes(q)' <=> c \in Owes(q)
  BY Moves, Zenon DEF Owes
<1> SUFFICES ASSUME NEW c \in Containers, c \in up \cup lost \/ c \in Owes(p)
             PROVE  c \in up' \cup lost' \/ c \in Owes(p)'
  BY <1>o, Zenon DEF DownInv
<1>0. /\ DOMAIN at = Callers /\ DOMAIN pos = Callers /\ pos[p] \in Containers
      /\ c \in Int /\ pos[p] \in Int /\ Primary <= c /\ c <= N /\ Primary = 1 /\ N \in Int
      /\ Primary <= pos[p]
  BY ContainerFacts, PlanAssumption, Zenon DEF PlanType, Primary
<1>1. CASE Begin(p)
  BY <1>0, <1>1, Zenon DEF Begin, Went, Owes
<1>2. CASE Step(p)
  <2>1. CASE at[p] \in {"stop", "kill"} /\ (Stopped(pos[p]) \/ NoEffect) /\ at'[p] # "idle"
    <3>1. \/ at'[p] = "stop" /\ Stopped(pos[p]) /\ pos'[p] = pos[p] + 1
          \/ at'[p] = "kill" /\ Stopped(pos[p]) /\ pos'[p] = pos[p]
          \/ at'[p] = "start" /\ pos'[p] = Primary
          \/ at[p] = "stop" /\ NoEffect /\ at'[p] = "kill" /\ pos'[p] = pos[p]
      BY <1>2, <2>1, Effects, Zenon
    <3>2. c \in up \cup lost => c \in up' \cup lost' \/ (Stopped(pos[p]) /\ c = pos[p])
      BY <2>1, Zenon DEF Stopped, NoEffect
    <3> QED
      BY <1>0, <2>1, <3>1, <3>2 DEF Owes
  <2>2. CASE at'[p] = "idle" /\ up \cup lost \cup Owes(p) \subseteq up' \cup lost'
    BY <2>2, Zenon
  <2>3. CASE at[p] = "start" /\ Started(pos[p])
    <3>1. CASE c = pos[p]
      BY <2>3, <3>1, Zenon DEF Started
    <3>2. CASE c # pos[p]
      <4>1. c \in up \cup lost => c \in up' \cup lost'
        BY <2>3, <3>2, Zenon DEF Started
      <4>2. CASE c \in Owes(p)
        <5>1. pos[p] < c
          BY <1>0, <2>3, <3>2, <4>2 DEF Owes
        <5>2. at'[p] = "ready" \/ (at'[p] = "start" /\ pos'[p] \in {pos[p], pos[p] + 1})
                \/ (at'[p] = "idle" /\ up \cup lost \cup Owes(p) \subseteq up' \cup lost')
          BY <1>0, <1>2, <2>3, <5>1, Effects
        <5> QED
          BY <1>0, <5>1, <5>2 DEF Owes
      <4> QED
        BY <4>1, <4>2, Zenon
    <3> QED
      BY <3>1, <3>2, Zenon
  <2>4. CASE NoEffect /\ at[p] \notin {"stop", "kill"}
    <3>1. c \in up \cup lost => c \in up' \cup lost'
      BY <2>4, Zenon DEF NoEffect
    <3>2. CASE c \in Owes(p)
      <4>1. \/ at[p] = "start" /\ at'[p] = "start" /\ pos'[p] = pos[p]
            \/ at[p] = "ready" /\ at'[p] \in {"ready", "delay", "hung"}
            \/ at[p] = "delay" /\ at'[p] = "start" /\ pos'[p] = 2
            \/ at[p] = "delay" /\ at'[p] = "idle" /\ N = 1
            \/ at[p] = "start" /\ Started(pos[p])
            \/ at'[p] = "idle" /\ up \cup lost \cup Owes(p) \subseteq up' \cup lost'
        BY <1>2, <2>4, Effects, Zenon
      <4> QED
        BY <1>0, <2>2, <2>3, <3>2, <4>1 DEF Owes
    <3> QED
      BY <3>1, <3>2, Zenon
  <2> QED
    BY <1>2, <2>1, <2>2, <2>3, <2>4, Effects, Zenon
<1> QED
  BY <1>1, <1>2, Zenon

LEMMA OldStep ==
  ASSUME PlanType, OldInv, NEW p \in Callers, Begin(p) \/ Step(p)
  PROVE  OldInv' /\ old' \in [Callers -> SUBSET Containers] /\ up' \in SUBSET Containers
<1>0. /\ DOMAIN at = Callers /\ DOMAIN pos = Callers /\ DOMAIN old = Callers /\ pos[p] \in Containers
      /\ \A c \in Containers : c \in Int /\ Primary <= c /\ c <= N
      /\ Primary = 1 /\ N \in Int /\ up \in SUBSET Containers
      /\ \A q \in Callers : old[q] \in SUBSET Containers
  BY ContainerFacts, PlanAssumption, Zenon DEF PlanType, Primary
<1>o. \A q \in Callers \ {p} : at'[q] = at[q] /\ pos'[q] = pos[q]
  BY Moves, Zenon
<1>s. ASSUME NEW q \in Callers, NEW c \in old[q] PROVE (HasStopped(q, c) => c \notin up) /\ ~HasStarted(q, c)
  BY Zenon DEF OldInv
<1>1. CASE Begin(p)
  <2>1. /\ at'[p] = "stop" /\ pos'[p] = Primary /\ up' = up
        /\ old' = [old EXCEPT ![p] = Containers]
    BY <1>0, <1>1, Zenon DEF Begin, Went
  <2>2. old' \in [Callers -> SUBSET Containers]
    BY <2>1, Zenon DEF PlanType
  <2>3. ASSUME NEW q \in Callers, NEW c \in old'[q]
        PROVE  (HasStopped(q, c)' => c \notin up') /\ ~HasStarted(q, c)'
    <3>1. CASE q = p
      BY <1>0, <2>1, <2>3, <3>1 DEF HasStopped, HasStarted
    <3>2. CASE q # p
      BY <1>0, <1>o, <1>s, <2>1, <2>3, <3>2, Zenon DEF HasStopped, HasStarted
    <3> QED
      BY <3>1, <3>2, Zenon
  <2> QED
    BY <1>0, <2>1, <2>2, <2>3, Zenon DEF OldInv
<1> DEFINE StartedIn(d) == /\ up' = up \cup {d}
                           /\ old' = IF d \in up THEN old ELSE [q \in Callers |-> old[q] \ {d}]
<1>2. ASSUME NEW q \in Callers \ {p}, NEW c \in old'[q],
             \/ up' \subseteq up /\ old' = old
             \/ \E d \in Containers : StartedIn(d)
      PROVE  (HasStopped(q, c)' => c \notin up') /\ ~HasStarted(q, c)'
  <2>1. (HasStopped(q, c)' <=> HasStopped(q, c)) /\ (HasStarted(q, c)' <=> HasStarted(q, c))
    BY <1>o, Zenon DEF HasStopped, HasStarted
  <2>2. c \in old[q] /\ (c \notin up => c \notin up')
    BY <1>0, <1>2, Zenon
  <2> QED
    BY <1>s, <2>1, <2>2, Zenon
<1>3. CASE Step(p)
  <2>0. \A c \in old[p] : c \in Int /\ Primary <= c /\ c <= N
    BY <1>0, Zenon
  <2>1. CASE /\ at[p] \in {"stop", "kill"} /\ Stopped(pos[p])
             /\ \/ at'[p] = "stop" /\ pos[p] < N /\ pos'[p] = pos[p] + 1
                \/ at'[p] = "kill" /\ pos'[p] = pos[p]
                \/ at'[p] = "start" /\ pos[p] = N /\ pos'[p] = Primary
    <3>1. old' = old /\ up' = up \ {pos[p]}
      BY <2>1, Zenon DEF Stopped
    <3>2. ASSUME NEW c \in old[p] PROVE (HasStopped(p, c)' => c \notin up') /\ ~HasStarted(p, c)'
      <4>1. c < pos[p] => c \notin up
        BY <1>s, <2>1, Zenon DEF HasStopped
      <4>2. HasStopped(p, c)' => c <= pos[p]
        BY <1>0, <2>0, <2>1 DEF HasStopped
      <4>3. ~HasStarted(p, c)'
        BY <1>0, <2>0, <2>1 DEF HasStarted
      <4> QED
        BY <1>0, <2>0, <3>1, <4>1, <4>2, <4>3
    <3> QED
      BY <1>0, <1>2, <3>1, <3>2, Zenon DEF OldInv, PlanType
  <2>2. CASE at[p] = "stop" /\ NoEffect /\ at'[p] = "kill" /\ pos'[p] = pos[p]
    <3>1. old' = old /\ up' = up
      BY <2>2, Zenon DEF NoEffect
    <3>2. ASSUME NEW c \in old[p] PROVE (HasStopped(p, c)' => c \notin up') /\ ~HasStarted(p, c)'
      BY <1>s, <2>2, <3>1, Zenon DEF HasStopped, HasStarted
    <3> QED
      BY <1>0, <1>2, <3>1, <3>2, Zenon DEF OldInv, PlanType
  <2>3. CASE /\ at'[p] = "idle"
             /\ (up' \subseteq up /\ old' = old) \/ StartedIn(pos[p])
    <3>1. old' \in [Callers -> SUBSET Containers] /\ up' \in SUBSET Containers
      BY <1>0, <2>3, Zenon DEF PlanType
    <3>2. ASSUME NEW c \in Containers PROVE ~HasStopped(p, c)' /\ ~HasStarted(p, c)'
      <4>1. at'[p] = "idle"
        BY <2>3, Zenon
      <4> QED
        BY <4>1, Zenon DEF HasStopped, HasStarted
    <3>3. \A q \in Callers \ {p} : \A c \in old'[q] : (HasStopped(q, c)' => c \notin up') /\ ~HasStarted(q, c)'
      BY <1>0, <1>2, <2>3, Zenon
    <3> QED
      BY <3>1, <3>2, <3>3, Zenon DEF OldInv
  <2>4. CASE /\ at[p] = "start" /\ Started(pos[p])
             /\ \/ at'[p] = "ready" /\ pos[p] = Primary /\ pos'[p] = Primary
                \/ at'[p] = "start" /\ pos'[p] = pos[p] + 1
                \/ at'[p] = "start" /\ pos'[p] = pos[p]
    <3>1. StartedIn(pos[p])
      BY <2>4, Zenon DEF Started
    <3>2. old' \in [Callers -> SUBSET Containers] /\ up' \in SUBSET Containers
      BY <1>0, <3>1, Zenon DEF PlanType
    <3>3. ASSUME NEW c \in old'[p] PROVE (HasStopped(p, c)' => c \notin up') /\ ~HasStarted(p, c)'
      <4>1. c \in old[p] /\ c \notin up /\ c # pos[p]
        BY <1>0, <1>s, <2>4, <3>1, Zenon DEF HasStopped
      <4>2. ~(c < pos[p])
        BY <1>s, <2>4, <4>1, Zenon DEF HasStarted
      <4>3. ~HasStarted(p, c)'
        BY <1>0, <2>0, <2>4, <4>1, <4>2 DEF HasStarted
      <4> QED
        BY <3>1, <4>1, <4>3, Zenon
    <3>4. \A q \in Callers \ {p} : \A c \in old'[q] : (HasStopped(q, c)' => c \notin up') /\ ~HasStarted(q, c)'
      BY <1>0, <1>2, <3>1, Zenon
    <3> QED
      BY <3>2, <3>3, <3>4, Zenon DEF OldInv
  <2>5. CASE /\ NoEffect
             /\ \/ at[p] = "start" /\ at'[p] = "start" /\ pos'[p] = pos[p]
                \/ at[p] = "ready" /\ at'[p] \in {"ready", "delay", "hung"}
                \/ at[p] = "delay" /\ at'[p] = "start" /\ pos'[p] = 2 /\ N > 1
    <3>1. old' = old /\ up' = up
      BY <2>5, Zenon DEF NoEffect
    <3>2. ASSUME NEW c \in old[p] PROVE (HasStopped(p, c)' => c \notin up') /\ ~HasStarted(p, c)'
      BY <1>0, <1>s, <2>0, <2>5, <3>1 DEF HasStopped, HasStarted
    <3> QED
      BY <1>0, <1>2, <3>1, <3>2, Zenon DEF OldInv, PlanType
  <2>6. (Stopped(pos[p]) \/ NoEffect => up' \subseteq up /\ old' = old) /\ (Started(pos[p]) => StartedIn(pos[p]))
    BY Zenon DEF Stopped, NoEffect, Started
  <2> QED
    BY <1>3, <2>1, <2>2, <2>3, <2>4, <2>5, <2>6, Effects, Zenon
<1> QED
  BY <1>1, <1>3, Zenon

LEMMA MutexStep ==
  ASSUME PlanType, MutexInv, NEW p \in Callers, Begin(p) \/ Step(p)
  PROVE  MutexInv'
<1>0. DOMAIN at = Callers /\ Requests \subseteq Callers
  BY Zenon DEF PlanType, Callers
<1>o. \A q \in Callers \ {p} : at'[q] = at[q]
  BY Moves, Zenon
<1>1. CASE Begin(p)
  BY <1>0, <1>1, <1>o, Zenon DEF Begin, MutexInv
<1>2. CASE Step(p)
  <2>1. at[p] # "idle" /\ (mu' = mu \/ (at'[p] = "idle" /\ p \in Requests /\ mu' = FALSE))
    BY <1>0, <1>2, Zenon DEF Step, StopContainer, StopError, KillContainer, KillError, StartContainer,
       StartRetry, StartError, Ready, NotReady, Hang, Delay, GiveUp, AfterStart, Return, Went
  <2> QED
    BY <1>0, <1>o, <2>1 DEF MutexInv
<1> QED
  BY <1>1, <1>2, Zenon

LEMMA PlanInvHolds == PlanSpec => []PlanInv
<1>1. PlanInit => PlanInv
  <2> SUFFICES ASSUME PlanInit PROVE PlanInv
    BY Zenon
  <2>1. PlanType
    BY ContainerFacts, Zenon DEF PlanInit, PlanType, Places
  <2>2. DownInv /\ OldInv
    BY Zenon DEF PlanInit, DownInv, OldInv, HasStopped, HasStarted
  <2>3. MutexInv
    BY Zenon DEF PlanInit, MutexInv, Callers
  <2> QED
    BY <2>1, <2>2, <2>3, Zenon DEF PlanInv
<1>2. PlanInv /\ [PlanNext]_planVars => PlanInv'
  <2>1. ASSUME PlanInv, NEW p \in Callers, Begin(p) \/ Step(p) PROVE PlanInv'
    BY <2>1, DownStep, OldStep, MutexStep, Moves, Zenon DEF PlanInv, PlanType
  <2>2. ASSUME PlanInv, Exit PROVE PlanInv'
    <3>1. PlanType' /\ MutexInv'
      BY <2>2, Zenon DEF PlanInv, Exit, PlanType, MutexInv
    <3>2. DownInv'
      BY <2>2, Zenon DEF PlanInv, Exit, DownInv, Owes
    <3>3. OldInv'
      BY <2>2, Zenon DEF PlanInv, Exit, OldInv, HasStopped, HasStarted
    <3> QED
      BY <3>1, <3>2, <3>3, Zenon DEF PlanInv
  <2>3. ASSUME PlanInv, UNCHANGED planVars PROVE PlanInv'
    BY <2>3, Zenon DEF planVars, PlanInv, PlanType, DownInv, Owes, OldInv, HasStopped, HasStarted, MutexInv
  <2> QED
    BY <2>1, <2>2, <2>3, Zenon DEF PlanNext
<1> QED
  BY <1>1, <1>2, PTL DEF PlanSpec

-----------------------------------------------------------------------------
(***************************************************************************)
(* Restarts that overlap leave no container down: when the last of them is *)
(* over, every container runs that has not ended by itself or was given up *)
(* by a restart that failed.                                               *)
(***************************************************************************)
THEOREM QuietIsUp == PlanSpec => []QuietMeansUp
<1>1. PlanInv => QuietMeansUp
  BY Zenon DEF PlanInv, DownInv, Owes, QuietMeansUp
<1> QED
  BY <1>1, PlanInvHolds, PTL

(***************************************************************************)
(* A restart that returns without an error has had every container started *)
(* since it began, and starts dependents only while the primary runs, is   *)
(* lost, or is in the hands of a commit: the mutex keeps other requests    *)
(* out.                                                                    *)
(***************************************************************************)
THEOREM PlansAreCarriedOut == PlanSpec => PlanIsCarriedOut
<1> DEFINE A == /\ \A p \in Callers :
                     at[p] # "idle" /\ at'[p] = "idle" /\ result'[p] = "ok" => old'[p] = {}
                /\ \A c \in Containers \ {Primary} : c \in up' \ up =>
                     Primary \in up \cup lost \/ \E k \in Commits : at[k] # "idle"
<1>1. PlanInv /\ [PlanNext]_planVars => A \/ UNCHANGED planVars
  <2> SUFFICES ASSUME PlanInv, PlanNext PROVE A
    BY Zenon
  <2>1. CASE Exit
    BY <2>1, Zenon DEF Exit
  <2>2. ASSUME NEW p \in Callers, Begin(p) \/ Step(p) PROVE A
    <3>0. /\ PlanType /\ pos[p] \in Containers /\ DOMAIN at = Callers
          /\ \A q \in Callers : old[q] \in SUBSET Containers
          /\ \A c \in Containers : c \in Int /\ Primary <= c /\ c <= N
          /\ Primary = 1 /\ N \in Int
      BY ContainerFacts, PlanAssumption, Zenon DEF PlanInv, PlanType, Primary
    <3>1. CASE Begin(p)
      BY <3>0, <3>1, Zenon DEF Begin, Went
    <3>2. CASE Step(p)
      <4>1. ASSUME NEW q \in Callers, at[q] # "idle", at'[q] = "idle", result'[q] = "ok"
            PROVE  old'[q] = {}
        <5>1. q = p
          BY <2>2, <3>0, <4>1, Moves, Zenon
        <5>2. CASE at[p] = "start" /\ Started(pos[p]) /\ pos[p] = N /\ Primary < N
          <6>1. \A c \in old[p] : c \notin up /\ ~(c < N)
            BY <5>2, Zenon DEF PlanInv, OldInv, HasStopped, HasStarted
          <6>2. old[p] \subseteq {N}
            BY <3>0, <6>1
          <6>3. old'[p] = {}
            BY <5>2, <6>1, <6>2, Zenon DEF Started
          <6> QED
            BY <5>1, <6>3, Zenon
        <5>3. CASE at[p] = "delay" /\ NoEffect /\ N = 1
          <6>1. \A c \in old[p] : c # Primary
            BY <5>3, Zenon DEF PlanInv, OldInv, HasStarted
          <6> QED
            BY <3>0, <5>1, <5>3, <6>1 DEF NoEffect
        <5> QED
          BY <3>0, <3>2, <4>1, <5>1, <5>2, <5>3, Effects, Zenon
      <4>2. ASSUME NEW c \in Containers \ {Primary}, c \in up' \ up
            PROVE  Primary \in up \cup lost \/ \E k \in Commits : at[k] # "idle"
        <5>1. at[p] = "start" /\ pos[p] = c
          BY <3>0, <3>2, <4>2, Effects, Zenon DEF Stopped, NoEffect, Started
        <5>2. ASSUME NEW q \in Callers, Primary \in Owes(q), q \in Requests, p \in Requests
              PROVE  FALSE
          <6>1. at[q] # "idle"
            BY <5>2, Zenon DEF Owes
          <6>2. q = p
            BY <5>1, <5>2, <6>1, Zenon DEF PlanInv, MutexInv
          <6> QED
            BY <3>0, <4>2, <5>1, <5>2, <6>2 DEF Owes
        <5>3. CASE p \in Commits
          BY <5>1, <5>3, Zenon
        <5>4. CASE p \in Requests
          <6>1. CASE Primary \notin up \cup lost
            <7>1. PICK q \in Callers : Primary \in Owes(q)
              BY <6>1, ContainerFacts, Zenon DEF PlanInv, DownInv
            <7>2. q \in Commits /\ at[q] # "idle"
              BY <5>2, <5>4, <7>1, Zenon DEF Callers, Owes
            <7> QED
              BY <7>2, Zenon
          <6> QED
            BY <6>1, Zenon
        <5> QED
          BY <5>3, <5>4, Zenon DEF Callers
      <4> QED
        BY <4>1, <4>2, Zenon
    <3> QED
      BY <2>2, <3>1, <3>2, Zenon
  <2> QED
    BY <2>1, <2>2, Zenon DEF PlanNext
<1> QED
  BY <1>1, PlanInvHolds, PTL DEF PlanSpec, PlanIsCarriedOut


=============================================================================
