----------------------------- MODULE ConfigStore -----------------------------
(***************************************************************************)
(* The configuration store, internal/ems/configuration/store.go: running   *)
(* and candidate configuration in memory, the leaves edited since the last *)
(* reset (dirty, dirtyKeys), and the managed configuration files on disk.  *)
(* s.mu makes the methods that only touch memory one atomic step; the two  *)
(* that write files (PersistCandidate, RollbackPersist) are steps per file *)
(* in FileCommit and ConfigManager.                                        *)
(*                                                                         *)
(* A configuration is a function from leaves to values.  validate is a     *)
(* conjunction of tests of one leaf each, so a value is either one every   *)
(* test accepts (Good) or one its test rejects (OutOfRange); IllTyped      *)
(* values are those that applyChange itself refuses.                       *)
(***************************************************************************)
EXTENDS Naturals, FiniteSets

CONSTANTS
  Leaves,      \* the editable leaves
  Files,       \* the managed files: enb.conf, rr.conf, sib.conf, rb.conf
  FileOf,      \* FileOf[k]: the file that holds leaf k
  Good,        \* values that validate accepts
  OutOfRange,  \* values that applyChange stores and validate rejects
  IllTyped,    \* values that applyChange rejects
  ReadBack     \* ReadBack[v]: what NewStore reads of a value once written:
               \* trimFloat drops decimals, in a text # starts a comment

ASSUME StoreConstants ==
  /\ IsFiniteSet(Leaves)
  /\ FileOf \in [Leaves -> Files]
  /\ Good \cap OutOfRange = {}
  /\ IllTyped \cap (Good \cup OutOfRange) = {}
  /\ ReadBack \in [Good -> Good \cup OutOfRange]

Values == Good \cup OutOfRange
Configs == [Leaves -> Values]
ValidConfigs == [Leaves -> Good]

VARIABLES
  running,     \* s.running
  cand,        \* s.cand
  dirty,       \* s.dirty: the files to regenerate on commit
  dirtyKeys,   \* s.dirtyKeys
  disk         \* disk[k]: leaf k as it would be parsed from its file now

memVars == <<running, cand, dirty, dirtyKeys>>
storeVars == <<running, cand, dirty, dirtyKeys, disk>>

(* validate *)
Validates(cfg) == \A k \in Leaves : cfg[k] \in Good

(* a request's changes: some leaves, each with a value of any kind *)
Changes == UNION {[K -> Values \cup IllTyped] : K \in (SUBSET Leaves) \ {{}}}

(* cfg with the changes applied to it *)
Overlay(cfg, chg) ==
  [k \in Leaves |-> IF k \in DOMAIN chg THEN chg[k] ELSE cfg[k]]

WellTyped(chg) == {k \in DOMAIN chg : chg[k] \notin IllTyped}

(* Fault: editLocked marks the file and not the leaf *)
MarkFileOnly(K) ==
  /\ dirty' = dirty \cup {FileOf[k] : k \in K}
  /\ UNCHANGED dirtyKeys

(* markDirtyLocked and the update of s.dirtyKeys, for the leaves K *)
MarkDirty(K) ==
  /\ dirty' = dirty \cup {FileOf[k] : k \in K}
  /\ dirtyKeys' = dirtyKeys \cup K

(* Fault: editLocked stores the new candidate before it validates it *)
EditUnvalidated(chg) ==
  /\ WellTyped(chg) = DOMAIN chg
  /\ cand' = Overlay(cand, chg)
  /\ MarkDirty(DOMAIN chg)
  /\ UNCHANGED <<running, disk>>

(* Fault: editLocked records the leaf and forgets the file it lives in *)
EditUnmarked(chg) ==
  /\ WellTyped(chg) = DOMAIN chg
  /\ Validates(Overlay(cand, chg))
  /\ cand' = Overlay(cand, chg)
  /\ dirtyKeys' = dirtyKeys \cup DOMAIN chg
  /\ UNCHANGED <<running, dirty, disk>>

(* Fault: the clone of the candidate shares its data with running *)
EditAliased(chg) ==
  /\ WellTyped(chg) = DOMAIN chg
  /\ Validates(Overlay(cand, chg))
  /\ cand' = Overlay(cand, chg)
  /\ running' = Overlay(running, chg)
  /\ MarkDirty(DOMAIN chg)
  /\ UNCHANGED disk

(* Edit, accepted *)
EditAccepted(chg) ==
  /\ WellTyped(chg) = DOMAIN chg
  /\ Validates(Overlay(cand, chg))
  /\ cand' = Overlay(cand, chg)
  /\ MarkDirty(DOMAIN chg)
  /\ UNCHANGED <<running, disk>>

(* Edit, refused.  The loop over the map visits the leaves in any order, so
   the ones marked before applyChange meets an ill-typed value are any of the
   others; if validate refuses, all have been marked.  The marks stay. *)
EditRefused(chg) ==
  /\ \/ /\ WellTyped(chg) # DOMAIN chg
        /\ \E K \in SUBSET WellTyped(chg) : MarkDirty(K)
     \/ /\ WellTyped(chg) = DOMAIN chg
        /\ ~Validates(Overlay(cand, chg))
        /\ MarkDirty(DOMAIN chg)
  /\ UNCHANGED <<running, cand, disk>>

(* ResetCandidate *)
ResetCandidate ==
  /\ cand' = running
  /\ dirty' = {}
  /\ dirtyKeys' = {}
  /\ UNCHANGED <<running, disk>>

(* Fault: the renderer is handed the running configuration *)
PatchedFromRunning(F) ==
  [k \in Leaves |-> IF k \in dirtyKeys /\ FileOf[k] \in F
                      THEN ReadBack[running[k]] ELSE disk[k]]

(* The files as the renderer leaves them: each file of F is read again and
   the edited leaves that live in it are patched with the candidate's value *)
Patched(F) ==
  [k \in Leaves |-> IF k \in dirtyKeys /\ FileOf[k] \in F
                      THEN ReadBack[cand[k]] ELSE disk[k]]

(* Fault: FinalizeCommit reads the files back instead of the candidate *)
FinalizeFromFiles ==
  /\ Validates(cand)
  /\ running' = disk
  /\ dirty' = {}
  /\ dirtyKeys' = {}
  /\ UNCHANGED <<cand, disk>>

(* FinalizeCommit, which succeeds when the candidate validates *)
FinalizeCommit ==
  /\ Validates(cand)
  /\ running' = cand
  /\ dirty' = {}
  /\ dirtyKeys' = {}
  /\ UNCHANGED <<cand, disk>>

(* The files as restoreDirtyFilesLocked leaves them: of the files saved, only
   the ones that are dirty NOW are written back, F of them *)
Restored(backup, saved, F) ==
  [k \in Leaves |-> IF FileOf[k] \in F \cap saved \cap dirty
                      THEN backup[k] ELSE disk[k]]

(* RollbackPersist.  It stops at the first file it cannot write, which leaves
   the files outside F as they are. *)
RollbackPersist(backup, saved, F) ==
  /\ disk' = Restored(backup, saved, F)
  /\ UNCHANGED memVars

(* NewStore reads both configurations from the files and validates them *)
StoreInit ==
  /\ disk \in ValidConfigs
  /\ running = disk
  /\ cand = disk
  /\ dirty = {}
  /\ dirtyKeys = {}

-----------------------------------------------------------------------------
(***************************************************************************)
(* Every difference between the candidate and the running configuration is *)
(* marked, by leaf and by file: what a commit makes running is what it     *)
(* writes (markDirtyLocked, store.go:551-578, against editLocked), however *)
(* edits, resets, failed and successful commits follow each other.         *)
(***************************************************************************)
EditsAreMarked ==
  /\ {k \in Leaves : cand[k] # running[k]} \subseteq dirtyKeys
  /\ dirty = {FileOf[k] : k \in dirtyKeys}

(* Both configurations are valid, and what differs is marked *)
StoreOK ==
  /\ running \in ValidConfigs
  /\ cand \in ValidConfigs
  /\ disk \in Configs
  /\ dirtyKeys \in SUBSET Leaves
  /\ EditsAreMarked
=============================================================================
