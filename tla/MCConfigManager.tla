--------------------------- MODULE MCConfigManager ---------------------------
(* Instances of the configuration manager with two requests at a time. *)
EXTENDS ConfigManager, TLC

CONSTANTS p1, p2, tx_gain, pci, enb_conf, rr_conf

MCFileOf == [k \in Leaves |-> IF k = tx_gain THEN enb_conf ELSE rr_conf]
MCReadBack == [v \in Good |-> v]
MCSymmetry == Permutations(Good)

(* What becomes of the files, the running configuration and the eNB: two commits
   beside a requested restart.  Nothing here depends on who calls, so that
   there are no sessions, and edits are made in one step.  What follows an
   incident that both properties excuse is not explored. *)
MCFilesCalls ==
  p1 :> {"flat", "commit", "discard"} @@ p2 :> {"flat", "commit", "restart"}
MCFilesHistory == {"disturbed", "broken", "norestart", "midway"}
FilesUnexcused ==
  \/ history \cap {"disturbed", "broken"} = {}
  \/ history \cap {"broken", "norestart", "midway"} = {}

(* What becomes of locks, edits and artifacts: the requests of a session and
   anonymous ones, beside the collector and other locks.  What follows an
   artifact that was not written, or two that crossed, is explored with the
   artifacts written. *)
MCSessionsCalls ==
  p1 :> {"lock", "unlock", "keepalive", "edit", "discard", "commit", "close", "resetall"} @@
  p2 :> {"sweep", "lock"}
MCSessionsHistory ==
  {"noartifact", "crossed", "anonymous", "unreported", "late", "unowned", "overtaken"}
SessionsUnexcused == history \cap {"noartifact", "crossed", "overtaken"} = {}
=============================================================================
