------------------------------ MODULE MCOverlay ------------------------------
(***************************************************************************)
(* The files the renderer patches, in small: an enb.conf (IniOverlay), an  *)
(* rr.conf, a sib.conf and an rb.conf (LibconfigOverlay).  A behaviour is  *)
(* about one file of one kind.                                             *)
(***************************************************************************)
EXTENDS Integers, Sequences

CONSTANTS MaxLines, MaxItems, MaxCommits   \* bounds

VARIABLES
  kind,     \* the file: "enb", "rr", "sib" or "rb"
  file,     \* its lines or assignments
  newline, orig, want, refused, commits   \* as in the two modules

vars == <<kind, file, newline, orig, want, refused, commits>>

(* rf has a number and enb a name; each key may also stand, unmanaged, in the
   other section *)
Enb == INSTANCE IniOverlay WITH
         lines <- file,
         Sections <- {"enb", "rf"},
         Leaves <- <<<<"enb", "name">>, <<"rf", "gain">>>>,
         Keys <- {"name", "gain"}, Required <- {<<"enb", "name">>}, Floats <- {"gain"},
         Values <- {14, 20},
         Notes <- {"", "#", "//"}, HeaderNotes <- {"", "#"}, Ends <- BOOLEAN

Leaf(block, reads, patches, rule) ==
  [block |-> block, reads |-> reads, patches |-> patches, rule |-> rule,
   within |-> block \in {"qci7", "qci9"}, adds |-> block \in {"qci7", "qci9"},
   lines |-> block = "any", required |-> reads = "pci"]

Forms == {"line", "upper", "inline", "open"}

(* of rr.conf the first pci and the last a3_offset are read *)
RR == INSTANCE LibconfigOverlay WITH
        items <- file,
        Blocks <- {"cell1", "cell2"}, Keys <- {"pci", "a3_offset", "other"},
        Leaves <- <<Leaf("any", "a3_offset", "a3_offset", "last"),
                    Leaf("any", "pci", "pci", "first")>>,
        Values <- {1, 2}

(* of sib.conf a leaf of sib1, a key that sib3 may have as well, and the power, which
   is read from another key than it is written to *)
SIB == INSTANCE LibconfigOverlay WITH
        items <- file,
        Blocks <- {"sib1", "sib3"}, Keys <- {"q_rx_lev_min", "rs_power", "reference_signal_power"},
        Leaves <- <<Leaf("sib1", "q_rx_lev_min", "q_rx_lev_min", "first"),
                    Leaf("sib3", "rs_power", "reference_signal_power", "first")>>,
        Values <- {1, 2}

(* of rb.conf the same field of two profiles *)
RB == INSTANCE LibconfigOverlay WITH
        items <- file,
        Blocks <- {"qci7", "qci9"}, Keys <- {"t_reordering", "other"},
        Leaves <- <<Leaf("qci7", "t_reordering", "t_reordering", "first"),
                    Leaf("qci9", "t_reordering", "t_reordering", "first")>>,
        Values <- {1, 2}

Init ==
  \/ kind = "enb" /\ Enb!Init /\ refused = {}
  \/ kind = "rr" /\ RR!Init /\ newline = TRUE
  \/ kind = "sib" /\ SIB!Init /\ newline = TRUE
  \/ kind = "rb" /\ RB!Init /\ newline = TRUE

Next ==
  /\ \/ kind = "enb" /\ Enb!Next /\ UNCHANGED refused
     \/ kind = "rr" /\ RR!Next /\ UNCHANGED newline
     \/ kind = "sib" /\ SIB!Next /\ UNCHANGED newline
     \/ kind = "rb" /\ RB!Next /\ UNCHANGED newline
  /\ UNCHANGED kind

Spec == Init /\ [][Next]_vars
-----------------------------------------------------------------------------
(* After any sequence of commits each file reads as the values that were committed
   and, for every other leaf, as before (renderer.go against the parsers), where both
   sides mean the same assignment of the file.  Then what is not a managed leaf stays
   as it was, comments with # included.  And a commit is refused only for a leaf that
   the file does not have or that the two sides see differently
   (patchLibconfigScalar, patchQCIProfile). *)
OverlayIsFaithful ==
  /\ kind = "enb" => Enb!ReadsBack /\ Enb!OthersKept
  /\ kind = "rr" => RR!ReadsBack /\ RR!OthersKept /\ RR!ReadMeansEditable
  /\ kind = "sib" => SIB!ReadsBack /\ SIB!OthersKept /\ SIB!ReadMeansEditable
  /\ kind = "rb" => RB!ReadsBack /\ RB!OthersKept /\ RB!ReadMeansEditable

(* Commits "must preserve every non-managed byte in operator files" (renderer.go:
   15-16): the lines and assignments that are not read as a managed leaf, and the
   comments behind those that are. *)
NonManagedIsPreserved ==
  /\ kind = "enb" => Enb!UnreadKept
  /\ kind = "rr" => RR!UnreadKept
  /\ kind = "sib" => SIB!UnreadKept
  /\ kind = "rb" => RB!UnreadKept
=============================================================================
