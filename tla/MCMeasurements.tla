--------------------------- MODULE MCMeasurements ---------------------------
(***************************************************************************)
(* Measurements for TLC.  The parts share no variable, so a behaviour is   *)
(* one of part, in which one of them takes steps and the rest stutters:    *)
(* the bus; the PM engine with counters or with gauges; the threshold      *)
(* alerts with reports for one kind of rules.                              *)
(***************************************************************************)
EXTENDS EventBus, PmWindows, ThresholdAlerts

VARIABLE part  \* the part that moves

(* the services that a measurement passes, and those that an alarm of either origin
   passes beside the reports *)
MCDeployments ==
  {{"consumer", "cache", "pm", "snapshot"}, {"pm", "tca", "snapshot"}, {"pm", "faults", "snapshot"}}

(* three cells, the first with a UE, the second with two, and room for the node and
   two of them *)
MCCellList == <<"cell1", "cell2", "cell3">>
MCCellOf == [ue1 |-> "cell1", ue2 |-> "cell2", ue3 |-> "cell2"]

Rule(raise, clear, raiseDuration, clearDuration) ==
  [enabled |-> TRUE, raise |-> raise, clear |-> clear,
   raiseDuration |-> raiseDuration, clearDuration |-> clearDuration]

(* DemoSafeConfig with its thresholds and durations scaled down *)
MCDefault(r) ==
  CASE r = "bad_signal_condition" -> Rule(0, 1, 2, 1)
    [] r = "nas_signaling_loss"   -> Rule(0, 0, 0, 2)
    [] r = "high_bler"            -> Rule(1, 1, 1, 1)
    [] r = "bearer_congestion"    -> Rule(1, 0, 1, 1)
    [] r = "low_throughput"       -> Rule(1, 2, 2, 1)

(* the file gives the bad signal rule a threshold and a shorter raise duration *)
MCFile(r) ==
  IF r = "bad_signal_condition" THEN Rule(0, 0, 1, 0)
  ELSE [Rule(0, 0, 0, 0) EXCEPT !.enabled = FALSE]

(* the thresholds that the rules end up with are in order *)
ASSUME ThresholdsHold == ThresholdsInOrder

MCLevels == -1..2

(* what the reports of a part hold, their values, and its bounds *)
Parts ==
  [signal |-> [cell |-> {"ul_snr", "dl_cqi"}, node |-> {}, levels |-> -1..1,
               time |-> 3, reports |-> 4, restarts |-> 1],
   nodes |-> [cell |-> {"nas_dl_drop", "nas_ul_fail", "dl_bler", "ul_bler"}, node |-> {}, levels |-> 0..1,
              time |-> 2, reports |-> 3, restarts |-> 0],
   bearers |-> [cell |-> {"bearer.1", "bearer.2"}, node |-> {}, levels |-> 0..2,
                time |-> 2, reports |-> 3, restarts |-> 0],
   throughput |-> [cell |-> {"dl_bitrate"}, node |-> {"connected_ues"}, levels |-> 0..2,
                   time |-> 3, reports |-> 3, restarts |-> 0]]

MCMetricsOf == [o \in {"cell", "node"} |-> UNION {Parts[p][o] : p \in DOMAIN Parts}]

Of(p, o) == UNION {[ms -> Parts[p].levels] : ms \in (SUBSET Parts[p][o]) \ {{}}}
ReportsOf(p) == [{"cell"} -> Of(p, "cell")] \cup [{"node"} -> Of(p, "node")] \cup
                {[cell |-> c, node |-> n] : c \in Of(p, "cell"), n \in Of(p, "node")}

Still == [s \in Sources |-> 0]

MCInit ==
  /\ Init /\ PmInit /\ AlertInit
  /\ part \in {"bus", "counters", "gauges"} \cup DOMAIN Parts
  /\ part # "bus" => "cache" \in running

MCNext ==
  /\ \/ part = "bus" /\ Next /\ UNCHANGED <<pmVars, alertVars>>
     \/ /\ part = "counters"
        /\ \/ \E s \in {"node", "ue1"} : Grow(s) \/ StartAgain(s)
           \/ \E us \in {<<>>, <<"ue1">>} :
                Receive([c \in Cells |-> IF c = "cell1" THEN us ELSE <<>>], Still)
           \/ FlushWindow
        /\ UNCHANGED <<vars, alertVars>>
     \/ /\ part = "gauges"
        /\ \/ /\ events < 2
              /\ \E us \in {<<>>, <<"ue2">>, <<"ue3">>, <<"ue2", "ue3">>, <<"ue3", "ue2">>} :
                   \E level \in [Sources -> GaugeLevels] :
                     /\ level["ue1"] = 0
                     /\ Receive([c \in Cells |-> IF c = "cell2" THEN us ELSE <<>>], level)
           \/ FlushWindow
        /\ UNCHANGED <<vars, alertVars>>
     \/ /\ part \in DOMAIN Parts
        /\ Tick \/ Restart \/ \E r \in ReportsOf(part) : Evaluate(r)
        /\ now' <= Parts[part].time
        /\ reports' <= Parts[part].reports
        /\ starts' <= Parts[part].restarts
        /\ UNCHANGED <<vars, pmVars>>
  /\ UNCHANGED part

MCSpec == MCInit /\ [][MCNext]_<<part, vars, pmVars, alertVars>>
=============================================================================
