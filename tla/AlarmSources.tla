---------------------------- MODULE AlarmSources ----------------------------
(***************************************************************************)
(* Two services that find out about a fault and raise an alarm for it: the *)
(* fault service behind the health tracker and the reader of the alarm     *)
(* log.  They run side by side, and meet only in the mutex of the alarm    *)
(* list.                                                                   *)
(***************************************************************************)
EXTENDS HealthFaults, AlarmLog

SourcesSpec == HealthSpec /\ LogSpec

(* The alarms are those their sources call for.  Once everything sent has been
   handled, they are those of the components that are down, unless an event was
   dropped, or overtaken by the replay of an older status (Tracker.Subscribe,
   FaultService.Run).  After a poll they are those of the whole lines of the log,
   unless a poll found half a line or something was truncated before it was read,
   and within a run of the agent no line is handled twice, unless one behind it is
   too long for the scanner (readNewLines). *)
AlarmsFollowSources == AlarmsFollowHealth /\ AlarmsFollowLog /\ HandledOnce
=============================================================================
