------------------------------ MODULE MCAlarms ------------------------------
(***************************************************************************)
(* The way of an alarm, for TLC: the services that find out about a fault  *)
(* (AlarmSources) and the list with its queue (AlarmList), once with two   *)
(* services and once with two alarms of one service.                       *)
(*                                                                         *)
(* The services reach the list through its mutex only, and each model      *)
(* leaves the others' effect on its own variables out.  So the models      *)
(* are checked side by side: a behaviour is one of part, and the rest      *)
(* stutters.                                                               *)
(***************************************************************************)
EXTENDS AlarmList, AlarmSources, TLC

CONSTANTS uds, netconf   \* the components of the health tracker

VARIABLE part  \* the model that moves

MCTracked == {uds, netconf}

(* the alarm log reader and the threshold alerts, with one alarm each *)
MCOf == [first |-> "srsenb", second |-> "tca"]

(* two alarms of one component, which can change their severity and be cleared
   together *)
Two == INSTANCE AlarmList WITH
         Of <- [first |-> "srsenb", second |-> "srsenb"],
         Severities <- {"major", "minor"}, MaxID <- 2

(* A log of three lines is what it takes to read two, truncate it, and find one; in
   a shorter one a line can say all that there is. *)
Lines == INSTANCE AlarmLog WITH
           Words <- {"s1", "error", "clear", "plain", "huge"}, MaxWrites <- 5

Parts == {"services", "severities", "health", "log", "lines"}

MCInit ==
  /\ part \in Parts
  /\ ListInit /\ LogInit
  /\ HealthInit /\ (part # "health" => alarm = [c \in Tracked |-> FALSE])

MCNext ==
  /\ \/ part = "services" /\ ListNext /\ UNCHANGED <<healthVars, logVars>>
     \/ part = "severities" /\ Two!ListNext /\ UNCHANGED <<healthVars, logVars>>
     \/ part = "health" /\ HealthNext /\ UNCHANGED <<listVars, logVars>>
     \/ part = "log" /\ LogNext /\ UNCHANGED <<listVars, healthVars>>
     \/ part = "lines" /\ Lines!LogNext /\ UNCHANGED <<listVars, healthVars>>
  /\ UNCHANGED part

MCSpec == MCInit /\ [][MCNext]_<<part, listVars, healthVars, logVars>>

Interchangeable == Permutations(MCTracked)
=============================================================================
