------------------------------ MODULE EventBus ------------------------------
(***************************************************************************)
(* The event bus (internal/ems/bus) with the services on it: the metrics   *)
(* consumer, the PM engine, the threshold alerts and the fault service     *)
(* publish, the telemetry cache, the PM engine, the threshold alerts and   *)
(* the NETCONF snapshot subscribe.  A publisher serves the subscriptions   *)
(* one after the other under the bus's read lock and never waits for one;  *)
(* a subscription is closed under the write lock once the context is       *)
(* cancelled.  The samples come from MetricsPipeline, a sample is its      *)
(* number; what the PM engine computes is in PmWindows, which alarms are   *)
(* raised in ThresholdAlerts, HealthFaults and AlarmLog.                   *)
(***************************************************************************)
EXTENDS Integers, Sequences, FiniteSets

CONSTANTS
  Buffer,     \* the capacity of a subscription (bus.buffer)
  MaxSamples, \* bound: the samples
  MaxReports, \* bound: the PM reports
  MaxAlarms,  \* bound: the changes of the alarm list
  Deployments \* the sets of services that the agent may be made of

Subscribers == {"cache", "pm", "tca", "snapshot"}
Publishers == {"consumer", "pm", "tca", "faults"}
Services == Publishers \cup Subscribers

ASSUME BusAssumption ==
  /\ Buffer \in Nat \ {0}
  /\ {MaxSamples, MaxReports, MaxAlarms} \subseteq Nat
  /\ Deployments \subseteq SUBSET Services

VARIABLES
  mapped,      \* the last sample the consumer took
  legacy,      \* the last sample the snapshot took and could normalize
  subs,        \* the registered subscriptions
  closed,      \* the closed ones
  box,         \* what a subscription holds
  publishing,  \* per publisher, its message and the subscriptions left to serve
  cache,       \* the telemetry store
  pmStore,     \* the number of the latest PM report
  alarmStore,  \* the number of the last change of the alarm list
  file,        \* the snapshot file: a sample, a report and an alarm list
  stale,       \* history: an event for the snapshot, or its write, was lost
  running,     \* the services that have not returned
  cancelled    \* the context

vars == <<mapped, legacy, subs, closed, box, publishing, cache, pmStore, alarmStore,
          file, stale, running, cancelled>>

messaging == <<subs, closed, box, publishing>>
stores == <<cache, pmStore, alarmStore, file, stale>>
samples == <<mapped, legacy>>
life == <<running, cancelled>>

Silent == [kind |-> "none", n |-> 0]
Busy(p) == publishing[p].msg # Silent
Returned(s) == running' = running \ {s}
-----------------------------------------------------------------------------
(* Publish takes the read lock and serves the subscriptions of that moment *)
Publishing(p, msg) ==
  publishing' = [publishing EXCEPT ![p] =
    IF subs = {} THEN [msg |-> Silent, left |-> {}] ELSE [msg |-> msg, left |-> subs]]

(* MetricsConsumer.Run: a sample is mapped and published, or mapping fails; the
   fanout may have dropped samples since the last *)
Consume ==
  /\ "consumer" \in running
  /\ ~Busy("consumer")
  /\ \E n \in (mapped + 1)..MaxSamples :
       /\ mapped' = n
       /\ \/ Publishing("consumer", [kind |-> "telemetry", n |-> n])
          \/ UNCHANGED publishing
  /\ UNCHANGED <<legacy, subs, closed, box, stores, life>>

(* PM Engine.Run: a tick of the granularity timer flushes; the snapshot hears
   of it only if it is subscribed by then *)
Flush ==
  /\ "pm" \in running
  /\ "pm" \in subs \cup closed
  /\ ~Busy("pm")
  /\ pmStore < MaxReports
  /\ pmStore' = pmStore + 1
  /\ Publishing("pm", [kind |-> "pm", n |-> pmStore + 1])
  /\ stale' = (stale \/ "snapshot" \notin subs)
  /\ UNCHANGED <<samples, subs, closed, box, cache, alarmStore, file, life>>

(* an alarm is raised or cleared, and its event published *)
ChangeAlarms(p) ==
  /\ alarmStore < MaxAlarms
  /\ alarmStore' = alarmStore + 1
  /\ Publishing(p, [kind |-> "alarm", n |-> alarmStore + 1])
  /\ stale' = (stale \/ "snapshot" \notin subs)

(* FaultService on a change of a component's health, which AlarmLogReader does for
   a line of the eNB's log *)
ReportFault ==
  /\ "faults" \in running
  /\ ~Busy("faults")
  /\ ChangeAlarms("faults")
  /\ UNCHANGED <<samples, subs, closed, box, cache, pmStore, file, life>>

(* the services that select on the context return when they are not busy *)
Stop(s) ==
  /\ s \in running \ {"cache"}
  /\ cancelled
  /\ s \in Publishers => ~Busy(s)
  /\ Returned(s)
  /\ UNCHANGED <<samples, messaging, stores, cancelled>>
-----------------------------------------------------------------------------
HasRoom(s) == Len(box[s]) < Buffer

(* Publish serves one subscription, without waiting; the last one ends it *)
Serve(p, s) ==
  LET pub == publishing[p]
      left == pub.left \ {s}
  IN /\ Busy(p)
     /\ s \in pub.left
     /\ box' = IF HasRoom(s) THEN [box EXCEPT ![s] = Append(@, pub.msg)] ELSE box
     /\ stale' = (stale \/ (s = "snapshot" /\ pub.msg.kind \in {"pm", "alarm"} /\ ~HasRoom(s)))
     /\ publishing' = [publishing EXCEPT ![p] =
          IF left = {} THEN [msg |-> Silent, left |-> {}] ELSE [@ EXCEPT !.left = left]]
     /\ UNCHANGED <<samples, subs, closed, cache, pmStore, alarmStore, file, life>>

Subscribe(s) ==
  /\ s \in running
  /\ s \notin subs \cup closed
  /\ \A p \in Publishers : ~Busy(p)
  /\ subs' = subs \cup {s}
  /\ UNCHANGED <<samples, closed, box, publishing, stores, life>>

(* Fault: the subscription is closed without the bus's lock *)
UnsubscribeUnlocked(s) ==
  /\ cancelled
  /\ s \in subs
  /\ subs' = subs \ {s}
  /\ closed' = closed \cup {s}
  /\ UNCHANGED <<samples, box, publishing, stores, life>>

(* Fault: the subscription is removed and not closed *)
UnsubscribeOnly(s) ==
  /\ cancelled
  /\ s \in subs
  /\ \A p \in Publishers : ~Busy(p)
  /\ subs' = subs \ {s}
  /\ UNCHANGED <<samples, closed, box, publishing, stores, life>>

(* the goroutine of Subscribe: it needs the lock that publishers share *)
Unsubscribe(s) ==
  /\ cancelled
  /\ s \in subs
  /\ \A p \in Publishers : ~Busy(p)
  /\ subs' = subs \ {s}
  /\ closed' = closed \cup {s}
  /\ UNCHANGED <<samples, box, publishing, stores, life>>
-----------------------------------------------------------------------------
Received(s) == box' = [box EXCEPT ![s] = Tail(@)]

(* TelemetryCache.Run: until its subscription is closed and empty *)
CacheTakes ==
  /\ "cache" \in running
  /\ box["cache"] # <<>>
  /\ Received("cache")
  /\ cache' = IF Head(box["cache"]).kind = "telemetry" THEN Head(box["cache"]).n ELSE cache
  /\ UNCHANGED <<samples, subs, closed, publishing, pmStore, alarmStore, file, stale, life>>

CacheStops ==
  /\ "cache" \in running
  /\ "cache" \in closed
  /\ box["cache"] = <<>>
  /\ Returned("cache")
  /\ UNCHANGED <<samples, messaging, stores, cancelled>>

(* PM Engine.Run ingests a message *)
PmTakes ==
  /\ "pm" \in running
  /\ ~Busy("pm")
  /\ box["pm"] # <<>>
  /\ Received("pm")
  /\ UNCHANGED <<samples, subs, closed, publishing, stores, life>>

(* TCAService.Run: a PM report may raise or clear alarms *)
TcaTakes ==
  /\ "tca" \in running
  /\ ~Busy("tca")
  /\ box["tca"] # <<>>
  /\ Received("tca")
  /\ \/ Head(box["tca"]).kind = "pm" /\ ChangeAlarms("tca")
     \/ UNCHANGED <<publishing, alarmStore, stale>>
  /\ UNCHANGED <<samples, subs, closed, cache, pmStore, file, life>>

(* BuildCombinedSnapshot and WriteSnapshotFile, which may fail *)
WriteSnapshot(n) ==
  \/ file' = [sample |-> n, report |-> pmStore, alarms |-> alarmStore] /\ stale' = FALSE
  \/ UNCHANGED file /\ stale' = TRUE

(* Fault: a sample is written with the report of the first snapshot *)
SnapshotSampleKeepsReport ==
  /\ "snapshot" \in running
  /\ "snapshot" \in subs \cup closed
  /\ \E n \in (legacy + 1)..MaxSamples :
       /\ legacy' = n
       /\ file' = [sample |-> n, report |-> 0, alarms |-> alarmStore]
  /\ UNCHANGED <<mapped, messaging, cache, pmStore, alarmStore, stale, life>>

(* NetconfSnapshot.Run on a sample; one that cannot be normalized is skipped *)
SnapshotSample ==
  /\ "snapshot" \in running
  /\ "snapshot" \in subs \cup closed
  /\ \E n \in (legacy + 1)..MaxSamples :
       /\ legacy' = n
       /\ WriteSnapshot(n)
  /\ UNCHANGED <<mapped, messaging, cache, pmStore, alarmStore, life>>

(* Fault: the snapshot is written for samples only *)
SnapshotIgnoresEvents ==
  /\ "snapshot" \in running
  /\ box["snapshot"] # <<>>
  /\ Received("snapshot")
  /\ UNCHANGED <<samples, subs, closed, publishing, stores, life>>

(* NetconfSnapshot.Run on an event of the bus *)
SnapshotEvent ==
  /\ "snapshot" \in running
  /\ box["snapshot"] # <<>>
  /\ Received("snapshot")
  /\ IF Head(box["snapshot"]).kind \in {"pm", "alarm"} THEN WriteSnapshot(legacy)
     ELSE UNCHANGED <<file, stale>>
  /\ UNCHANGED <<samples, subs, closed, publishing, cache, pmStore, alarmStore, life>>
-----------------------------------------------------------------------------
Cancel ==
  /\ ~cancelled
  /\ cancelled' = TRUE
  /\ UNCHANGED <<samples, messaging, stores, running>>

Init ==
  /\ mapped = 0
  /\ legacy = 0
  /\ subs = {}
  /\ closed = {}
  /\ box = [s \in Subscribers |-> <<>>]
  /\ publishing = [p \in Publishers |-> [msg |-> Silent, left |-> {}]]
  /\ cache = 0
  /\ pmStore = 0
  /\ alarmStore = 0
  /\ file = [sample |-> 0, report |-> 0, alarms |-> 0]
  /\ stale = FALSE
  /\ running \in Deployments
  /\ cancelled = FALSE

Consumer == Consume \/ \E s \in Subscribers : Serve("consumer", s)
Pm == Flush \/ PmTakes \/ \E s \in Subscribers : Serve("pm", s)
Tca == TcaTakes \/ \E s \in Subscribers : Serve("tca", s)
Faults == ReportFault \/ \E s \in Subscribers : Serve("faults", s)
Cache == CacheTakes \/ CacheStops
Snapshot == SnapshotSample \/ SnapshotEvent

Next ==
  \/ Consumer \/ Pm \/ Tca \/ Faults \/ Cache \/ Snapshot \/ Cancel
  \/ \E s \in Subscribers : Subscribe(s) \/ Unsubscribe(s)
  \/ \E s \in Services : Stop(s)

Spec == Init /\ [][Next]_vars
-----------------------------------------------------------------------------
(* No publisher is about to send to a subscription that has been closed, which
   would panic: closing needs the lock that a publisher holds to its end. *)
NoSendOnClosed == \A p \in Publishers : publishing[p].left \cap closed = {}

(* When nothing is on its way to it, the snapshot file shows the last sample
   normalized, the last PM report and the alarm list as it is, unless an event was
   dropped by its full subscription, or the write failed. *)
SnapshotIsCurrent ==
  ( /\ "snapshot" \in running
    /\ "snapshot" \in subs
    /\ box["snapshot"] = <<>>
    /\ \A p \in Publishers : ~Busy(p)
    /\ ~stale )
  => file = [sample |-> legacy, report |-> pmStore, alarms |-> alarmStore]

(* The snapshot file follows the measurements: it is current, and messages that are
   dropped on the way never overtake each other: the telemetry cache does not go
   back to an older sample, nor the file to an older report or alarm list. *)
SnapshotFollows ==
  /\ []SnapshotIsCurrent
  /\ [][/\ cache' >= cache
        /\ file'.report >= file.report
        /\ file'.alarms >= file.alarms]_vars

(* Once the context is cancelled every service on the bus returns, whatever is
   still in the subscriptions. *)
ServicesReturn == cancelled ~> (running = {})
=============================================================================
