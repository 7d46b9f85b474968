---------------------------- MODULE HealthFaults ----------------------------
(***************************************************************************)
(* The health tracker (internal/ems/health/health.go) and the fault        *)
(* service that turns its events into alarms                               *)
(* (internal/ems/services/fault_service.go).  Each component is reported   *)
(* by one goroutine, which changes the tracker under its mutex and sends   *)
(* the events after it has released it; the service subscribes, is sent    *)
(* the present status, and reads until its channel is closed.              *)
(***************************************************************************)
EXTENDS Naturals, Sequences, FiniteSets

CONSTANTS
  Tracked, \* the components: the reader of metrics ("uds") and the NETCONF server
  Slack,   \* the room of a subscriber's channel beyond the replay (16)
  Reports  \* what is reported: "up", "down", or "minor", which is down with an
           \* error below the severity that raises an alarm

VARIABLES
  status,    \* the tracker's components; "none" before the first report
  sending,   \* what the reporter of each component still has to send
  sub,       \* the subscription: "none", "replay", "live", "closed"; "done"
             \* once the service has returned
  replay,    \* the statuses that Subscribe still has to send
  chan,      \* the subscriber's channel
  room,      \* its capacity
  alarm,     \* whether an alarm of the component is active
  cancelled, \* the context is cancelled
  panicked,  \* the process has died of a send on a closed channel
  due,       \* history: whether an alarm of the component should be active
  dropped,   \* history: components whose latest event met a full channel
  overtaken  \* history: components whose replay was sent after a later event

healthVars == <<status, sending, sub, replay, chan, room, alarm, cancelled, panicked,
                due, dropped, overtaken>>

Down == {"down", "minor"}

(* the overall state that derive computes *)
Derive(st) ==
  LET down == {c \in Tracked : st[c] \in Down} IN
  CASE down = Tracked -> "critical"
    [] down # {} /\ down # Tracked -> "degraded"
    [] down = {} /\ \E c \in Tracked : st[c] = "up" -> "healthy"
    [] OTHER -> "unknown"

StateChange == [c |-> "all", s |-> "state"]

Registered == sub \in {"replay", "live"}
-----------------------------------------------------------------------------
(* a component event if the status changed, then a state event if the overall
   state did *)
Events(c, s, changed) ==
  (IF changed THEN <<[c |-> c, s |-> s]>> ELSE <<>>)
    \o (IF Derive([status EXCEPT ![c] = s]) # Derive(status)
        THEN <<StateChange>> ELSE <<>>)

(* set, up to the release of the mutex.  Two errors of one kind are a change if
   their texts differ.  Once the channel is closed reports reach nobody, and
   they are left out. *)
Set(c, s) ==
  /\ sub \notin {"closed", "done"}
  /\ sending[c] = <<>>
  /\ \E changed \in BOOLEAN :
       /\ status[c] # s => changed
       /\ s = "up" /\ status[c] = "up" => ~changed
       /\ sending' = [sending EXCEPT ![c] =
                        IF Registered THEN Events(c, s, changed) ELSE <<>>]
  /\ status' = [status EXCEPT ![c] = s]
  /\ due' = IF Registered /\ s # "minor" THEN [due EXCEPT ![c] = (s = "down")] ELSE due
  /\ UNCHANGED <<sub, replay, chan, room, alarm, cancelled, panicked,
                 dropped, overtaken>>

(* broadcast of one event: it is dropped if the channel is full.  A send on a
   channel that was closed meanwhile panics. *)
Send(c) ==
  /\ sending[c] # <<>>
  /\ LET e == Head(sending[c]) IN
       \/ /\ sub \in {"closed", "done"}
          /\ panicked' = TRUE
          /\ UNCHANGED <<chan, dropped, overtaken>>
       \/ /\ Registered
          /\ Len(chan) < room
          /\ chan' = Append(chan, e)
          /\ dropped' = IF e.s = "minor" THEN dropped ELSE dropped \ {e.c}
          /\ overtaken' = IF e.s = "minor" THEN overtaken ELSE overtaken \ {e.c}
          /\ UNCHANGED panicked
       \/ /\ Registered
          /\ Len(chan) >= room
          /\ dropped' = dropped \cup ({e.c} \cap Tracked)
          /\ UNCHANGED <<chan, overtaken, panicked>>
  /\ sending' = [sending EXCEPT ![c] = Tail(@)]
  /\ UNCHANGED <<status, sub, replay, room, alarm, cancelled, due>>
-----------------------------------------------------------------------------
(* Subscribe, up to the release of the mutex *)
Subscribe ==
  /\ sub = "none"
  /\ sub' = "replay"
  /\ replay' = {[c |-> c, s |-> status[c]] : c \in {x \in Tracked : status[x] # "none"}}
  /\ room' = Cardinality(replay') + Slack
  /\ due' = [c \in Tracked |->
               IF status[c] \in {"up", "down"} THEN status[c] = "down" ELSE alarm[c]]
  /\ UNCHANGED <<status, sending, chan, alarm, cancelled, panicked, dropped, overtaken>>

(* one status of the replay, in any order: a send that waits for room *)
Replay ==
  /\ sub = "replay"
  /\ Len(chan) < room
  /\ \E e \in replay :
       /\ replay' = replay \ {e}
       /\ chan' = Append(chan, e)
       /\ overtaken' = IF \E i \in DOMAIN chan : chan[i].c = e.c
                       THEN overtaken \cup {e.c} ELSE overtaken
  /\ UNCHANGED <<status, sending, sub, room, alarm, cancelled, panicked, due, dropped>>

(* Subscribe returns; only now is somebody reading the channel *)
Subscribed ==
  /\ sub = "replay"
  /\ replay = {}
  /\ sub' = "live"
  /\ UNCHANGED <<status, sending, replay, chan, room, alarm, cancelled, panicked,
                 due, dropped, overtaken>>

Cancel ==
  /\ ~cancelled
  /\ cancelled' = TRUE
  /\ UNCHANGED <<status, sending, sub, replay, chan, room, alarm, panicked,
                 due, dropped, overtaken>>

(* Fault: the subscriber is forgotten and its channel left open *)
UnsubscribeNoClose ==
  /\ cancelled
  /\ sub = "live"
  /\ UNCHANGED healthVars

(* the goroutine that Subscribe leaves behind *)
Unsubscribe ==
  /\ cancelled
  /\ sub = "live"
  /\ sub' = "closed"
  /\ UNCHANGED <<status, sending, replay, chan, room, alarm, cancelled, panicked,
                 due, dropped, overtaken>>
-----------------------------------------------------------------------------
(* Fault: the service stops reading when the context ends, not the channel *)
AlarmAfterUnlessCancelled(e) ==
  IF cancelled THEN alarm
  ELSE CASE e.s = "down" -> [alarm EXCEPT ![e.c] = TRUE]
         [] e.s = "up" -> [alarm EXCEPT ![e.c] = FALSE]
         [] OTHER -> alarm

(* onComponentDown raises an alarm if the error is severe enough, onComponentUp
   clears the component's alarms, a state change is only logged *)
AlarmAfter(e) ==
  CASE e.s = "down" -> [alarm EXCEPT ![e.c] = TRUE]
    [] e.s = "up" -> [alarm EXCEPT ![e.c] = FALSE]
    [] OTHER -> alarm

Handle ==
  /\ sub \in {"live", "closed"}
  /\ chan # <<>>
  /\ alarm' = AlarmAfter(Head(chan))
  /\ chan' = Tail(chan)
  /\ UNCHANGED <<status, sending, sub, replay, room, cancelled, panicked,
                 due, dropped, overtaken>>

(* the channel is closed and empty: Run returns *)
Return ==
  /\ sub = "closed"
  /\ chan = <<>>
  /\ sub' = "done"
  /\ UNCHANGED <<status, sending, replay, chan, room, alarm, cancelled, panicked,
                 due, dropped, overtaken>>
-----------------------------------------------------------------------------
(* alarms of an earlier run of the agent may still be in its list *)
HealthInit ==
  /\ status = [c \in Tracked |-> "none"]
  /\ sending = [c \in Tracked |-> <<>>]
  /\ sub = "none"
  /\ replay = {}
  /\ chan = <<>>
  /\ room = 0
  /\ alarm \in [Tracked -> BOOLEAN]
  /\ cancelled = FALSE
  /\ panicked = FALSE
  /\ due = alarm
  /\ dropped = {}
  /\ overtaken = {}

Report == \E c \in Tracked : \E s \in Reports : Set(c, s)
Broadcast == \E c \in Tracked : Send(c)
Serve == Subscribe \/ Replay \/ Subscribed \/ Handle \/ Return

HealthNext == ~panicked /\ (Report \/ Broadcast \/ Serve \/ Unsubscribe \/ Cancel)

HealthSpec == HealthInit /\ [][HealthNext]_healthVars
-----------------------------------------------------------------------------
Quiet ==
  /\ ~panicked
  /\ sub \in {"live", "done"}
  /\ chan = <<>>
  /\ \A c \in Tracked : sending[c] = <<>>

(* Once everything sent has been handled, the list of alarms says of every
   component what the tracker says, unless its latest event was dropped or was
   overtaken by the replay of an older status. *)
AlarmsFollowHealth ==
  Quiet => \A c \in Tracked \ (dropped \cup overtaken) : alarm[c] = due[c]

(* A context that is cancelled ends the fault service, with all that was sent to
   it handled, unless the replay is stuck in a channel nobody reads yet. *)
ServiceStops ==
  (cancelled /\ sub # "none")
    ~> (sub = "done" \/ panicked \/ (sub = "replay" /\ Len(chan) = room))
=============================================================================
