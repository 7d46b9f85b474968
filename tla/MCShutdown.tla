----------------------------- MODULE MCShutdown -----------------------------
(***************************************************************************)
(* The goroutines of the agent from their start to their end: the          *)
(* supervisor of the NETCONF server (ServerSupervisor), the fault service  *)
(* (HealthFaults), the reader and its fanout with the runner, with and     *)
(* without the forwarding reader (MetricsPipeline), and the services on    *)
(* the bus (EventBus).                                                     *)
(*                                                                         *)
(* What they share is the context, and each model has it cancelled at any  *)
(* time.  So the models are checked side by side: a behaviour is one of    *)
(* part, and the rest stutters.                                            *)
(***************************************************************************)
EXTENDS ServerSupervisor, Sequences, FiniteSets

VARIABLES
  part,   \* the model that moves
  status, sending, sub, replay, events, room, alarm, noFaults, panicked, due, dropped, overtaken,
  sent, adapter, held, chan, taken, reading, noSamples, runner,
  mapped, legacy, subs, closed, box, publishing, cache, pmStore, alarmStore, file, stale, onBus, noBus

faultVars == <<status, sending, sub, replay, events, room, alarm, noFaults, panicked, due, dropped, overtaken>>
pipeVars == <<sent, adapter, held, chan, taken, reading, noSamples, runner>>
busVars == <<mapped, legacy, subs, closed, box, publishing, cache, pmStore, alarmStore, file, stale, onBus, noBus>>

Fault == INSTANCE HealthFaults WITH
           chan <- events, cancelled <- noFaults,
           Tracked <- {"netconf"}, Slack <- 2, Reports <- {"up", "down", "minor"}

Pipe == INSTANCE MetricsPipeline WITH
          running <- reading, cancelled <- noSamples,
          LogUDS <- FALSE, Cap <- 2, MaxSamples <- 4

Forward == INSTANCE MetricsPipeline WITH
             running <- reading, cancelled <- noSamples,
             LogUDS <- TRUE, Cap <- 1, MaxSamples <- 3

Bus == INSTANCE EventBus WITH
         running <- onBus, cancelled <- noBus,
         Buffer <- 1, MaxSamples <- 1, MaxReports <- 1, MaxAlarms <- 1,
         Deployments <- {{"consumer", "cache", "pm", "snapshot"}, {"pm", "tca", "snapshot"},
                         {"consumer", "faults", "snapshot"}}

AllInit ==
  /\ part \in {"supervisor", "faults", "pipe", "forward", "bus"}
  /\ SupInit /\ Fault!HealthInit /\ Pipe!Init /\ Bus!Init
  /\ part # "faults" => ~alarm["netconf"]
  /\ part # "bus" => "cache" \in onBus

AllNext ==
  /\ \/ part = "supervisor" /\ SupNext /\ UNCHANGED <<faultVars, pipeVars, busVars>>
     \/ part = "faults" /\ Fault!HealthNext /\ UNCHANGED <<supVars, pipeVars, busVars>>
     \/ part = "pipe" /\ Pipe!Next /\ UNCHANGED <<supVars, faultVars, busVars>>
     \/ part = "forward" /\ Forward!Next /\ UNCHANGED <<supVars, faultVars, busVars>>
     \/ part = "bus" /\ Bus!Next /\ UNCHANGED <<supVars, faultVars, pipeVars>>
  /\ UNCHANGED part

(* Every goroutine goes on when it can, a select does not neglect the context for
   ever, a killed process dies, and not every read of the socket fails at once.
   Nothing makes the eNB send, the components report, a process end or the operator
   stop the agent. *)
AllFair ==
  /\ WF_supVars(part = "supervisor" /\ Supervise)
  /\ WF_supVars(part = "supervisor" /\ Dies)
  /\ WF_faultVars(part = "faults" /\ ~panicked /\ Fault!Serve)
  /\ WF_faultVars(part = "faults" /\ ~panicked /\ Fault!Unsubscribe)
  /\ WF_pipeVars((part = "pipe" /\ Pipe!Adapter) \/ (part = "forward" /\ Forward!Adapter))
  /\ SF_pipeVars(part \in {"pipe", "forward"} /\ Pipe!AdapterTimeout)
  /\ WF_pipeVars((part = "pipe" /\ Pipe!Reader) \/ (part = "forward" /\ Forward!Reader))
  /\ WF_pipeVars(part \in {"pipe", "forward"} /\ Pipe!Fanout)
  /\ WF_pipeVars(part \in {"pipe", "forward"} /\ Pipe!Runner)
  /\ WF_pipeVars(part \in {"pipe", "forward"} /\ \E s \in Pipe!Services : Pipe!Stop(s))
  /\ WF_busVars(part = "bus" /\ Bus!Consumer)
  /\ WF_busVars(part = "bus" /\ Bus!Pm)
  /\ WF_busVars(part = "bus" /\ (Bus!Tca \/ Bus!Faults))
  /\ WF_busVars(part = "bus" /\ Bus!Cache)
  /\ WF_busVars(part = "bus" /\ Bus!Snapshot)
  /\ WF_busVars(part = "bus" /\ \E s \in Bus!Subscribers : Bus!Subscribe(s) \/ Bus!Unsubscribe(s))
  /\ WF_busVars(part = "bus" /\ \E s \in Bus!Services : Bus!Stop(s))

AllSpec ==
  AllInit /\ [][AllNext]_<<part, supVars, faultVars, pipeVars, busVars>> /\ AllFair
-----------------------------------------------------------------------------
(* Once the context is cancelled everything that runs ends:
   - the supervisor and the server process, even one that ignores SIGTERM
     (ProcessServer.Run);
   - the fault service, unless the replay is stuck in a channel nobody reads yet
     (Tracker.Subscribe);
   - the services of the runner and the runner, unless the reader waits in a send to
     the fanout, which has returned (ENBMetricsReader.Run, Runner.Run);
   - the services on the bus (Bus.Subscribe, MetricsConsumer.Run). *)
ShutdownCompletes ==
  /\ ShutdownEndsServer
  /\ Fault!ServiceStops
  /\ noSamples ~> (runner = "done" \/ Pipe!Stuck \/ Forward!Stuck)
  /\ Bus!ServicesReturn
=============================================================================
