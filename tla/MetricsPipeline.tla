--------------------------- MODULE MetricsPipeline ---------------------------
(***************************************************************************)
(* The way of a metrics sample into the agent, and the agent's end: the    *)
(* reader of the eNB's socket, the fanout and its two takers, run by       *)
(* service.Runner.  A sample is its number.  The takers are the metrics    *)
(* consumer and the NETCONF snapshot; what they do with a sample is in     *)
(* EventBus.                                                               *)
(***************************************************************************)
EXTENDS Integers, Sequences, FiniteSets

CONSTANTS
  LogUDS,     \* metrics.log_uds: the reader forwards through a second channel
  Cap,        \* the capacity of the channels of samples (200)
  MaxSamples  \* bound: the datagrams of the eNB

Takers == {"consumer", "snapshot"}
Services == {"reader", "fanout"} \cup Takers

VARIABLES
  sent,        \* the datagrams sent so far
  adapter,     \* ENBMetricsReader: starting, ready for a round, reading, sending, failed
               \* or gone
  held,        \* the sample the adapter sends, and the one the reader forwards
  chan,        \* the channels of samples
  taken,       \* the last sample of each taker
  running,     \* the services that have not returned
  cancelled,   \* the context
  runner       \* Runner.Run: waiting, failing (an error is in errCh) or done

vars == <<sent, adapter, held, chan, taken, running, cancelled, runner>>

reading == <<sent, adapter, held>>
life == <<running, cancelled, runner>>

Returned(s) == running' = running \ {s}
-----------------------------------------------------------------------------
(* ENBMetricsReader.Run: the socket is opened, and the deadline set in every round;
   if either fails, Run returns an error *)
AdapterListens ==
  /\ adapter = "starting"
  /\ adapter' = "ready"
  /\ UNCHANGED <<sent, held, chan, taken, life>>

AdapterDeadline ==
  /\ adapter = "ready"
  /\ adapter' = "reading"
  /\ UNCHANGED <<sent, held, chan, taken, life>>

AdapterFails ==
  /\ adapter \in {"starting", "ready"}
  /\ adapter' = "failed"
  /\ UNCHANGED <<sent, held, chan, taken, life>>

AdapterRead ==
  /\ adapter = "reading"
  /\ sent < MaxSamples
  /\ sent' = sent + 1
  /\ held' = [held EXCEPT !.adapter = sent + 1]
  /\ adapter' = "sending"
  /\ UNCHANGED <<chan, taken, life>>

(* its send blocks on a full channel, whatever becomes of the context *)
AdapterSend ==
  LET out == IF LogUDS THEN "internal" ELSE "rawIn" IN
  /\ adapter = "sending"
  /\ Len(chan[out]) < Cap
  /\ chan' = [chan EXCEPT ![out] = Append(@, held.adapter)]
  /\ held' = [held EXCEPT !.adapter = 0]
  /\ adapter' = "ready"
  /\ UNCHANGED <<sent, taken, life>>

(* Fault: the reader reads on after a timeout *)
AdapterTimeoutIgnored ==
  /\ adapter = "reading"
  /\ adapter' = "ready"
  /\ UNCHANGED <<sent, held, chan, taken, life>>

(* the context is looked at when a second passes without a datagram *)
AdapterTimeout ==
  /\ adapter = "reading"
  /\ adapter' = IF cancelled THEN "gone" ELSE "ready"
  /\ UNCHANGED <<sent, held, chan, taken, life>>

(* it is not looked at when the read fails for another reason *)
AdapterReadError ==
  /\ adapter = "reading"
  /\ adapter' = "ready"
  /\ UNCHANGED <<sent, held, chan, taken, life>>

(* MetricsReader.Run when the adapter's Run has returned: an error goes to the
   runner, which has room for the first *)
ReaderReturns ==
  /\ "reader" \in running
  /\ held.reader = 0
  /\ adapter \in {"failed", "gone"}
  /\ Returned("reader")
  /\ runner' = IF adapter = "failed" /\ runner = "waiting" THEN "failing" ELSE runner
  /\ UNCHANGED <<reading, chan, taken, cancelled>>

(* MetricsReader.Run with LogUDS: from the channel of its own to the other *)
ReaderTakes ==
  /\ LogUDS
  /\ "reader" \in running
  /\ held.reader = 0
  /\ chan.internal # <<>>
  /\ held' = [held EXCEPT !.reader = Head(chan.internal)]
  /\ chan' = [chan EXCEPT !.internal = Tail(@)]
  /\ UNCHANGED <<sent, adapter, taken, life>>

ReaderForwards ==
  /\ held.reader # 0
  /\ Len(chan.rawIn) < Cap
  /\ chan' = [chan EXCEPT !.rawIn = Append(@, held.reader)]
  /\ held' = [held EXCEPT !.reader = 0]
  /\ UNCHANGED <<sent, adapter, taken, life>>

ReaderStops ==
  /\ LogUDS
  /\ "reader" \in running
  /\ held.reader = 0
  /\ cancelled
  /\ Returned("reader")
  /\ UNCHANGED <<reading, chan, taken, cancelled, runner>>
-----------------------------------------------------------------------------
Offer(q, n) == IF Len(q) < Cap THEN Append(q, n) ELSE q

(* RawFanout.Run: each branch gets the sample if it has room *)
Fanout ==
  /\ "fanout" \in running
  /\ chan.rawIn # <<>>
  /\ LET n == Head(chan.rawIn) IN
       chan' = [chan EXCEPT !.rawIn = Tail(@),
                            !.consumer = Offer(@, n), !.snapshot = Offer(@, n)]
  /\ UNCHANGED <<reading, taken, life>>

(* MetricsConsumer.Run and NetconfSnapshot.Run take a sample *)
Take(s) ==
  /\ s \in running
  /\ chan[s] # <<>>
  /\ taken' = [taken EXCEPT ![s] = Head(chan[s])]
  /\ chan' = [chan EXCEPT ![s] = Tail(@)]
  /\ UNCHANGED <<reading, life>>

(* Fault: the fanout waits for samples only *)
StopTakers(s) ==
  /\ s \in running \cap Takers
  /\ cancelled
  /\ Returned(s)
  /\ UNCHANGED <<reading, chan, taken, cancelled, runner>>

(* they and the fanout select on the context *)
Stop(s) ==
  /\ s \in running \cap ({"fanout"} \cup Takers)
  /\ cancelled
  /\ Returned(s)
  /\ UNCHANGED <<reading, chan, taken, cancelled, runner>>
-----------------------------------------------------------------------------
(* SIGTERM *)
Cancel ==
  /\ ~cancelled
  /\ cancelled' = TRUE
  /\ UNCHANGED <<reading, chan, taken, running, runner>>

(* Runner.Run: the first error cancels the others; then it waits for all *)
RunnerCancels ==
  /\ runner = "failing"
  /\ ~cancelled
  /\ cancelled' = TRUE
  /\ UNCHANGED <<reading, chan, taken, running, runner>>

RunnerReturns ==
  /\ runner # "done"
  /\ cancelled
  /\ running = {}
  /\ runner' = "done"
  /\ UNCHANGED <<reading, chan, taken, running, cancelled>>

Init ==
  /\ sent = 0
  /\ adapter = "starting"
  /\ held = [adapter |-> 0, reader |-> 0]
  /\ chan = [internal |-> <<>>, rawIn |-> <<>>, consumer |-> <<>>, snapshot |-> <<>>]
  /\ taken = [s \in Takers |-> 0]
  /\ running = Services
  /\ cancelled = FALSE
  /\ runner = "waiting"

Adapter == AdapterListens \/ AdapterDeadline \/ AdapterSend \/ AdapterTimeout
Reader == ReaderReturns \/ ReaderTakes \/ ReaderForwards \/ ReaderStops
Runner == RunnerCancels \/ RunnerReturns

Next ==
  \/ Adapter \/ AdapterRead \/ AdapterReadError \/ AdapterFails \/ Reader \/ Fanout \/ Cancel \/ Runner
  \/ \E s \in Takers : Take(s)
  \/ \E s \in Services : Stop(s)

Spec == Init /\ [][Next]_vars
-----------------------------------------------------------------------------
(* A send to the fanout waits, and the fanout has returned. *)
Stuck ==
  /\ "fanout" \notin running
  /\ Len(chan.rawIn) = Cap
  /\ held.reader # 0 \/ (~LogUDS /\ adapter = "sending")
=============================================================================
