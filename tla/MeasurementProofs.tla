------------------------- MODULE MeasurementProofs -------------------------
(***************************************************************************)
(* A measurement on its way through the agent.  No publisher sends on a    *)
(* closed subscription, and the snapshot follows what was published, for   *)
(* any capacity of the subscriptions and any number of messages            *)
(* (EventBus).  A PM report is true of its window, for any cells and UEs   *)
(* (PmWindows).                                                            *)
(***************************************************************************)
EXTENDS EventBus, PmWindows, WellFoundedInduction, SequenceTheorems, FiniteSetTheorems, TLAPS

(* The bus and the services on it *)

Messages == [kind : {"telemetry", "pm", "alarm"}, n : Int]

(* The inductive invariant: what a publisher has left to serve is registered, as
   the lock keeps subscriptions in place while it is busy, and a registered
   subscription is not closed. *)
BusInv ==
  /\ publishing \in [Publishers -> [msg : [kind : {"none", "telemetry", "pm", "alarm"}, n : Int],
                                    left : SUBSET Subscribers]]
  /\ subs \subseteq Subscribers
  /\ mapped \in Int /\ pmStore \in Int /\ alarmStore \in Int
  /\ subs \cap closed = {}
  /\ \A p \in Publishers : publishing[p].left \subseteq subs
  /\ \A p \in Publishers : ~Busy(p) => publishing[p].left = {}

(* Publish begins with the registered subscriptions. *)
LEMMA PublishKeeps ==
  ASSUME BusInv, NEW p \in Publishers, NEW msg \in Messages,
         Publishing(p, msg), UNCHANGED <<subs, closed>>,
         mapped' \in Int, pmStore' \in Int, alarmStore' \in Int
  PROVE  BusInv'
<1>1. msg # Silent /\ msg \in [kind : {"none", "telemetry", "pm", "alarm"}, n : Int]
  BY DEF Silent, Messages
<1> QED
  BY <1>1 DEF BusInv, Publishing, Busy, Silent

(* Every step of the bus and of the services on it keeps the invariant. *)
LEMMA BusStep == BusInv /\ [Next]_vars => BusInv'
<1> SUFFICES ASSUME BusInv, [Next]_vars PROVE BusInv'
  BY Zenon
<1>1. ASSUME UNCHANGED <<subs, closed, publishing, mapped, pmStore, alarmStore>> PROVE BusInv'
  BY <1>1, Zenon DEF BusInv, Busy
<1>2. CASE Consume
  <2>1. PICK n \in (mapped + 1)..MaxSamples :
          /\ mapped' = n
          /\ Publishing("consumer", [kind |-> "telemetry", n |-> n]) \/ UNCHANGED publishing
    BY <1>2, Zenon DEF Consume
  <2>2. /\ n \in Int /\ pmStore' \in Int /\ alarmStore' \in Int /\ UNCHANGED <<subs, closed>>
        /\ [kind |-> "telemetry", n |-> n] \in Messages
    BY <1>2, BusAssumption DEF Consume, BusInv, stores, Messages
  <2>3. CASE Publishing("consumer", [kind |-> "telemetry", n |-> n])
    BY <2>1, <2>2, <2>3, PublishKeeps, Zenon DEF Publishers
  <2>4. CASE UNCHANGED publishing
    BY <2>1, <2>2, <2>4, Zenon DEF BusInv, Busy
  <2> QED
    BY <2>1, <2>3, <2>4, Zenon
<1>3. CASE Flush
  <2>1. /\ mapped' \in Int /\ pmStore' \in Int /\ alarmStore' \in Int /\ UNCHANGED <<subs, closed>>
        /\ [kind |-> "pm", n |-> pmStore + 1] \in Messages
    BY <1>3 DEF Flush, BusInv, samples, Messages
  <2> QED
    BY <1>3, <2>1, PublishKeeps, Zenon DEF Flush, Publishers
<1>4. ASSUME NEW p \in Publishers, NEW s \in Subscribers, Serve(p, s) PROVE BusInv'
  <2> DEFINE pub == publishing[p]
             left == pub.left \ {s}
             new == IF left = {} THEN [msg |-> Silent, left |-> {}] ELSE [pub EXCEPT !.left = left]
             Pubs == [msg : [kind : {"none", "telemetry", "pm", "alarm"}, n : Int], left : SUBSET Subscribers]
  <2>1. /\ publishing' = [publishing EXCEPT ![p] = new]
        /\ UNCHANGED <<subs, closed, mapped, pmStore, alarmStore>>
        /\ pub.msg # Silent
    BY <1>4, Zenon DEF Serve, samples, Busy
  <2>2. pub \in Pubs /\ pub.left \subseteq subs
    BY Zenon DEF BusInv
  <2>3. new \in Pubs /\ new.left \subseteq subs /\ (new.msg = Silent => new.left = {})
    BY <2>1, <2>2 DEF Silent
  <2> HIDE DEF new
  <2>4. \A q \in Publishers : publishing'[q] = IF q = p THEN new ELSE publishing[q]
    BY <2>1, Zenon DEF BusInv
  <2> QED
    BY <2>1, <2>3, <2>4, Zenon DEF BusInv, Busy
<1>5. ASSUME NEW s \in Subscribers, Subscribe(s) PROVE BusInv'
  BY <1>5, Zenon DEF Subscribe, BusInv, Busy, samples, stores
<1>6. ASSUME NEW s \in Subscribers, Unsubscribe(s) PROVE BusInv'
  BY <1>6, Zenon DEF Unsubscribe, BusInv, Busy, samples, stores
<1>7. CASE PmTakes \/ Cache \/ Snapshot \/ Cancel \/ (\E s \in Services : Stop(s)) \/ UNCHANGED vars
  BY <1>1, <1>7, Zenon DEF PmTakes, Cache, CacheTakes, CacheStops, Snapshot, SnapshotSample, SnapshotEvent,
       Cancel, Stop, vars, samples, stores, messaging
<1>8. CASE ReportFault \/ TcaTakes
  <2>1. ASSUME NEW p \in Publishers, ChangeAlarms(p), UNCHANGED <<subs, closed, mapped, pmStore>>
        PROVE  BusInv'
    <3>1. /\ mapped' \in Int /\ pmStore' \in Int /\ alarmStore' \in Int
          /\ [kind |-> "alarm", n |-> alarmStore + 1] \in Messages
      BY <2>1 DEF ChangeAlarms, BusInv, Messages
    <3> QED
      BY <2>1, <3>1, PublishKeeps, Zenon DEF ChangeAlarms
  <2> QED
    BY <1>1, <1>8, <2>1, Zenon DEF ReportFault, TcaTakes, samples, Publishers
<1> QED
  BY <1>2, <1>3, <1>4, <1>5, <1>6, <1>7, <1>8, Zenon DEF Next, Consumer, Pm, Tca, Faults, Publishers

(* Publish never reaches a channel that the goroutine of Subscribe has closed,
   which would be a panic (bus.go). *)
THEOREM NeverSendsOnClosed == Spec => []NoSendOnClosed
<1>1. Init => BusInv
  BY DEF Init, BusInv, Busy, Silent
<1>2. BusInv => NoSendOnClosed
  BY Zenon DEF BusInv, NoSendOnClosed
<1> QED
  BY <1>1, <1>2, BusStep, PTL DEF Spec

-----------------------------------------------------------------------------
(* What is on its way *)

(* A busy publisher has a message of its kind; the consumer's is its last sample *)
FlowType ==
  /\ box \in [Subscribers -> Seq(Messages)]
  /\ file \in [sample : Int, report : Int, alarms : Int]
  /\ legacy \in Int /\ cache \in Int /\ stale \in BOOLEAN
  /\ Busy("consumer") => publishing["consumer"].msg = [kind |-> "telemetry", n |-> mapped]
  /\ \A p \in Publishers \ {"consumer"} : Busy(p) => publishing[p].msg.kind \in {"pm", "alarm"}

(* The samples on the way to the cache are in order, and newer than what it has *)
InOrder(b) ==
  \A i \in 1..Len(b) : b[i].kind = "telemetry" =>
    /\ b[i].n <= mapped
    /\ \A j \in 1..Len(b) : i <= j /\ b[j].kind = "telemetry" => b[i].n <= b[j].n

OrderInv ==
  /\ cache <= mapped
  /\ InOrder(box["cache"])
  /\ \A i \in 1..Len(box["cache"]) : box["cache"][i].kind = "telemetry" => cache <= box["cache"][i].n

(* An event for the snapshot is on its way *)
Waits(b) == \E i \in 1..Len(b) : b[i].kind \in {"pm", "alarm"}
Serves(p) == "snapshot" \in publishing[p].left
Due == Waits(box["snapshot"]) \/ \E p \in Publishers \ {"consumer"} : Serves(p)

CurrentInv ==
  /\ file.report <= pmStore /\ file.alarms <= alarmStore
  /\ ~stale => file.sample = legacy /\ ((file.report = pmStore /\ file.alarms = alarmStore) \/ Due)

(* A send and a receive on a subscription *)
LEMMA AppendFacts ==
  ASSUME NEW b \in Seq(Messages), NEW m \in Messages
  PROVE  /\ Append(b, m) \in Seq(Messages) /\ Len(Append(b, m)) = Len(b) + 1 /\ Len(b) \in Nat
         /\ \A i \in 1..Len(b) : Append(b, m)[i] = b[i] /\ b[i] \in Messages
         /\ Append(b, m)[Len(b) + 1] = m
OBVIOUS

LEMMA TailFacts ==
  ASSUME NEW b \in Seq(Messages), b # <<>>
  PROVE  /\ Tail(b) \in Seq(Messages) /\ Len(b) \in Nat \ {0} /\ Len(Tail(b)) = Len(b) - 1
         /\ \A i \in 1..(Len(b) - 1) : Tail(b)[i] = b[i + 1]
         /\ Head(b) = b[1] /\ b[1] \in Messages
OBVIOUS

LEMMA FlowStep ==
  ASSUME BusInv, FlowType, [Next]_vars
  PROVE  FlowType'
<1> USE DEF FlowType
<1>1. CASE Consume
  <2>1. PICK n \in (mapped + 1)..MaxSamples :
          /\ mapped' = n
          /\ Publishing("consumer", [kind |-> "telemetry", n |-> n]) \/ UNCHANGED publishing
    BY <1>1, Zenon DEF Consume
  <2>2. UNCHANGED <<box, file, legacy, cache, stale>> /\ ~Busy("consumer")
    BY <1>1, Zenon DEF Consume, stores
  <2>3. \A p \in Publishers \ {"consumer"} : publishing'[p] = publishing[p]
    BY <2>1, Zenon DEF Publishing, BusInv
  <2>4. publishing'["consumer"].msg \in {Silent, [kind |-> "telemetry", n |-> mapped']}
    BY <2>1, <2>2, SMTT(30) DEF Publishing, BusInv, Publishers, Busy
  <2> QED
    BY <2>2, <2>3, <2>4, Zenon DEF Busy
<1>2. ASSUME NEW p \in Publishers \ {"consumer"}, NEW msg \in Messages, msg.kind \in {"pm", "alarm"},
             Publishing(p, msg), UNCHANGED <<file, legacy, cache, mapped>>, stale' \in BOOLEAN,
             box' \in [Subscribers -> Seq(Messages)]
      PROVE  FlowType'
  <2>1. /\ \A q \in Publishers \ {p} : publishing'[q] = publishing[q]
        /\ publishing'[p].msg \in {Silent, msg}
    BY <1>2, Zenon DEF Publishing, BusInv
  <2> QED
    BY <1>2, <2>1, Zenon DEF Busy, Publishers
<1>8. CASE Flush \/ ReportFault
  <2>1. UNCHANGED <<box, file, legacy, cache, mapped>> /\ stale' \in BOOLEAN
    BY <1>8, Zenon DEF Flush, ReportFault, ChangeAlarms, samples
  <2>2. \E p \in {"pm", "faults"}, msg \in Messages :
          msg.kind \in {"pm", "alarm"} /\ Publishing(p, msg)
    <3>1. /\ [kind |-> "pm", n |-> pmStore + 1] \in Messages
          /\ [kind |-> "alarm", n |-> alarmStore + 1] \in Messages
      BY DEF BusInv, Messages
    <3> QED
      BY <1>8, <3>1, Zenon DEF Flush, ReportFault, ChangeAlarms
  <2> QED
    BY <1>2, <2>1, <2>2, Zenon DEF Publishers
<1>9. CASE TcaTakes
  <2>1. UNCHANGED <<file, legacy, cache, mapped>> /\ stale' \in BOOLEAN
    BY <1>9, Zenon DEF TcaTakes, ChangeAlarms, samples
  <2>2. box' \in [Subscribers -> Seq(Messages)]
    BY <1>9, TailFacts, Zenon DEF TcaTakes, Received, Subscribers
  <2>3. CASE ChangeAlarms("tca")
    <3>1. [kind |-> "alarm", n |-> alarmStore + 1] \in Messages
      BY DEF BusInv, Messages
    <3> QED
      BY <1>2, <2>1, <2>2, <2>3, <3>1, Zenon DEF ChangeAlarms, Publishers
  <2>4. CASE UNCHANGED publishing
    BY <2>1, <2>2, <2>4, Zenon DEF Busy
  <2> QED
    BY <1>9, <2>3, <2>4, Zenon DEF TcaTakes
<1>3. ASSUME NEW p \in Publishers, NEW s \in Subscribers, Serve(p, s) PROVE FlowType'
  <2>1. /\ UNCHANGED <<file, legacy, cache, mapped>> /\ stale' \in BOOLEAN
        /\ \A q \in Publishers : publishing'[q].msg \in {Silent, publishing[q].msg}
    BY <1>3 DEF Serve, samples, BusInv
  <2>2. publishing[p].msg \in Messages
    BY <1>3 DEF Serve, Busy, Messages, BusInv, Publishers
  <2>3. box' \in [Subscribers -> Seq(Messages)]
    BY <1>3, <2>2, AppendFacts, Zenon DEF Serve
  <2> QED
    BY <2>1, <2>3, Zenon DEF Busy, Publishers
<1>4. ASSUME NEW s \in Subscribers, Subscribe(s) \/ Unsubscribe(s) PROVE FlowType'
  BY <1>4, Zenon DEF Subscribe, Unsubscribe, samples, stores, Busy
<1>5. CASE PmTakes \/ CacheTakes
  <2>1. /\ UNCHANGED <<file, legacy, mapped, stale, publishing>>
        /\ \E s \in {"pm", "cache"} : box[s] # <<>> /\ box' = [box EXCEPT ![s] = Tail(@)]
    BY <1>5, Zenon DEF PmTakes, CacheTakes, Received, samples, stores
  <2>2. box' \in [Subscribers -> Seq(Messages)]
    BY <2>1, TailFacts DEF Subscribers
  <2>3. cache' \in Int
    BY <1>5, TailFacts DEF PmTakes, CacheTakes, stores, Messages, Subscribers
  <2> QED
    BY <2>1, <2>2, <2>3, Zenon DEF Busy
<1>6. CASE Snapshot
  <2>1. UNCHANGED <<mapped, publishing, cache>> /\ stale' \in BOOLEAN
    BY <1>6, Zenon DEF Snapshot, SnapshotSample, SnapshotEvent, WriteSnapshot, samples, messaging
  <2>2. box' \in [Subscribers -> Seq(Messages)]
    <3>1. box' = box \/ (box["snapshot"] # <<>> /\ box' = [box EXCEPT !["snapshot"] = Tail(@)])
      BY <1>6, Zenon DEF Snapshot, SnapshotSample, SnapshotEvent, Received, messaging
    <3>2. box["snapshot"] \in Seq(Messages)
      BY Zenon DEF Subscribers
    <3>3. CASE box["snapshot"] # <<>>
      <4>1. Tail(box["snapshot"]) \in Seq(Messages)
        BY <3>2, <3>3, TailFacts, Zenon
      <4> QED
        BY <3>1, <4>1, Zenon
    <3> QED
      BY <3>1, <3>3, Zenon
  <2>3. legacy' \in Int
    BY <1>6, BusAssumption DEF Snapshot, SnapshotSample, SnapshotEvent, samples
  <2>4. file' \in [sample : Int, report : Int, alarms : Int]
    BY <1>6, BusAssumption, SMTT(30) DEF Snapshot, SnapshotSample, SnapshotEvent, WriteSnapshot, BusInv
  <2> QED
    BY <2>1, <2>2, <2>3, <2>4, Zenon DEF Busy
<1>7. CASE CacheStops \/ Cancel \/ (\E s \in Services : Stop(s)) \/ UNCHANGED vars
  BY <1>7, Zenon DEF CacheStops, Cancel, Stop, vars, samples, stores, messaging, Busy
<1> QED
  BY <1>1, <1>3, <1>4, <1>5, <1>6, <1>7, <1>8, <1>9, Zenon
     DEF Next, Consumer, Pm, Tca, Faults, Cache, Publishers

(* The newest sample goes to the end, the oldest is taken first *)
LEMMA OrderAppend ==
  ASSUME NEW b \in Seq(Messages), NEW m \in Messages, mapped \in Int, InOrder(b),
         m.kind = "telemetry" => m.n = mapped
  PROVE  InOrder(Append(b, m))
<1> DEFINE a == Append(b, m)
<1>1. /\ Len(a) = Len(b) + 1 /\ Len(b) \in Nat /\ a[Len(b) + 1] = m
      /\ \A i \in 1..Len(b) : a[i] = b[i] /\ b[i] \in Messages
  BY AppendFacts, Zenon
<1> HIDE DEF a
<1>2. \A i \in 1..Len(a) : i \in 1..Len(b) \/ i = Len(b) + 1
  BY <1>1
<1>3. ASSUME NEW i \in 1..Len(a), a[i].kind = "telemetry" PROVE a[i].n <= mapped
  BY <1>1, <1>2, <1>3 DEF InOrder
<1>4. ASSUME NEW i \in 1..Len(a), a[i].kind = "telemetry",
             NEW j \in 1..Len(a), i <= j, a[j].kind = "telemetry"
      PROVE  a[i].n <= a[j].n
  <2>1. CASE j = Len(b) + 1
    BY <1>1, <1>3, <1>4, <2>1, Zenon
  <2>2. CASE j \in 1..Len(b)
    <3>1. i \in 1..Len(b)
      BY <1>1, <1>4, <2>2
    <3> QED
      BY <1>1, <1>4, <2>2, <3>1, Zenon DEF InOrder
  <2> QED
    BY <1>2, <2>1, <2>2, Zenon
<1> QED
  BY <1>3, <1>4, Zenon DEF InOrder, a

LEMMA OrderTail ==
  ASSUME NEW b \in Seq(Messages), b # <<>>, InOrder(b)
  PROVE  /\ InOrder(Tail(b))
         /\ b[1].kind = "telemetry" =>
              /\ b[1].n <= mapped
              /\ \A i \in 1..Len(Tail(b)) : Tail(b)[i].kind = "telemetry" => b[1].n <= Tail(b)[i].n
<1> DEFINE t == Tail(b)
<1>1. Len(b) \in Nat \ {0} /\ Len(t) = Len(b) - 1 /\ \A i \in 1..(Len(b) - 1) : t[i] = b[i + 1]
  BY TailFacts, Zenon
<1> HIDE DEF t
<1>2. \A i \in 1..Len(t) : t[i] = b[i + 1] /\ i + 1 \in 1..Len(b) /\ 1 <= i + 1
  BY <1>1
<1>3. 1 \in 1..Len(b)
  BY <1>1
<1>4. InOrder(t)
  <2>1. \A i, j \in 1..Len(t) : i <= j => i + 1 <= j + 1
    OBVIOUS
  <2> QED
    BY <1>2, <2>1, Zenon DEF InOrder
<1>5. b[1].kind = "telemetry" =>
        b[1].n <= mapped /\ \A i \in 1..Len(t) : t[i].kind = "telemetry" => b[1].n <= t[i].n
  BY <1>2, <1>3, Zenon DEF InOrder
<1> QED
  BY <1>4, <1>5, Zenon DEF t

(* The samples stay in order on their way to the cache. *)
LEMMA OrderStep ==
  ASSUME BusInv, FlowType, OrderInv, [Next]_vars
  PROVE  OrderInv' /\ cache' >= cache
<1>0. /\ box["cache"] \in Seq(Messages) /\ mapped \in Int /\ cache \in Int
      /\ \A i \in 1..Len(box["cache"]) : box["cache"][i].n \in Int
  <2>1. box["cache"] \in Seq(Messages) /\ mapped \in Int /\ cache \in Int
    BY Zenon DEF FlowType, BusInv, Subscribers
  <2>2. \A i \in 1..Len(box["cache"]) : box["cache"][i] \in Messages
    BY <2>1
  <2> QED
    BY <2>1, <2>2, Zenon DEF Messages
<1>1. ASSUME UNCHANGED cache, box'["cache"] = box["cache"], mapped' \in Int, mapped' >= mapped
      PROVE  OrderInv' /\ cache' >= cache
  <2>1. InOrder(box["cache"])'
    BY <1>0, <1>1 DEF OrderInv, InOrder
  <2> QED
    BY <1>0, <1>1, <2>1 DEF OrderInv
<1>2. CASE Consume
  <2>1. mapped' \in Int /\ mapped' >= mapped /\ UNCHANGED <<cache, box>>
    BY <1>0, <1>2, BusAssumption DEF Consume, stores
  <2> QED
    BY <1>1, <2>1, Zenon
<1>3. ASSUME NEW p \in Publishers, NEW s \in Subscribers, Serve(p, s) PROVE OrderInv' /\ cache' >= cache
  <2>1. UNCHANGED <<cache, mapped>>
    BY <1>3, Zenon DEF Serve, samples
  <2>2. CASE box'["cache"] = box["cache"]
    BY <1>0, <1>1, <2>1, <2>2
  <2>3. CASE box'["cache"] # box["cache"]
    <3> DEFINE m == publishing[p].msg
    <3>1. m \in Messages /\ (m.kind = "telemetry" => m.n = mapped)
      BY <1>3 DEF Serve, Busy, Messages, BusInv, FlowType, Publishers
    <3>2. box'["cache"] = Append(box["cache"], m)
      BY <1>3, <2>3, Zenon DEF Serve, FlowType, Subscribers
    <3> HIDE DEF m
    <3>3. InOrder(Append(box["cache"], m))
      BY <1>0, <3>1, OrderAppend, Zenon DEF OrderInv
    <3>4. InOrder(box["cache"])'
      BY <2>1, <3>2, <3>3, Zenon DEF InOrder
    <3>5. \A i \in 1..Len(Append(box["cache"], m)) : Append(box["cache"], m)[i].kind = "telemetry" =>
             cache <= Append(box["cache"], m)[i].n
      <4>1. \A i \in 1..Len(Append(box["cache"], m)) :
              i \in 1..Len(box["cache"]) \/ i = Len(box["cache"]) + 1
        BY <1>0, <3>1, AppendFacts
      <4> QED
        BY <1>0, <3>1, <4>1, AppendFacts DEF OrderInv
    <3> QED
      BY <1>0, <2>1, <3>2, <3>4, <3>5 DEF OrderInv
  <2> QED
    BY <2>2, <2>3, Zenon
<1>4. CASE CacheTakes
  <2> DEFINE b == box["cache"]
  <2>1. /\ b # <<>> /\ UNCHANGED mapped /\ box'["cache"] = Tail(b)
        /\ cache' = IF Head(b).kind = "telemetry" THEN Head(b).n ELSE cache
    BY <1>4, Zenon DEF CacheTakes, Received, samples, FlowType, Subscribers
  <2>2. b \in Seq(Messages) /\ InOrder(b) /\ Head(b) = b[1] /\ 1 \in 1..Len(b)
    BY <1>0, <2>1, TailFacts DEF OrderInv
  <2>3. /\ InOrder(Tail(b))
        /\ b[1].kind = "telemetry" =>
             b[1].n <= mapped /\ \A i \in 1..Len(Tail(b)) : Tail(b)[i].kind = "telemetry" => b[1].n <= Tail(b)[i].n
    BY <2>1, <2>2, OrderTail, Zenon
  <2>4. /\ b[1].kind = "telemetry" => cache <= b[1].n
        /\ \A i \in 1..Len(b) : b[i].kind = "telemetry" => cache <= b[i].n
    BY <2>2, Zenon DEF OrderInv
  <2>5. \A i \in 1..Len(Tail(b)) : Tail(b)[i].kind = "telemetry" => cache <= Tail(b)[i].n
    <3>1. \A i \in 1..Len(Tail(b)) : i + 1 \in 1..Len(b) /\ Tail(b)[i] = b[i + 1]
      BY <2>1, <2>2, TailFacts
    <3> QED
      BY <2>4, <3>1, Zenon
  <2>6. InOrder(box["cache"])'
    BY <2>1, <2>3, Zenon DEF InOrder
  <2>7. b[1].n \in Int
    BY <1>0, <2>2, Zenon
  <2> HIDE DEF b
  <2>8. cache <= mapped
    BY Zenon DEF OrderInv
  <2> QED
    BY <1>0, <2>1, <2>2, <2>3, <2>4, <2>5, <2>6, <2>7, <2>8, SMTT(30) DEF OrderInv
<1>5. CASE Flush \/ ReportFault \/ CacheStops \/ Cancel \/ (\E s \in Services : Stop(s)) \/ UNCHANGED vars
        \/ (\E s \in Subscribers : Subscribe(s) \/ Unsubscribe(s))
  <2>1. UNCHANGED <<cache, mapped, box>>
    BY <1>5, Zenon DEF Flush, ReportFault, CacheStops, Cancel, Stop, Subscribe, Unsubscribe, vars, samples, stores, messaging
  <2> QED
    BY <1>0, <1>1, <2>1, SMTT(30)
<1>6. CASE PmTakes \/ TcaTakes \/ Snapshot
  <2>1. UNCHANGED <<cache, mapped>> /\ box'["cache"] = box["cache"]
    BY <1>6, Zenon DEF PmTakes, TcaTakes, Snapshot, SnapshotSample, SnapshotEvent, Received, samples,
       stores, messaging, FlowType, Subscribers
  <2> QED
    BY <1>0, <1>1, <2>1, SMTT(30)
<1> QED
  BY <1>2, <1>3, <1>4, <1>5, <1>6, Zenon DEF Next, Consumer, Pm, Tca, Faults, Cache, Publishers

(* The snapshot is current, or its event is on the way. *)
LEMMA CurrentStep ==
  ASSUME BusInv, FlowType, CurrentInv, [Next]_vars
  PROVE  CurrentInv' /\ file'.report >= file.report /\ file'.alarms >= file.alarms
<1> DEFINE Kept == CurrentInv' /\ file'.report >= file.report /\ file'.alarms >= file.alarms
<1>0. /\ box["snapshot"] \in Seq(Messages) /\ pmStore \in Int /\ alarmStore \in Int
      /\ file.report \in Int /\ file.alarms \in Int
      /\ DOMAIN box = Subscribers /\ "snapshot" \in Subscribers
      /\ DOMAIN publishing = Publishers
  BY Zenon DEF FlowType, BusInv, Subscribers
<1>1. ASSUME UNCHANGED <<file, pmStore, alarmStore, legacy>>, ~stale' => ~stale, ~stale' /\ Due => Due'
      PROVE  Kept
  BY <1>0, <1>1 DEF CurrentInv
<1>2. ASSUME WriteSnapshot(legacy'), UNCHANGED <<pmStore, alarmStore>> PROVE Kept
  <2>1. CASE file' = [sample |-> legacy', report |-> pmStore, alarms |-> alarmStore]
    <3>1. file'.sample = legacy' /\ file'.report = pmStore /\ file'.alarms = alarmStore
      BY <2>1, Zenon
    <3> QED
      BY <1>0, <1>2, <3>1 DEF CurrentInv
  <2>2. CASE UNCHANGED file /\ stale' = TRUE
    BY <1>0, <1>2, <2>2 DEF CurrentInv
  <2> QED
    BY <1>2, <2>1, <2>2, Zenon DEF WriteSnapshot
<1>3. ASSUME NEW p \in Publishers \ {"consumer"}, NEW msg, Publishing(p, msg),
             stale' = (stale \/ "snapshot" \notin subs), UNCHANGED <<file, legacy>>,
             pmStore' \in {pmStore, pmStore + 1}, alarmStore' \in {alarmStore, alarmStore + 1}
      PROVE  Kept
  <2>1. "snapshot" \in subs => Serves(p)'
    BY <1>0, <1>3, Zenon DEF Publishing, Serves
  <2>2. ~stale' => ~stale /\ Due'
    BY <1>3, <2>1, Zenon DEF Due
  <2>3. file'.report <= pmStore' /\ file'.alarms <= alarmStore'
    BY <1>0, <1>3 DEF CurrentInv
  <2>4. ~stale' => file'.sample = legacy'
    BY <1>3, <2>2, Zenon DEF CurrentInv
  <2> QED
    BY <1>0, <1>3, <2>2, <2>3, <2>4 DEF CurrentInv
<1>4. CASE Flush \/ ReportFault
  <2>1. /\ stale' = (stale \/ "snapshot" \notin subs) /\ UNCHANGED <<file, legacy>>
        /\ pmStore' \in {pmStore, pmStore + 1} /\ alarmStore' \in {alarmStore, alarmStore + 1}
        /\ \E p \in {"pm", "faults"} : \E msg : Publishing(p, msg)
    BY <1>4, Zenon DEF Flush, ReportFault, ChangeAlarms, samples
  <2> QED
    BY <1>3, <2>1, Zenon DEF Publishers
<1>5. CASE TcaTakes
  <2>1. UNCHANGED <<file, legacy, pmStore>> /\ box'["snapshot"] = box["snapshot"]
    BY <1>0, <1>5, Zenon DEF TcaTakes, Received, samples
  <2>2. CASE ChangeAlarms("tca")
    BY <1>3, <2>1, <2>2, Zenon DEF ChangeAlarms, Publishers
  <2>3. CASE UNCHANGED <<publishing, alarmStore, stale>>
    BY <1>1, <2>1, <2>3, Zenon DEF Due, Serves
  <2> QED
    BY <1>5, <2>2, <2>3, Zenon DEF TcaTakes
<1>6. ASSUME NEW p \in Publishers, NEW s \in Subscribers, Serve(p, s) PROVE Kept
  <2>0. UNCHANGED <<file, pmStore, alarmStore, legacy>> /\ (~stale' => ~stale)
    BY <1>6, Zenon DEF Serve, samples
  <2>1. publishing[p].msg \in Messages /\ (p # "consumer" => publishing[p].msg.kind \in {"pm", "alarm"})
    BY <1>6 DEF Serve, Busy, Messages, BusInv, FlowType
  <2>2. Waits(box["snapshot"]) => Waits(box'["snapshot"])
    <3>1. box'["snapshot"] \in {box["snapshot"], Append(box["snapshot"], publishing[p].msg)}
      BY <1>0, <1>6, Zenon DEF Serve
    <3>2. Waits(box["snapshot"]) => Waits(Append(box["snapshot"], publishing[p].msg))
      BY <1>0, <2>1, AppendFacts DEF Waits
    <3> QED
      BY <3>1, <3>2, Zenon
  <2>3. CASE p # "consumer" /\ s = "snapshot"
    <3>1. ~stale' => box'["snapshot"] = Append(box["snapshot"], publishing[p].msg)
      BY <1>0, <1>6, <2>1, <2>3, Zenon DEF Serve
    <3>2. Waits(Append(box["snapshot"], publishing[p].msg))
      BY <1>0, <2>1, <2>3, AppendFacts DEF Waits
    <3> QED
      BY <1>1, <2>0, <3>1, <3>2, Zenon DEF Due
  <2>4. CASE ~(p # "consumer" /\ s = "snapshot")
    <3>1. ASSUME NEW q \in Publishers \ {"consumer"}, Serves(q) PROVE Serves(q)'
      BY <1>0, <1>6, <2>4, <3>1 DEF Serve, BusInv, Serves
    <3> QED
      BY <1>1, <2>0, <2>2, <3>1, Zenon DEF Due
  <2> QED
    BY <2>3, <2>4, Zenon
<1>7. CASE SnapshotSample
  BY <1>2, <1>7, Zenon DEF SnapshotSample
<1>8. CASE SnapshotEvent
  <2> DEFINE b == box["snapshot"]
  <2>1. b # <<>> /\ UNCHANGED <<pmStore, alarmStore, legacy, publishing>> /\ box'["snapshot"] = Tail(b)
    BY <1>0, <1>8, Zenon DEF SnapshotEvent, Received, samples
  <2>2. CASE Head(b).kind \in {"pm", "alarm"}
    BY <1>2, <1>8, <2>1, <2>2, Zenon DEF SnapshotEvent
  <2>3. CASE Head(b).kind \notin {"pm", "alarm"}
    <3>1. UNCHANGED <<file, stale>>
      BY <1>8, <2>3, Zenon DEF SnapshotEvent
    <3>2. Waits(b) => Waits(Tail(b))
      <4> SUFFICES ASSUME NEW i \in 1..Len(b), b[i].kind \in {"pm", "alarm"} PROVE Waits(Tail(b))
        BY Zenon DEF Waits
      <4>1. i # 1 /\ Len(b) \in Nat
        BY <1>0, <2>1, <2>3, TailFacts, Zenon
      <4>2. i - 1 \in 1..(Len(b) - 1) /\ (i - 1) + 1 = i
        BY <4>1
      <4>3. Tail(b)[i - 1] = b[i] /\ i - 1 \in 1..Len(Tail(b))
        BY <1>0, <2>1, <4>2, TailFacts, Zenon
      <4> QED
        BY <4>3, Zenon DEF Waits
    <3> QED
      BY <1>1, <2>1, <3>1, <3>2, Zenon DEF Due, Serves
  <2> QED
    BY <2>2, <2>3, Zenon
<1>9. CASE Consume
  <2>1. /\ UNCHANGED <<file, pmStore, alarmStore, legacy, stale, box>>
        /\ \A p \in Publishers \ {"consumer"} : publishing'[p] = publishing[p]
    BY <1>0, <1>9, Zenon DEF Consume, Publishing, stores
  <2> QED
    BY <1>1, <2>1, Zenon DEF Due, Serves
<1>10. CASE PmTakes \/ CacheTakes
  <2>1. /\ UNCHANGED <<file, pmStore, alarmStore, legacy, stale, publishing>>
        /\ box'["snapshot"] = box["snapshot"]
    BY <1>0, <1>10, Zenon DEF PmTakes, CacheTakes, Received, samples, stores
  <2> QED
    BY <1>1, <2>1, Zenon DEF Due, Serves
<1>11. CASE CacheStops \/ Cancel \/ (\E s \in Services : Stop(s)) \/ UNCHANGED vars
         \/ (\E s \in Subscribers : Subscribe(s) \/ Unsubscribe(s))
  <2>1. UNCHANGED <<file, pmStore, alarmStore, legacy, stale, publishing, box>>
    BY <1>11, Zenon DEF CacheStops, Cancel, Stop, Subscribe, Unsubscribe, vars, samples, stores, messaging
  <2> QED
    BY <1>1, <2>1, Zenon DEF Due, Serves
<1> QED
  BY <1>4, <1>5, <1>6, <1>7, <1>8, <1>9, <1>10, <1>11, Zenon
     DEF Next, Consumer, Pm, Tca, Faults, Cache, Snapshot, Publishers

-----------------------------------------------------------------------------
(* However full the subscriptions get and whatever is dropped: the snapshot file is
   current when nothing is on its way to it and nothing was lost, and neither the
   telemetry cache nor the report or the alarm list in the file ever goes back. *)
THEOREM SnapshotIsFollowed == Spec => SnapshotFollows
<1> DEFINE I == BusInv /\ FlowType /\ OrderInv /\ CurrentInv
           A == cache' >= cache /\ file'.report >= file.report /\ file'.alarms >= file.alarms
<1>1. Init => I
  <2> SUFFICES ASSUME Init PROVE I
    BY Zenon
  <2>1. BusInv /\ \A p \in Publishers : ~Busy(p)
    BY DEF Init, BusInv, Busy, Silent
  <2>2. FlowType
    <3>1. <<>> \in Seq(Messages)
      OBVIOUS
    <3>2. box \in [Subscribers -> Seq(Messages)]
      BY <3>1, Zenon DEF Init
    <3>3. file \in [sample : Int, report : Int, alarms : Int] /\ legacy \in Int /\ cache \in Int
      BY DEF Init
    <3>4. stale \in BOOLEAN
      BY Zenon DEF Init
    <3> QED
      BY <2>1, <3>2, <3>3, <3>4, Zenon DEF FlowType, Publishers
  <2>3. OrderInv /\ CurrentInv
    BY DEF Init, OrderInv, CurrentInv, InOrder, Subscribers
  <2> QED
    BY <2>1, <2>2, <2>3, Zenon
<1>2. I /\ [Next]_vars => I' /\ A
  BY BusStep, FlowStep, OrderStep, CurrentStep, Zenon
<1>3. I => SnapshotIsCurrent
  <2> SUFFICES ASSUME I, SnapshotIsCurrent = FALSE PROVE FALSE
    BY Zenon DEF SnapshotIsCurrent
  <2>1. /\ box["snapshot"] = <<>> /\ (\A p \in Publishers : ~Busy(p)) /\ ~stale
        /\ file # [sample |-> legacy, report |-> pmStore, alarms |-> alarmStore]
    BY Zenon DEF SnapshotIsCurrent
  <2>2. ~Due
    BY <2>1 DEF Due, Waits, Serves, BusInv
  <2>3. file.sample = legacy /\ file.report = pmStore /\ file.alarms = alarmStore
    BY <2>1, <2>2, Zenon DEF CurrentInv
  <2> QED
    BY <2>1, <2>3, Zenon DEF FlowType
<1> HIDE DEF I
<1> QED
  BY <1>1, <1>2, <1>3, PTL DEF Spec, SnapshotFollows
-----------------------------------------------------------------------------
(* The windows of the PM engine *)

(* Induction up to N, for the members of a set. *)
LEMMA UpTo ==
  ASSUME NEW N \in Nat, NEW S, 0 \in S, \A n \in 1..N : n - 1 \in S => n \in S
  PROVE  \A n \in 0..N : n \in S
<1> DEFINE T == {n \in 0..N : n \notin S}
           R == OpToRel(<, Nat)
<1> SUFFICES ASSUME T # {} PROVE FALSE
  BY Zenon
<1>1. T \subseteq Nat
  OBVIOUS
<1> HIDE DEF T
<1>2. PICK i \in T : \A j \in T : <<j, i>> \notin R
  BY <1>1, NatLessThanWellFounded, WFMin, Zenon
<1>3. \A a, b \in Nat : b < a => <<b, a>> \in R
  BY Zenon DEF OpToRel
<1> HIDE DEF R
<1>4. i \in 0..N /\ i \notin S
  BY <1>2, Zenon DEF T
<1>5. i \in 1..N
  BY <1>4
<1>6. i - 1 \in Nat /\ i \in Nat /\ i - 1 < i /\ i - 1 \in 0..N
  BY <1>5
<1>7. <<i - 1, i>> \in R
  BY <1>3, <1>6, Zenon
<1>8. i - 1 \notin T
  BY <1>2, <1>7, Zenon
<1>9. i - 1 \in S
  BY <1>6, <1>8, Zenon DEF T
<1> QED
  BY <1>4, <1>5, <1>9, Zenon

Metrics == {"counter", "gauge"}
Meters == [first : Int, last : Int, sum : Int, count : Nat]

(* s is the only source that the accumulators of o count *)
OnlyOf(o, s) ==
  /\ s \in Sources
  /\ Resolve(s) = o
  /\ \A t \in Sources : Resolve(t) = o => t = s

(* The meter a of a counter that is now n and grew by grew since its first sample, by
   before up to its last one: the counter went on from its first sample, or it has
   started again and counts no more than it grew. *)
CounterOk(a, n, grew, before, again) ==
  /\ a.first >= 0 /\ a.last >= 0
  /\ a.last <= a.first + before
  /\ a.last < a.first => again /\ a.last <= before
  /\ n = a.first + grew \/ (again /\ n <= grew)

(* the mean of the meter a lies between two of the values vs *)
MeanOk(a, vs) ==
  /\ a.count > 0
  /\ \E v \in vs : v * a.count <= a.sum
  /\ \E v \in vs : v * a.count >= a.sum

(* The accumulators as agree with the counters, when by object before tells what
   they grew up to the last sample and vs the gauges of the window. *)
Agree(as, before, vs) ==
  /\ DOMAIN as \subseteq MeasObjects
  /\ \A o \in DOMAIN as : as[o] # Nothing =>
       /\ as[o] \in [Metrics -> Meters]
       /\ MeanOk(as[o]["gauge"], vs[o])
       /\ \A s : OnlyOf(o, s) =>
            CounterOk(as[o]["counter"], count[s], grown[o], before[o], o \in reset)

PmType ==
  /\ count \in [Sources -> Nat]
  /\ grown \in [MeasObjects -> Nat]
  /\ sampled \in [MeasObjects -> Nat]
  /\ seen \in [MeasObjects -> SUBSET Int]

PmInv ==
  /\ PmType
  /\ Agree(acc, sampled, seen)
  /\ \A o \in MeasObjects : /\ sampled[o] <= grown[o]
                            /\ ~Measured(o) => grown[o] = 0 /\ sampled[o] = 0
  /\ ReportsAreReal

(* Mapper.Map goes through the cells, one after the other. *)
LEMMA MapUnfolds ==
  ASSUME NEW ues, NEW level, Len(CellList) \in Nat
  PROVE  \E f : /\ f[0] = <<NodeSample(level)>>
                /\ \A i \in 1..Len(CellList) : f[i] = f[i - 1] \o CellSamples(CellList[i], ues, level)
                /\ Map(ues, level) = f[Len(CellList)]
<1> DEFINE N == Len(CellList)
           base == <<NodeSample(level)>>
           With(q, i) == q \o CellSamples(CellList[i], ues, level)
           Rec(g, n) == g = [i \in 0..n |-> IF i = 0 THEN base ELSE With(g[i - 1], i)]
           S == {n \in 0..N : \E g : Rec(g, n)}
<1> HIDE DEF base, With
<1>1. 0 \in S
  <2> DEFINE g == [i \in 0..0 |-> base]
  <2>1. g = [i \in 0..0 |-> IF i = 0 THEN base ELSE With(g[i - 1], i)]
    OBVIOUS
  <2>2. 0 \in 0..N
    OBVIOUS
  <2> HIDE DEF g
  <2>3. \E k : Rec(k, 0)
    BY <2>1, Zenon
  <2> QED
    BY <2>2, <2>3, Zenon
<1>2. ASSUME NEW n \in 1..N, n - 1 \in S PROVE n \in S
  <2>1. PICK g : Rec(g, n - 1)
    BY <1>2, Zenon
  <2> DEFINE k == [i \in 0..n |-> IF i = n THEN With(g[n - 1], n) ELSE g[i]]
  <2>2. \A i \in 0..n : i # n => k[i] = g[i] /\ i \in 0..(n - 1)
    OBVIOUS
  <2>3. \A i \in 0..(n - 1) : g[i] = IF i = 0 THEN base ELSE With(g[i - 1], i)
    BY <2>1, Zenon
  <2>4. k[n] = With(g[n - 1], n) /\ n # 0 /\ n \in 0..n
    OBVIOUS
  <2>5. DOMAIN k = 0..n /\ k = [i \in 0..n |-> k[i]]
    BY Zenon
  <2> HIDE DEF k
  <2>6. ASSUME NEW i \in 0..n
        PROVE  k[i] = IF i = 0 THEN base ELSE With(k[i - 1], i)
    <3>1. i # 0 => i - 1 \in 0..n /\ i - 1 # n
      OBVIOUS
    <3>2. i # 0 => k[i - 1] = g[i - 1]
      BY <3>1, <2>2, Zenon
    <3>3. CASE i = n
      BY <3>2, <3>3, <2>4, Zenon
    <3>4. CASE i # n
      BY <3>2, <3>4, <2>2, <2>3, Zenon
    <3> QED
      BY <3>3, <3>4, Zenon
  <2>7. Rec(k, n)
    BY <2>5, <2>6, Zenon
  <2> QED
    BY <2>7
<1>3. N \in S
  <2> HIDE DEF S
  <2>1. \A n \in 1..N : n - 1 \in S => n \in S
    BY <1>2, Zenon
  <2>2. \A n \in 0..N : n \in S
    BY <1>1, <2>1, UpTo, Zenon
  <2> QED
    BY <2>2
<1> DEFINE f == CHOOSE g : Rec(g, N)
<1>4. Rec(f, N)
  BY <1>3, Zenon
<1>5. Map(ues, level) = f[N]
  BY Zenon DEF Map, base, With
<1> HIDE DEF f
<1>6. f[0] = base /\ \A i \in 1..N : f[i] = With(f[i - 1], i)
  BY <1>4
<1> QED
  BY <1>5, <1>6, Zenon DEF base, With

(* A report of the eNB is taken sample after sample. *)
LEMMA IngestedUnfolds ==
  ASSUME NEW list, Len(list) \in Nat
  PROVE  \E f : /\ f[0] = acc
                /\ \A i \in 1..Len(list) : f[i] = Ingest(f[i - 1], list[i])
                /\ Ingested(list) = f[Len(list)]
<1> DEFINE N == Len(list)
           base == acc
           Rec(g, n) == g = [i \in 0..n |-> IF i = 0 THEN base ELSE Ingest(g[i - 1], list[i])]
           S == {n \in 0..N : \E g : Rec(g, n)}
<1> HIDE DEF base
<1>1. 0 \in S
  <2> DEFINE g == [i \in 0..0 |-> base]
  <2>1. g = [i \in 0..0 |-> IF i = 0 THEN base ELSE Ingest(g[i - 1], list[i])]
    OBVIOUS
  <2>2. 0 \in 0..N
    OBVIOUS
  <2> HIDE DEF g
  <2>3. \E k : Rec(k, 0)
    BY <2>1, Zenon
  <2> QED
    BY <2>2, <2>3, Zenon
<1>2. ASSUME NEW n \in 1..N, n - 1 \in S PROVE n \in S
  <2>1. PICK g : Rec(g, n - 1)
    BY <1>2, Zenon
  <2> DEFINE k == [i \in 0..n |-> IF i = n THEN Ingest(g[n - 1], list[n]) ELSE g[i]]
  <2>2. \A i \in 0..n : i # n => k[i] = g[i] /\ i \in 0..(n - 1)
    OBVIOUS
  <2>3. \A i \in 0..(n - 1) : g[i] = IF i = 0 THEN base ELSE Ingest(g[i - 1], list[i])
    BY <2>1, Zenon
  <2>4. k[n] = Ingest(g[n - 1], list[n]) /\ n # 0 /\ n \in 0..n
    OBVIOUS
  <2>5. DOMAIN k = 0..n /\ k = [i \in 0..n |-> k[i]]
    BY Zenon
  <2> HIDE DEF k
  <2>6. ASSUME NEW i \in 0..n
        PROVE  k[i] = IF i = 0 THEN base ELSE Ingest(k[i - 1], list[i])
    <3>1. i # 0 => i - 1 \in 0..n /\ i - 1 # n
      OBVIOUS
    <3>2. i # 0 => k[i - 1] = g[i - 1]
      BY <3>1, <2>2, Zenon
    <3>3. CASE i = n
      BY <3>2, <3>3, <2>4, Zenon
    <3>4. CASE i # n
      BY <3>2, <3>4, <2>2, <2>3, Zenon
    <3> QED
      BY <3>3, <3>4, Zenon
  <2>7. Rec(k, n)
    BY <2>5, <2>6, SMTT(30)
  <2> QED
    BY <2>7
<1>3. N \in S
  <2> HIDE DEF S
  <2>1. \A n \in 1..N : n - 1 \in S => n \in S
    BY <1>2, Zenon
  <2>2. \A n \in 0..N : n \in S
    BY <1>1, <2>1, UpTo, Zenon
  <2> QED
    BY <2>2
<1> DEFINE f == CHOOSE g : Rec(g, N)
<1>4. Rec(f, N)
  BY <1>3, Zenon
<1>5. Ingested(list) = f[N]
  BY Zenon DEF Ingested, base
<1> HIDE DEF f
<1>6. f[0] = base /\ \A i \in 1..N : f[i] = Ingest(f[i - 1], list[i])
  BY <1>4
<1> QED
  BY <1>5, <1>6, Zenon DEF base

Heard(ues) == {"node"} \cup UNION {{ues[c][i] : i \in 1..Len(ues[c])} : c \in Cells}
Sample(s, level) == [source |-> s, values |-> [counter |-> count[s], gauge |-> level[s]]]
Internal(c) == [source |-> c, values |-> [internal |-> 0]]
SamplesOf(ues, level) ==
  {Sample(s, level) : s \in Heard(ues)} \cup {Internal(c) : c \in Cells}

(* A cell lists UEs, and so every source that is heard is one. *)
LEMMA ListingsAreLists ==
  ASSUME NEW ues \in Listings
  PROVE  /\ \A c \in Cells : ues[c] \in Seq(UEs)
         /\ Heard(ues) \subseteq Sources
<1>1. ASSUME NEW c \in Cells PROVE ues[c] \in Seq(UEs)
  <2>1. PICK us \in SUBSET UEs : ues[c] \in Injection(1..Cardinality(us), us)
    BY DEF Listings
  <2>2. IsFiniteSet(us)
    BY PmAssumption, FS_Subset, Zenon
  <2> DEFINE k == Cardinality(us)
  <2>3. k \in Nat
    BY <2>2, FS_CardinalityType, Zenon
  <2>4. ues[c] \in [1..k -> us]
    BY <2>1, Zenon DEF Injection
  <2> HIDE DEF k
  <2> QED
    BY <2>3, <2>4
<1>2. ASSUME NEW c \in Cells, NEW i \in 1..Len(ues[c]) PROVE ues[c][i] \in UEs
  BY <1>1
<1> QED
  BY <1>1, <1>2 DEF Heard, Sources

(* Mapper.Map makes nothing but these samples. *)
LEMMA MapSamples ==
  ASSUME NEW ues \in Listings, NEW level
  PROVE  Map(ues, level) \in Seq(SamplesOf(ues, level))
<1> DEFINE T == SamplesOf(ues, level)
           N == Len(CellList)
<1>1. N \in Nat /\ \A n \in 1..N : CellList[n] \in Cells
  BY PmAssumption, SMTT(30) DEF Cells
<1>2. PICK f : /\ f[0] = <<NodeSample(level)>>
               /\ \A n \in 1..N : f[n] = f[n - 1] \o CellSamples(CellList[n], ues, level)
               /\ Map(ues, level) = f[N]
  BY <1>1, MapUnfolds, Zenon
<1>3. NodeSample(level) \in T
  BY Zenon DEF NodeSample, SamplesOf, Sample, Heard
<1>4. ASSUME NEW c \in Cells PROVE CellSamples(c, ues, level) \in Seq(T)
  <2>1. ues[c] \in Seq(UEs)
    BY ListingsAreLists, Zenon
  <2> DEFINE k == Len(ues[c])
             q == [i \in 1..k |-> UESample(ues[c][i], level)]
  <2>2. k \in Nat
    BY <2>1, SMTT(30)
  <2>3. ASSUME NEW i \in 1..k PROVE UESample(ues[c][i], level) \in T
    <3>1. ues[c][i] \in Heard(ues)
      BY DEF Heard
    <3> QED
      BY <3>1, Zenon DEF UESample, SamplesOf, Sample
  <2>4. Internal(c) \in T
    BY Zenon DEF SamplesOf
  <2> HIDE DEF T, k
  <2>5. q \in Seq(T)
    BY <2>2, <2>3
  <2>6. <<Internal(c)>> \in Seq(T)
    BY <2>4
  <2>7. CellSamples(c, ues, level) = <<Internal(c)>> \o q
    BY Zenon DEF CellSamples, Internal, k
  <2> HIDE DEF q
  <2> QED
    BY <2>5, <2>6, <2>7, ConcatProperties, Zenon
<1> DEFINE S == {n \in 0..N : f[n] \in Seq(T)}
<1> HIDE DEF T
<1>5. 0 \in S
  <2>1. \A x \in T : <<x>> \in Seq(T)
    OBVIOUS
  <2>2. f[0] \in Seq(T)
    BY <1>2, <1>3, <2>1, Zenon
  <2> QED
    BY <1>1, <2>2
<1>6. ASSUME NEW n \in 1..N, n - 1 \in S PROVE n \in S
  <2>1. f[n - 1] \in Seq(T) /\ CellSamples(CellList[n], ues, level) \in Seq(T)
    BY <1>1, <1>4, <1>6, Zenon
  <2>2. f[n] = f[n - 1] \o CellSamples(CellList[n], ues, level)
    BY <1>2, Zenon
  <2>3. f[n] \in Seq(T)
    BY <2>1, <2>2, ConcatProperties, Zenon
  <2> QED
    BY <2>3, <1>1
<1>7. N \in S
  <2> HIDE DEF S
  <2>1. \A n \in 1..N : n - 1 \in S => n \in S
    BY <1>6, Zenon
  <2>2. \A n \in 0..N : n \in S
    BY <1>1, <1>5, <2>1, UpTo, Zenon
  <2> QED
    BY <1>1, <2>2
<1> QED
  BY <1>2, <1>7, Zenon DEF T

LEMMA ResolveIsObject ==
  /\ \A s \in Sources : Resolve(s) \in MeasObjects
  /\ \A c \in Cells : Resolve(c) = c /\ c \in MeasObjects
BY PmAssumption, Zenon DEF Resolve, Sources, MeasObjects

(* What a sample of s does to the accumulators: there is no room for its object o, or
   it starts or goes on with the two meters of the object. *)
Takes(as, next, o, s, level) ==
  \/ next = as
  \/ /\ DOMAIN next = DOMAIN as \cup {o}
     /\ \A p \in DOMAIN as \ {o} : next[p] = as[p]
     /\ DOMAIN next[o] = Metrics
     /\ next[o] = [m \in Metrics |-> next[o][m]]
     /\ IF o \in DOMAIN as /\ as[o] # Nothing
        THEN /\ next[o]["counter"] = Added(as[o]["counter"], count[s])
             /\ next[o]["gauge"] = Added(as[o]["gauge"], level[s])
        ELSE /\ next[o]["counter"] = Started(count[s])
             /\ next[o]["gauge"] = Started(level[s])

LEMMA IngestSample ==
  ASSUME NEW as, NEW s, NEW level, NEW o, o = Resolve(s), NEW next,
         next = Ingest(as, Sample(s, level)),
         o \in DOMAIN as => as[o] = Nothing \/ DOMAIN as[o] = Metrics
  PROVE  Takes(as, next, o, s, level)
<1> DEFINE values == [counter |-> count[s], gauge |-> level[s]]
           mm == IF o \in DOMAIN as THEN as[o] ELSE Nothing
           new == {m \in DOMAIN values : Allowed(m)}
           To(m) == IF m \notin new THEN mm[m]
                    ELSE IF m \in DOMAIN mm THEN Added(mm[m], values[m])
                    ELSE Started(values[m])
<1>1. new = Metrics /\ values["counter"] = count[s] /\ values["gauge"] = level[s]
  BY Zenon DEF Allowed, Metrics
<1>2. /\ Sample(s, level).source = s /\ Sample(s, level).values = values
  BY Zenon DEF Sample
<1>3. IF o \notin DOMAIN as /\ ~Room(as) THEN next = as
      ELSE next = [p \in DOMAIN as \cup {o} |->
                     IF p = o THEN [m \in DOMAIN mm \cup new |-> To(m)] ELSE as[p]]
  BY <1>2, Zenon DEF Ingest
<1> HIDE DEF values, new
<1>4. DOMAIN Nothing = {}
  BY Zenon DEF Nothing
<1>5. mm = Nothing \/ DOMAIN mm = Metrics
  BY Zenon
<1>6. DOMAIN mm \cup new = Metrics
  BY <1>1, <1>4, <1>5, Zenon
<1>7. CASE next = as
  BY <1>7, Zenon DEF Takes
<1>8. CASE next # as
  <2>1. next = [p \in DOMAIN as \cup {o} |-> IF p = o THEN [m \in Metrics |-> To(m)] ELSE as[p]]
    BY <1>3, <1>6, <1>8, Zenon
  <2>2. "counter" \in Metrics /\ "gauge" \in Metrics
    BY Zenon DEF Metrics
  <2>3. next[o] = [m \in Metrics |-> To(m)]
    BY <2>1, Zenon
  <2>4. next[o]["counter"] = To("counter") /\ next[o]["gauge"] = To("gauge")
    BY <2>2, <2>3, Zenon
  <2>5. CASE o \in DOMAIN as /\ as[o] # Nothing
    BY <2>1, <2>2, <2>3, <2>4, <2>5, <1>1, <1>5, Zenon DEF Takes
  <2>6. CASE ~(o \in DOMAIN as /\ as[o] # Nothing)
    BY <2>1, <2>2, <2>3, <2>4, <2>6, <1>1, <1>4, Zenon DEF Takes
  <2> QED
    BY <2>5, <2>6, Zenon
<1> QED
  BY <1>7, <1>8, Zenon

(* Of a cell itself nothing is measured: its sample changes no meter. *)
Passes(as, next, c) ==
  \/ next = as
  \/ /\ DOMAIN next = DOMAIN as \cup {c}
     /\ \A p \in DOMAIN as : next[p] = as[p]
     /\ c \notin DOMAIN as => next[c] = Nothing

LEMMA IngestInternal ==
  ASSUME NEW as, NEW c, c = Resolve(c), NEW next,
         next = Ingest(as, Internal(c)),
         c \in DOMAIN as => as[c] = Nothing \/ as[c] = [m \in Metrics |-> as[c][m]]
  PROVE  Passes(as, next, c)
<1> DEFINE values == [internal |-> 0]
           mm == IF c \in DOMAIN as THEN as[c] ELSE Nothing
           new == {m \in DOMAIN values : Allowed(m)}
           To(m) == IF m \notin new THEN mm[m]
                    ELSE IF m \in DOMAIN mm THEN Added(mm[m], values[m])
                    ELSE Started(values[m])
           whole == [m \in DOMAIN mm \cup new |-> To(m)]
<1>1. new = {}
  BY Zenon DEF Allowed
<1>2. /\ Internal(c).source = c /\ Internal(c).values = values
  BY Zenon DEF Internal
<1>3. IF c \notin DOMAIN as /\ ~Room(as) THEN next = as
      ELSE next = [p \in DOMAIN as \cup {c} |->
                     IF p = c THEN whole ELSE as[p]]
  BY <1>2, ZenonT(30) DEF Ingest
<1> HIDE DEF values, new
<1>4. mm = [m \in DOMAIN mm |-> mm[m]]
  BY Zenon DEF Nothing
<1>5. whole = mm
  BY <1>1, <1>4, Zenon
<1> HIDE DEF whole, mm
<1>6. next = as \/ next = [p \in DOMAIN as \cup {c} |-> IF p = c THEN mm ELSE as[p]]
  BY <1>3, <1>5, Zenon
<1> QED
  BY <1>6, Zenon DEF mm, Passes

(* The mean of a meter that starts, or goes on, with x lies between the values. *)
LEMMA MeanStarts ==
  ASSUME NEW vs \in SUBSET Int, NEW x \in vs
  PROVE  Started(x) \in Meters /\ MeanOk(Started(x), vs)
<1>1. x \in Int /\ x * 1 = x
  OBVIOUS
<1>2. Started(x) = [first |-> x, last |-> x, sum |-> x, count |-> 1]
  BY Zenon DEF Started
<1> QED
  BY <1>1, <1>2 DEF MeanOk, Meters

LEMMA MeterAdds ==
  ASSUME NEW a \in Meters, NEW n \in Int
  PROVE  /\ Added(a, n) \in Meters
         /\ Added(a, n).sum = a.sum + n
         /\ Added(a, n).count = a.count + 1
<1> DEFINE b == [a EXCEPT !.last = n]
           c == [b EXCEPT !.sum = a.sum + n]
           d == [c EXCEPT !.count = a.count + 1]
<1>1. a.sum + n \in Int /\ a.count + 1 \in Nat
  BY DEF Meters
<1>2. b \in Meters
  BY Zenon DEF Meters
<1>3. Added(a, n) = d
  BY Zenon DEF Added
<1> HIDE DEF b
<1>4. c \in Meters /\ c.sum = a.sum + n
  BY <1>1, <1>2, Zenon DEF Meters
<1> HIDE DEF c
<1>5. d \in Meters /\ d.sum = c.sum /\ d.count = a.count + 1
  BY <1>1, <1>4, Zenon DEF Meters
<1> QED
  BY <1>3, <1>4, <1>5, Zenon

LEMMA MeanGrows ==
  ASSUME NEW a \in Meters, NEW vs \in SUBSET Int, MeanOk(a, vs), NEW x \in vs
  PROVE  Added(a, x) \in Meters /\ MeanOk(Added(a, x), vs)
<1> DEFINE b == Added(a, x)
           n == a.count
<1>1. x \in Int /\ n \in Nat /\ a.sum \in Int
  BY Zenon DEF Meters
<1>2. b \in Meters /\ b.sum = a.sum + x /\ b.count = n + 1
  BY <1>1, MeterAdds, Zenon
<1>3. \A v \in Int : v * (n + 1) = v * n + v /\ v * n \in Int
  BY <1>1
<1>4. \A v, w \in Int : v <= w => v * n <= w * n
  BY <1>1
<1>5. PICK v \in vs : v * n <= a.sum
  BY Zenon DEF MeanOk
<1>6. PICK w \in vs : w * n >= a.sum
  BY Zenon DEF MeanOk
<1>7. \E y \in vs : y * (n + 1) <= a.sum + x
  <2>1. CASE x <= v
    <3>1. x * n <= v * n
      BY <1>4, <2>1, Zenon
    <3>2. x * (n + 1) <= a.sum + x
      BY <3>1, <1>1, <1>3, <1>5
    <3> QED
      BY <3>2, Zenon
  <2>2. CASE v <= x
    <3>1. v * (n + 1) <= a.sum + x
      BY <2>2, <1>1, <1>3, <1>5
    <3> QED
      BY <3>1, Zenon
  <2> QED
    BY <2>1, <2>2
<1>8. \A p, q, y, z \in Int : p >= q /\ y >= z => p + y >= q + z
  OBVIOUS
<1>9. \E y \in vs : y * (n + 1) >= a.sum + x
  <2>1. CASE x >= w
    <3>1. x * n >= w * n
      BY <1>4, <2>1, Zenon
    <3>2. x * n \in Int /\ w * n \in Int /\ x * (n + 1) = x * n + x
      BY <1>1, <1>3, Zenon
    <3>3. \A p, q, y \in Int : p >= q /\ q >= y => p + x >= y + x
      BY <1>1
    <3>4. x * n + x >= a.sum + x
      BY <3>1, <3>2, <3>3, <1>1, <1>6, Zenon
    <3> QED
      BY <3>2, <3>4, Zenon
  <2>2. CASE w >= x
    <3>1. w * (n + 1) = w * n + w
      BY <1>3, Zenon
    <3>2. w * n + w >= a.sum + x
      BY <2>2, <1>1, <1>3, <1>6, <1>8, Zenon
    <3> QED
      BY <3>1, <3>2, Zenon
  <2> QED
    BY <2>1, <2>2
<1> HIDE DEF b, n
<1>10. b.count > 0
  BY <1>1, <1>2
<1>11. MeanOk(b, vs)
  BY <1>2, <1>7, <1>9, <1>10, Zenon DEF MeanOk
<1> QED
  BY <1>2, <1>11, Zenon DEF b

(* A counter that is sampled for the first time, or again. *)
LEMMA CounterStarts ==
  ASSUME NEW n \in Nat, NEW again
  PROVE  Started(n) \in Meters /\ CounterOk(Started(n), n, 0, 0, again)
BY DEF Started, Meters, CounterOk

LEMMA CounterGrows ==
  ASSUME NEW a \in Meters, NEW n \in Nat, NEW grew \in Nat, NEW again,
         CounterOk(a, n, grew, grew, again)
  PROVE  CounterOk(Added(a, n), n, grew, grew, again)
BY DEF Added, Meters, CounterOk

(* nothing has grown at an object without a meter *)
Fresh(as) ==
  \A o \in MeasObjects : o \notin DOMAIN as \/ as[o] = Nothing => grown[o] = 0

(* One sample after the other keeps the accumulators in agreement with the counters,
   as they are after the whole report. *)
LEMMA SampleAgrees ==
  ASSUME PmType, NEW ues \in Listings, NEW level \in [Sources -> GaugeLevels],
         NEW before \in [MeasObjects -> Nat], NEW vs \in [MeasObjects -> SUBSET Int],
         \A s \in Heard(ues) : /\ before[Resolve(s)] = grown[Resolve(s)]
                               /\ level[s] \in vs[Resolve(s)],
         NEW as, Agree(as, before, vs), Fresh(as),
         NEW sample \in SamplesOf(ues, level), NEW next, next = Ingest(as, sample)
  PROVE  Agree(next, before, vs) /\ Fresh(next)
<1>0. DOMAIN Nothing = {} /\ Metrics # {}
  BY Zenon DEF Nothing, Metrics
<1>1. ASSUME NEW s \in Heard(ues), sample = Sample(s, level)
      PROVE  Agree(next, before, vs) /\ Fresh(next)
  <2> DEFINE o == Resolve(s)
  <2>1. s \in Sources /\ o \in MeasObjects /\ count[s] \in Nat /\ level[s] \in Int
    BY ListingsAreLists, ResolveIsObject, PmAssumption, Zenon DEF PmType
  <2>2. /\ before[o] = grown[o] /\ grown[o] \in Nat /\ level[s] \in vs[o] /\ vs[o] \in SUBSET Int
    BY <2>1, Zenon DEF PmType
  <2>3. \A p \in DOMAIN as : as[p] = Nothing \/ as[p] \in [Metrics -> Meters]
    BY Zenon DEF Agree
  <2> HIDE DEF o
  <2>4. Takes(as, next, o, s, level)
    <3>1. o \in DOMAIN as => as[o] = Nothing \/ DOMAIN as[o] = Metrics
      BY <2>3, Zenon
    <3>2. o = Resolve(s) /\ next = Ingest(as, Sample(s, level))
      BY <1>1, Zenon DEF o
    <3> QED
      BY <3>1, <3>2, IngestSample, Zenon
  <2>5. CASE next = as
    BY <2>5, Zenon
  <2>6. ASSUME next # as PROVE Agree(next, before, vs) /\ Fresh(next)
    <3>1. /\ DOMAIN next = DOMAIN as \cup {o}
          /\ \A p \in DOMAIN as \ {o} : next[p] = as[p]
          /\ DOMAIN next[o] = Metrics
          /\ next[o] = [m \in Metrics |-> next[o][m]]
      BY <2>4, <2>6, Zenon DEF Takes
    <3>2. next[o] # Nothing
      BY <3>1, <1>0, Zenon
    <3>3. /\ next[o]["counter"] \in Meters /\ next[o]["gauge"] \in Meters
          /\ MeanOk(next[o]["gauge"], vs[o])
          /\ OnlyOf(o, s) =>
               CounterOk(next[o]["counter"], count[s], grown[o], before[o], o \in reset)
      <4>1. CASE o \in DOMAIN as /\ as[o] # Nothing
        <5>1. /\ as[o]["counter"] \in Meters /\ as[o]["gauge"] \in Meters
              /\ MeanOk(as[o]["gauge"], vs[o])
              /\ OnlyOf(o, s) =>
                   CounterOk(as[o]["counter"], count[s], grown[o], before[o], o \in reset)
          BY <4>1, Zenon DEF Agree, Metrics
        <5>2. /\ next[o]["counter"] = Added(as[o]["counter"], count[s])
              /\ next[o]["gauge"] = Added(as[o]["gauge"], level[s])
          BY <2>4, <2>6, <4>1, Zenon DEF Takes
        <5>3. next[o]["gauge"] \in Meters /\ MeanOk(next[o]["gauge"], vs[o])
          BY <5>1, <5>2, <2>2, MeanGrows, Zenon
        <5>4. next[o]["counter"] \in Meters
          <6>1. count[s] \in Int
            BY <2>1, SMTT(30)
          <6> QED
            BY <5>1, <5>2, <6>1, MeterAdds, Zenon
        <5>5. OnlyOf(o, s) => CounterOk(next[o]["counter"], count[s], grown[o], before[o], o \in reset)
          BY <5>1, <5>2, <2>1, <2>2, CounterGrows, Zenon
        <5> QED
          BY <5>3, <5>4, <5>5, Zenon
      <4>2. CASE ~(o \in DOMAIN as /\ as[o] # Nothing)
        <5>1. /\ next[o]["counter"] = Started(count[s])
              /\ next[o]["gauge"] = Started(level[s])
          BY <2>4, <2>6, <4>2, Zenon DEF Takes
        <5>2. grown[o] = 0 /\ before[o] = 0
          BY <2>1, <2>2, <4>2, Zenon DEF Fresh
        <5>3. next[o]["gauge"] \in Meters /\ MeanOk(next[o]["gauge"], vs[o])
          BY <5>1, <2>2, MeanStarts, Zenon
        <5>4. next[o]["counter"] \in Meters
              /\ CounterOk(next[o]["counter"], count[s], grown[o], before[o], o \in reset)
          BY <5>1, <5>2, <2>1, CounterStarts, Zenon
        <5> QED
          BY <5>3, <5>4, Zenon
      <4> QED
        BY <4>1, <4>2, Zenon
    <3>4. next[o] \in [Metrics -> Meters]
      BY <3>1, <3>3, Zenon DEF Metrics
    <3>5. \A t : OnlyOf(o, t) => t = s
      BY <2>1, Zenon DEF OnlyOf, o
    <3>6. ASSUME NEW p \in DOMAIN next, next[p] # Nothing
          PROVE  /\ next[p] \in [Metrics -> Meters]
                 /\ MeanOk(next[p]["gauge"], vs[p])
                 /\ \A t : OnlyOf(p, t) =>
                      CounterOk(next[p]["counter"], count[t], grown[p], before[p], p \in reset)
      <4>1. CASE p = o
        BY <3>3, <3>4, <3>5, <4>1, Zenon
      <4>2. CASE p # o
        <5>1. p \in DOMAIN as /\ next[p] = as[p]
          BY <3>1, <4>2, Zenon
        <5> QED
          BY <5>1, <3>6, Zenon DEF Agree
      <4> QED
        BY <4>1, <4>2, Zenon
    <3>7. DOMAIN next \subseteq MeasObjects
      BY <3>1, <2>1, Zenon DEF Agree
    <3>8. Agree(next, before, vs)
      BY <3>6, <3>7, Zenon DEF Agree
    <3>9. Fresh(next)
      <4> SUFFICES ASSUME NEW p \in MeasObjects, p \notin DOMAIN next \/ next[p] = Nothing
                   PROVE  grown[p] = 0
        BY Zenon DEF Fresh
      <4>1. p # o /\ (p \notin DOMAIN as \/ as[p] = Nothing)
        BY <3>1, <3>2, Zenon
      <4> QED
        BY <4>1, Zenon DEF Fresh
    <3> QED
      BY <3>8, <3>9, Zenon
  <2> QED
    BY <2>5, <2>6, Zenon
<1>2. ASSUME NEW c \in Cells, sample = Internal(c)
      PROVE  Agree(next, before, vs) /\ Fresh(next)
  <2>1. c = Resolve(c) /\ c \in MeasObjects
    BY ResolveIsObject, Zenon
  <2>2. \A p \in DOMAIN as : as[p] = Nothing \/ as[p] = [m \in Metrics |-> as[p][m]]
    BY Zenon DEF Agree
  <2>3. Passes(as, next, c)
    <3>1. next = Ingest(as, Internal(c))
      BY <1>2, Zenon
    <3> QED
      BY <3>1, <2>1, <2>2, IngestInternal, Zenon
  <2>4. \A p \in DOMAIN next : next[p] = Nothing \/ (p \in DOMAIN as /\ next[p] = as[p])
    BY <2>3, Zenon DEF Passes
  <2>5. DOMAIN next \subseteq MeasObjects /\ DOMAIN as \subseteq DOMAIN next
        /\ \A p \in DOMAIN as : next[p] = as[p]
    BY <2>1, <2>3, Zenon DEF Agree, Passes
  <2>6. Agree(next, before, vs)
    BY <2>4, <2>5, Zenon DEF Agree
  <2>7. Fresh(next)
    BY <2>5, Zenon DEF Fresh
  <2> QED
    BY <2>6, <2>7, Zenon
<1> QED
  BY <1>1, <1>2, Zenon DEF SamplesOf

(* So do all samples of a report. *)
LEMMA ReportAgrees ==
  ASSUME PmType, NEW ues \in Listings, NEW level \in [Sources -> GaugeLevels],
         NEW before \in [MeasObjects -> Nat], NEW vs \in [MeasObjects -> SUBSET Int],
         \A s \in Heard(ues) : /\ before[Resolve(s)] = grown[Resolve(s)]
                               /\ level[s] \in vs[Resolve(s)],
         Agree(acc, before, vs), Fresh(acc)
  PROVE  /\ Agree(Ingested(Map(ues, level)), before, vs)
         /\ Fresh(Ingested(Map(ues, level)))
<1> DEFINE q == Map(ues, level)
           N == Len(q)
<1>1. q \in Seq(SamplesOf(ues, level))
  BY MapSamples, Zenon
<1>2. N \in Nat /\ \A i \in 1..N : q[i] \in SamplesOf(ues, level)
  BY <1>1, SMTT(30)
<1> HIDE DEF q
<1>3. PICK f : /\ f[0] = acc
               /\ \A i \in 1..N : f[i] = Ingest(f[i - 1], q[i])
               /\ Ingested(q) = f[N]
  BY <1>2, IngestedUnfolds, Zenon
<1> DEFINE S == {i \in 0..N : Agree(f[i], before, vs) /\ Fresh(f[i])}
<1>4. 0 \in S
  BY <1>2, <1>3
<1>5. ASSUME NEW i \in 1..N, i - 1 \in S PROVE i \in S
  <2>1. Agree(f[i - 1], before, vs) /\ Fresh(f[i - 1]) /\ q[i] \in SamplesOf(ues, level)
    BY <1>5, <1>2, Zenon
  <2>2. f[i] = Ingest(f[i - 1], q[i])
    BY <1>3, Zenon
  <2>3. Agree(f[i], before, vs) /\ Fresh(f[i])
    BY <2>1, <2>2, SampleAgrees
  <2> QED
    BY <2>3, <1>2, SMTT(30)
<1>6. N \in S
  <2> HIDE DEF S
  <2>1. \A n \in 1..N : n - 1 \in S => n \in S
    BY <1>5, Zenon
  <2>2. \A n \in 0..N : n \in S
    BY <1>2, <1>4, <2>1, UpTo, Zenon
  <2> QED
    BY <1>2, <2>2
<1> QED
  BY <1>3, <1>6, Zenon DEF q

(* The counters and the meters grow alike as long as nothing starts again. *)
LEMMA PmReceive ==
  ASSUME PmInv, NEW ues \in Listings, NEW level \in [Sources -> GaugeLevels],
         Receive(ues, level)
  PROVE  PmInv'
<1> DEFINE heard == {"node"} \cup UNION {{ues[c][i] : i \in 1..Len(ues[c])} : c \in Cells}
           Of(o) == {h \in heard : Resolve(h) = o}
<1>1. heard = Heard(ues)
  BY Zenon DEF Heard
<1>2. /\ acc' = Ingested(Map(ues, level))
      /\ sampled' = [o \in MeasObjects |->
           IF Measured(o) /\ \E s \in heard : Resolve(s) = o THEN grown[o] ELSE sampled[o]]
      /\ seen' = [o \in MeasObjects |-> seen[o] \cup {level[s] : s \in Of(o)}]
      /\ UNCHANGED <<count, report, grown, reset>>
  BY Zenon DEF Receive
<1> HIDE DEF heard
<1>3. PmType /\ Agree(acc, sampled, seen) /\ Fresh(acc)
  BY Zenon DEF PmInv, Fresh, Measured
<1>4. heard \subseteq Sources
  BY <1>1, ListingsAreLists, Zenon
<1>5. \A s \in heard : level[s] \in Int /\ Resolve(s) \in MeasObjects
  BY <1>4, ResolveIsObject, PmAssumption, Zenon
<1>6. sampled' \in [MeasObjects -> Nat] /\ seen' \in [MeasObjects -> SUBSET Int]
  BY <1>2, <1>3, <1>5, ZenonT(30) DEF PmType
<1>7. ASSUME NEW o \in MeasObjects
      PROVE  /\ sampled[o] <= sampled'[o] /\ sampled'[o] <= grown[o]
             /\ ~Measured(o) => sampled'[o] = 0 /\ grown[o] = 0
             /\ seen[o] \subseteq seen'[o]
  BY <1>2, <1>3 DEF PmInv, PmType
<1>8. ASSUME NEW s \in heard
      PROVE  /\ sampled'[Resolve(s)] = grown[Resolve(s)]
             /\ level[s] \in seen'[Resolve(s)]
  <2>1. CASE Measured(Resolve(s))
    BY <2>1, <1>2, <1>5, Zenon
  <2>2. CASE ~Measured(Resolve(s))
    BY <2>2, <1>2, <1>5, <1>7, Zenon
  <2> QED
    BY <2>1, <2>2, Zenon
<1>9. Agree(acc, sampled', seen')
  <2> SUFFICES ASSUME NEW o \in DOMAIN acc, acc[o] # Nothing
               PROVE  /\ acc[o] \in [Metrics -> Meters]
                      /\ MeanOk(acc[o]["gauge"], seen'[o])
                      /\ \A s : OnlyOf(o, s) =>
                           CounterOk(acc[o]["counter"], count[s], grown[o], sampled'[o], o \in reset)
    BY <1>3, Zenon DEF Agree
  <2>1. /\ o \in MeasObjects
        /\ acc[o] \in [Metrics -> Meters]
        /\ MeanOk(acc[o]["gauge"], seen[o])
        /\ \A s : OnlyOf(o, s) =>
             CounterOk(acc[o]["counter"], count[s], grown[o], sampled[o], o \in reset)
    BY <1>3, Zenon DEF Agree
  <2>2. acc[o]["counter"] \in Meters
    BY <2>1, Zenon DEF Metrics
  <2>3. /\ sampled[o] <= sampled'[o] /\ sampled[o] \in Nat /\ sampled'[o] \in Nat
        /\ seen[o] \subseteq seen'[o]
    BY <2>1, <1>3, <1>6, <1>7, Zenon DEF PmType
  <2>4. MeanOk(acc[o]["gauge"], seen'[o])
    BY <2>1, <2>3, ZenonT(30) DEF MeanOk
  <2>5. ASSUME NEW s, OnlyOf(o, s)
        PROVE  CounterOk(acc[o]["counter"], count[s], grown[o], sampled'[o], o \in reset)
    <3>1. CounterOk(acc[o]["counter"], count[s], grown[o], sampled[o], o \in reset)
      BY <2>1, <2>5, Zenon
    <3> QED
      BY <3>1, <2>2, <2>3 DEF CounterOk, Meters
  <2> QED
    BY <2>1, <2>4, <2>5, Zenon
<1>10. /\ Agree(acc', sampled', seen')
       /\ Fresh(acc')
  BY <1>1, <1>2, <1>3, <1>6, <1>8, <1>9, ReportAgrees, ZenonT(30)
<1>11. ASSUME NEW o \in MeasObjects
       PROVE  /\ sampled'[o] <= grown'[o]
              /\ ~Measured(o)' => grown'[o] = 0 /\ sampled'[o] = 0
  <2>1. sampled'[o] <= grown[o] /\ grown' = grown
    BY <1>2, <1>7, Zenon
  <2>2. ~Measured(o)' => grown[o] = 0
    BY <1>10, Zenon DEF Fresh, Measured
  <2>3. sampled'[o] \in Nat
    BY <1>6, Zenon
  <2> QED
    BY <2>1, <2>2, <2>3, SMTT(30)
<1>12. PmType'
  BY <1>2, <1>3, <1>6, Zenon DEF PmType
<1>13. Agree(acc, sampled, seen)'
  BY <1>2, <1>10, Zenon DEF Agree
<1>14. ReportsAreReal'
  BY <1>2, Zenon DEF PmInv, ReportsAreReal, GrowthIsReal, BackMeansReset, MeanIsOfWindow
<1> QED
  BY <1>11, <1>12, <1>13, <1>14, Zenon DEF PmInv

LEMMA PmUnreported ==
  ASSUME PmInv, UNCHANGED report
  PROVE  ReportsAreReal'
BY Zenon DEF PmInv, ReportsAreReal, GrowthIsReal, BackMeansReset, MeanIsOfWindow

LEMMA PmGrow ==
  ASSUME PmInv, NEW s \in Sources, Grow(s)
  PROVE  PmInv'
<1> DEFINE r == Resolve(s)
<1>1. PmType /\ Agree(acc, sampled, seen) /\ r \in MeasObjects
  BY ResolveIsObject, Zenon DEF PmInv
<1>2. /\ count' = [count EXCEPT ![s] = count[s] + 1]
      /\ grown' = [grown EXCEPT ![r] = IF Measured(r) THEN grown[r] + 1 ELSE 0]
      /\ UNCHANGED <<acc, report, sampled, seen, reset>>
  BY Zenon DEF Grow
<1> HIDE DEF r
<1>3. PmType'
  BY <1>1, <1>2, SMTT(30) DEF PmType
<1>4. ASSUME NEW o \in MeasObjects
      PROVE  /\ sampled'[o] <= grown'[o]
             /\ ~Measured(o)' => grown'[o] = 0 /\ sampled'[o] = 0
  <2>1. sampled[o] \in Nat /\ grown[o] \in Nat /\ Measured(o)' = Measured(o)
    BY <1>1, <1>2, Zenon DEF PmType, Measured
  <2>2. sampled[o] <= grown[o] /\ (~Measured(o) => grown[o] = 0 /\ sampled[o] = 0)
    BY Zenon DEF PmInv
  <2>3. CASE o = r
    BY <2>1, <2>2, <2>3, <1>1, <1>2 DEF PmType
  <2>4. CASE o # r
    BY <2>1, <2>2, <2>4, <1>1, <1>2, Zenon DEF PmType
  <2> QED
    BY <2>3, <2>4, Zenon
<1>5. ASSUME NEW o \in DOMAIN acc, acc[o] # Nothing, NEW t, OnlyOf(o, t)
      PROVE  CounterOk(acc[o]["counter"], count'[t], grown'[o], sampled[o], o \in reset)
  <2>1. /\ CounterOk(acc[o]["counter"], count[t], grown[o], sampled[o], o \in reset)
        /\ acc[o]["counter"] \in Meters
        /\ o \in MeasObjects /\ t \in Sources /\ Resolve(t) = o
    BY <1>1, <1>5, Zenon DEF Agree, OnlyOf, Metrics
  <2>2. count[t] \in Nat /\ grown[o] \in Nat /\ Measured(o)
    BY <2>1, <1>1, <1>5, Zenon DEF PmType, Measured
  <2>3. CASE t = s
    <3>1. count'[t] = count[t] + 1 /\ grown'[o] = grown[o] + 1
      BY <2>1, <2>2, <2>3, <1>1, <1>2, Zenon DEF PmType, r
    <3> QED
      BY <3>1, <2>1, <2>2 DEF CounterOk, Meters
  <2>4. CASE t # s
    <3>1. o # r
      BY <2>4, <1>5, Zenon DEF OnlyOf, r
    <3>2. count'[t] = count[t] /\ grown'[o] = grown[o]
      BY <3>1, <2>1, <2>4, <1>1, <1>2, Zenon DEF PmType
    <3> QED
      BY <3>2, <2>1, Zenon
  <2> QED
    BY <2>3, <2>4, Zenon
<1>6. Agree(acc, sampled, seen)'
  BY <1>1, <1>2, <1>5, Zenon DEF Agree
<1> QED
  BY <1>2, <1>3, <1>4, <1>6, PmUnreported, SMTT(30) DEF PmInv

LEMMA PmStartAgain ==
  ASSUME PmInv, NEW s \in Sources, StartAgain(s)
  PROVE  PmInv'
<1> DEFINE r == Resolve(s)
<1>1. PmType /\ Agree(acc, sampled, seen)
  BY Zenon DEF PmInv
<1>2. /\ count' = [count EXCEPT ![s] = 0]
      /\ reset' = reset \cup {r}
      /\ UNCHANGED <<acc, report, grown, sampled, seen>>
  BY Zenon DEF StartAgain
<1> HIDE DEF r
<1>3. PmType'
  BY <1>1, <1>2, Zenon DEF PmType
<1>4. ASSUME NEW o \in MeasObjects
      PROVE  /\ sampled'[o] <= grown'[o]
             /\ ~Measured(o)' => grown'[o] = 0 /\ sampled'[o] = 0
  BY <1>2, Zenon DEF PmInv, Measured
<1>5. ASSUME NEW o \in DOMAIN acc, acc[o] # Nothing, NEW t, OnlyOf(o, t)
      PROVE  CounterOk(acc[o]["counter"], count'[t], grown[o], sampled[o], o \in reset')
  <2>1. /\ CounterOk(acc[o]["counter"], count[t], grown[o], sampled[o], o \in reset)
        /\ o \in MeasObjects /\ t \in Sources
    BY <1>1, <1>5, Zenon DEF Agree, OnlyOf
  <2>2. count[t] \in Nat /\ grown[o] \in Nat
    BY <2>1, <1>1, Zenon DEF PmType
  <2>3. CASE t = s
    <3>1. count'[t] = 0 /\ o \in reset'
      BY <2>1, <2>3, <1>1, <1>2, <1>5 DEF PmType, OnlyOf, r
    <3> QED
      BY <3>1, <2>1, <2>2 DEF CounterOk
  <2>4. CASE t # s
    <3>1. o # r /\ count'[t] = count[t]
      BY <2>1, <2>4, <1>1, <1>2, <1>5, SMTT(30) DEF OnlyOf, r, PmType
    <3> QED
      BY <3>1, <2>1, <1>2, SMTT(30)
  <2> QED
    BY <2>3, <2>4, Zenon
<1>6. Agree(acc, sampled, seen)'
  BY <1>1, <1>2, <1>5, Zenon DEF Agree
<1> QED
  BY <1>2, <1>3, <1>4, <1>6, PmUnreported, Zenon DEF PmInv

(* An object that is not shared has one source. *)
LEMMA SingleHasSource ==
  ASSUME NEW o, Single(o)
  PROVE  \E s : OnlyOf(o, s)
<1> DEFINE S == {s \in Sources : Resolve(s) = o}
<1>1. IsFiniteSet(Sources)
  <2>1. IsFiniteSet({"node"}) /\ IsFiniteSet(UEs)
    BY PmAssumption, FS_Singleton, Zenon
  <2> QED
    BY <2>1, FS_Union, Zenon DEF Sources
<1>2. IsFiniteSet(S)
  BY <1>1, FS_Subset, Zenon
<1>3. Cardinality(S) = 1
  BY Zenon DEF Single
<1> HIDE DEF S
<1>4. PICK x : S = {x}
  BY <1>2, <1>3, FS_Singleton, Zenon
<1> QED
  BY <1>4 DEF S, OnlyOf

LEMMA PmFlush ==
  ASSUME PmInv, FlushWindow
  PROVE  PmInv'
<1> DEFINE D == {d \in DOMAIN acc : acc[d] # Nothing}
<1>1. PmType /\ Agree(acc, sampled, seen)
  BY Zenon DEF PmInv
<1>2. /\ report' = [o \in D |-> Summary(o)]
      /\ acc' = Nothing
      /\ grown' = [o \in MeasObjects |-> 0]
      /\ sampled' = [o \in MeasObjects |-> 0]
      /\ seen' = [o \in MeasObjects |-> {}]
      /\ count' = count
  BY Zenon DEF FlushWindow
<1>3. PmType'
  BY <1>1, <1>2, Zenon DEF PmType
<1>4. DOMAIN acc' = {}
  BY <1>2, Zenon DEF Nothing
<1>5. Agree(acc, sampled, seen)'
  BY <1>4, Zenon DEF Agree
<1>6. ASSUME NEW o \in MeasObjects
      PROVE  /\ sampled'[o] <= grown'[o]
             /\ ~Measured(o)' => grown'[o] = 0 /\ sampled'[o] = 0
  BY <1>2, SMTT(30)
<1>7. ASSUME NEW o \in DOMAIN report'
      PROVE  LET new == report'[o] IN
             /\ Single(o) => new.counter \in 0..new.sampled
             /\ Single(o) /\ new.back => new.reset
             /\ \E v \in new.seen : v * new.gauge.count <= new.gauge.sum
             /\ \E v \in new.seen : v * new.gauge.count >= new.gauge.sum
  <2> DEFINE A == acc[o]["counter"]
             G == acc[o]["gauge"]
             new == report'[o]
  <2>1. o \in DOMAIN acc /\ acc[o] # Nothing /\ new = Summary(o)
    BY <1>2, Zenon
  <2>2. /\ A \in Meters /\ o \in MeasObjects
        /\ MeanOk(G, seen[o])
        /\ \A s : OnlyOf(o, s) => CounterOk(A, count[s], grown[o], sampled[o], o \in reset)
    BY <2>1, <1>1, Zenon DEF Agree, Metrics
  <2> HIDE DEF new
  <2>3. /\ new.counter = CounterValue(A) /\ new.back = WentBack(A)
        /\ new.gauge = [sum |-> G.sum, count |-> G.count]
        /\ new.sampled = sampled[o] /\ new.seen = seen[o] /\ new.reset = (o \in reset)
    BY <2>1, Zenon DEF Summary, GaugeValue
  <2>4. new.gauge.sum = G.sum /\ new.gauge.count = G.count
    BY <2>3, SMTT(30)
  <2> HIDE DEF A, G
  <2>5. /\ \E v \in new.seen : v * new.gauge.count <= new.gauge.sum
        /\ \E v \in new.seen : v * new.gauge.count >= new.gauge.sum
    BY <2>2, <2>3, <2>4, Zenon DEF MeanOk
  <2>6. sampled[o] \in Nat
    BY <2>2, <1>1, Zenon DEF PmType
  <2>7. ASSUME Single(o)
        PROVE  /\ CounterValue(A) \in 0..sampled[o]
               /\ WentBack(A) => o \in reset
    <3>1. PICK s : CounterOk(A, count[s], grown[o], sampled[o], o \in reset)
      BY <2>2, <2>7, SingleHasSource, Zenon
    <3> QED
      BY <3>1, <2>2, <2>6, SMTT(30) DEF CounterOk, Meters, CounterValue, WentBack
  <2> QED
    BY <2>3, <2>5, <2>7, Zenon DEF new
<1>8. ReportsAreReal'
  BY <1>7, Zenon DEF ReportsAreReal, GrowthIsReal, BackMeansReset, MeanIsOfWindow,
     Single
<1> QED
  BY <1>3, <1>5, <1>6, <1>8, Zenon DEF PmInv

LEMMA PmKept ==
  ASSUME PmInv, PmNext \/ UNCHANGED pmVars
  PROVE  PmInv'
<1>1. CASE UNCHANGED pmVars
  <2>1. UNCHANGED <<count, acc, report, grown, sampled, seen, reset>>
    BY <1>1, Zenon DEF pmVars
  <2>2. PmType' /\ Agree(acc, sampled, seen)'
    BY <2>1, Zenon DEF PmInv, PmType, Agree
  <2> QED
    BY <2>1, <2>2, PmUnreported, Zenon DEF PmInv, Measured
<1>2. ASSUME PmNext PROVE PmInv'
  <2>1. ASSUME NEW s \in Sources, Grow(s) \/ StartAgain(s) PROVE PmInv'
    BY <2>1, PmGrow, PmStartAgain, Zenon
  <2>2. ASSUME NEW ues \in Listings, NEW level \in [Sources -> GaugeLevels],
               Receive(ues, level)
        PROVE  PmInv'
    BY <2>2, PmReceive, Zenon
  <2>3. CASE FlushWindow
    BY <2>3, PmFlush, Zenon
  <2> QED
    BY <1>2, <2>1, <2>2, <2>3, Zenon DEF PmNext
<1> QED
  BY <1>1, <1>2, Zenon

LEMMA PmInitially == PmInit => PmInv
<1> SUFFICES ASSUME PmInit PROVE PmInv
  BY Zenon
<1>1. DOMAIN acc = {} /\ DOMAIN report = {}
  BY Zenon DEF PmInit, Nothing
<1>2. PmType
  BY Zenon DEF PmInit, PmType
<1>3. Agree(acc, sampled, seen)
  BY <1>1, Zenon DEF Agree
<1>4. ReportsAreReal
  BY <1>1, Zenon DEF ReportsAreReal, GrowthIsReal, BackMeansReset, MeanIsOfWindow
<1>5. \A o \in MeasObjects : sampled[o] = 0 /\ grown[o] = 0
  BY Zenon DEF PmInit
<1> QED
  BY <1>2, <1>3, <1>4, <1>5 DEF PmInv

(* In every behaviour, for any cells and UEs, whatever samples are lost, however the
   eNB orders its UEs and whichever counters start again, a report is true of its
   window (metricAcc.value). *)
THEOREM ReportsAreTrue == PmSpec => []ReportsAreReal
<1>1. PmInit => PmInv
  BY PmInitially, Zenon
<1>2. PmInv /\ [PmNext]_pmVars => PmInv'
  BY PmKept, Zenon
<1>3. PmInv => ReportsAreReal
  BY Zenon DEF PmInv
<1> QED
  BY <1>1, <1>2, <1>3, PTL DEF PmSpec
=============================================================================
