------------------------------ MODULE PmWindows ------------------------------
(***************************************************************************)
(* The performance measurements (internal/ems/fcaps/pm): what the eNB      *)
(* counts, the samples the mapper makes of its reports, the accumulators   *)
(* of a window and the report at its end.  The eNB reports the node, its   *)
(* cells and their UEs; the registry resolves a UE to the object of its    *)
(* cell.  Counters go on growing while reports are lost on the way, and    *)
(* start again from zero when the eNB restarts or a UE is replaced.        *)
(***************************************************************************)
EXTENDS Integers, Sequences, FiniteSets, Functions

CONSTANTS
  CellList,   \* the cells, as the eNB lists them
  UEs,        \* the UEs
  CellOf,     \* CellOf[u]: the cell of a UE
  GaugeLevels, \* the values of a gauge
  MaxDN,      \* the most objects in a window (1024)
  MaxCount,   \* bound: the value of a counter
  MaxEvents,  \* bound: the reports of the eNB in a window
  Resets      \* bound: the counters that start again

Sources == {"node"} \cup UEs

VARIABLES
  count,    \* the counter of each source
  acc,      \* the accumulators of the window, by object and metric
  events,   \* the reports of the eNB in this window
  report,   \* the latest PM report
  grown,    \* history: by object, what its counters grew since its first sample
  sampled,  \* history: by object, the same at its last sample
  seen,     \* history: by object, the gauges in this window
  reset,    \* history: the objects with a counter that started again in it
  resets    \* the counters that started again so far

pmVars == <<count, acc, events, report, grown, sampled, seen, reset, resets>>

-----------------------------------------------------------------------------
Nothing == [o \in {} |-> 0]

(* Registry.Resolve: the scope of a UE is trimmed to that of its cell *)
Resolve(s) == IF s \in UEs THEN CellOf[s] ELSE s
Cells == {CellList[i] : i \in 1..Len(CellList)}
MeasObjects == {"node"} \cup Cells

(* the cells and the UEs have names of their own, and a UE is in one of the cells *)
ASSUME PmAssumption ==
  /\ CellList \in Seq({CellList[i] : i \in 1..Len(CellList)})
  /\ IsFiniteSet(UEs)
  /\ CellOf \in [UEs -> Cells]
  /\ "node" \notin UEs \cup Cells
  /\ UEs \cap Cells = {}
  /\ GaugeLevels \subseteq Int

(* mapNode and mapUE: counters and gauges.  mapCells: of a cell itself only a
   metric that is no measurement, then its UEs as it lists them *)
NodeSample(level) == [source |-> "node", values |-> [counter |-> count["node"], gauge |-> level["node"]]]
UESample(u, level) == [source |-> u, values |-> [counter |-> count[u], gauge |-> level[u]]]
CellSamples(c, ues, level) ==
  <<[source |-> c, values |-> [internal |-> 0]]>> \o
  [i \in 1..Len(ues[c]) |-> UESample(ues[c][i], level)]

(* Mapper.Map of an eNB report: the node, then cell after cell.  A gNB report
   (mapGNB) takes the same path with gauges alone for a UE, and is left out *)
Map(ues, level) ==
  LET mapped[n \in 0..Len(CellList)] ==
        IF n = 0 THEN <<NodeSample(level)>>
        ELSE mapped[n - 1] \o CellSamples(CellList[n], ues, level)
  IN mapped[Len(CellList)]

(* IsAllowedCanonicalKey *)
Allowed(metric) == metric # "internal"

(* newMetricAcc and its first add, or a further add *)
Started(v) == [first |-> v, last |-> v, sum |-> v, count |-> 1]
Added(a, v) == [a EXCEPT !.last = v, !.sum = @ + v, !.count = @ + 1]

(* metricAcc.value: a mean, as sum and count, or a difference *)
GaugeValue(a) == [sum |-> a.sum, count |-> a.count]
WentBack(a) == a.last < a.first

(* Fault: the difference as it is *)
CounterSigned(a) == a.last - a.first

CounterValue(a) == IF WentBack(a) THEN a.last ELSE a.last - a.first

Room(as) == Cardinality(DOMAIN as) < MaxDN

(* ingest of one sample: an object the window has no room for is dropped *)
Ingest(as, sample) ==
  LET dn == Resolve(sample.source)
      mm == IF dn \in DOMAIN as THEN as[dn] ELSE Nothing
      new == {m \in DOMAIN sample.values : Allowed(m)}
      AddTo(m) == IF m \notin new THEN mm[m]
                  ELSE IF m \in DOMAIN mm THEN Added(mm[m], sample.values[m])
                  ELSE Started(sample.values[m])
  IN IF dn \notin DOMAIN as /\ ~Room(as) THEN as
     ELSE [o \in DOMAIN as \cup {dn} |->
             IF o = dn THEN [m \in DOMAIN mm \cup new |-> AddTo(m)] ELSE as[o]]

(* one sample after the other *)
Ingested(samples) ==
  LET after[i \in 0..Len(samples)] ==
        IF i = 0 THEN acc ELSE Ingest(after[i - 1], samples[i])
  IN after[Len(samples)]
-----------------------------------------------------------------------------
Measured(o) == o \in DOMAIN acc /\ acc[o] # Nothing

Grow(s) ==
  /\ count[s] < MaxCount
  /\ count' = [count EXCEPT ![s] = @ + 1]
  /\ grown' = [grown EXCEPT ![Resolve(s)] = IF Measured(Resolve(s)) THEN @ + 1 ELSE 0]
  /\ UNCHANGED <<acc, events, report, sampled, seen, reset, resets>>

StartAgain(s) ==
  /\ resets < Resets
  /\ count[s] > 0
  /\ resets' = resets + 1
  /\ count' = [count EXCEPT ![s] = 0]
  /\ reset' = reset \cup {Resolve(s)}
  /\ UNCHANGED <<acc, events, report, grown, sampled, seen>>

(* the UEs that a report lists for its cells, a UE for its cell and in any order *)
Listings ==
  {ues \in [Cells -> UNION {Injection(1..Cardinality(us), us) : us \in SUBSET UEs}] :
     \A c \in Cells : \A i \in 1..Len(ues[c]) : CellOf[ues[c][i]] = c}

(* a report of the eNB reaches the engine: Map, then ingest of each sample *)
Receive(ues, level) ==
  LET heard == {"node"} \cup UNION {{ues[c][i] : i \in 1..Len(ues[c])} : c \in Cells}
  IN /\ events < MaxEvents
     /\ events' = events + 1
     /\ acc' = Ingested(Map(ues, level))
     /\ sampled' = [o \in MeasObjects |->
                     IF Measured(o) /\ \E s \in heard : Resolve(s) = o THEN grown[o] ELSE sampled[o]]
     /\ seen' = [o \in MeasObjects |-> seen[o] \cup {level[s] : s \in {h \in heard : Resolve(h) = o}}]
     /\ UNCHANGED <<count, report, grown, reset, resets>>

Summary(o) ==
  [counter |-> CounterValue(acc[o]["counter"]), back |-> WentBack(acc[o]["counter"]),
   gauge |-> GaugeValue(acc[o]["gauge"]),
   sampled |-> sampled[o], seen |-> seen[o], reset |-> o \in reset]

(* Fault: the accumulators of the objects go on into the next window *)
FlushKeeping ==
  /\ report' = [o \in {d \in DOMAIN acc : acc[d] # Nothing} |-> Summary(o)]
  /\ events' = 0
  /\ grown' = [o \in MeasObjects |-> 0]
  /\ sampled' = [o \in MeasObjects |-> 0]
  /\ seen' = [o \in MeasObjects |-> {}]
  /\ reset' = {}
  /\ UNCHANGED <<count, acc, resets>>

(* flush: the report replaces the stored one and the next window starts empty *)
FlushWindow ==
  /\ report' = [o \in {d \in DOMAIN acc : acc[d] # Nothing} |-> Summary(o)]
  /\ acc' = Nothing
  /\ events' = 0
  /\ grown' = [o \in MeasObjects |-> 0]
  /\ sampled' = [o \in MeasObjects |-> 0]
  /\ seen' = [o \in MeasObjects |-> {}]
  /\ reset' = {}
  /\ UNCHANGED <<count, resets>>

PmInit ==
  /\ count = [s \in Sources |-> 0]
  /\ acc = Nothing
  /\ events = 0
  /\ report = Nothing
  /\ grown = [o \in MeasObjects |-> 0]
  /\ sampled = [o \in MeasObjects |-> 0]
  /\ seen = [o \in MeasObjects |-> {}]
  /\ reset = {}
  /\ resets = 0

PmNext ==
  \/ \E s \in Sources : Grow(s) \/ StartAgain(s)
  \/ \E ues \in Listings, level \in [Sources -> GaugeLevels] : Receive(ues, level)
  \/ FlushWindow

PmSpec == PmInit /\ [][PmNext]_pmVars
-----------------------------------------------------------------------------
(* the object is not shared by several UEs *)
Single(o) == Cardinality({s \in Sources : Resolve(s) = o}) = 1

(* A counter of the node, or of a cell with one UE, is never reported to have
   grown by more than it grew between the samples of that window, whatever was
   lost and although it may have started again (metricAcc.value). *)
GrowthIsReal ==
  \A o \in DOMAIN report : Single(o) => report[o].counter \in 0..report[o].sampled

(* A reported mean is a mean of gauges of its own window: it lies between the
   least and the greatest of them. *)
MeanIsOfWindow ==
  \A o \in DOMAIN report :
    LET g == report[o].gauge IN
    /\ \E v \in report[o].seen : v * g.count <= g.sum
    /\ \E v \in report[o].seen : v * g.count >= g.sum

(* A difference that is negative is a counter that started again within the
   window, as the comment in metricAcc.value says, unless several UEs share the
   accumulator. *)
BackMeansReset == \A o \in DOMAIN report : Single(o) /\ report[o].back => report[o].reset

(* What a report says is true of its window: the growth of its counters, what it says
   of a counter that went back, and its means. *)
ReportsAreReal == GrowthIsReal /\ BackMeansReset /\ MeanIsOfWindow
=============================================================================
