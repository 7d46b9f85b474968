--------------------------- MODULE ThresholdAlerts ---------------------------
(***************************************************************************)
(* The threshold crossing alerts (internal/ems/fcaps/tca).  Every PM report *)
(* is evaluated by every rule for every managed object: a threshold that   *)
(* stays crossed for the rule's raise duration raises an alarm, one that   *)
(* stays clear for its clear duration clears it.  Between the reports that *)
(* arrive time passes, because the bus drops a report for a subscriber     *)
(* that is behind, and several may arrive at the same time, because the    *)
(* control API can inject one.  When the agent is started again the engine *)
(* has forgotten everything and the alarm list has not.                    *)
(***************************************************************************)
EXTENDS Integers, Sequences, FiniteSets, Functions

CONSTANTS
  Rules,      \* the rules under test
  Objects,    \* the managed objects a report may be about
  MetricsOf,  \* the metrics a report may hold for an object
  Levels,     \* the values of a metric
  Default(_), \* DemoSafeConfig: per rule, its thresholds and durations
  File(_),    \* per rule, what the configuration file says of it
  MaxTime,    \* bound: the time, counted in granularity periods
  MaxEvaluations, \* bound: the reports evaluated
  Restarts    \* bound: the starts of the agent after the first

VARIABLES
  now,      \* the time
  states,   \* the engine's state of each rule and object
  listed,   \* the alarms that are active in the alarm list
  trail,    \* history: per alarm, the verdicts of its evaluations in order
  reports,  \* the reports evaluated so far
  starts    \* the starts of the agent after the first

alertVars == <<now, states, listed, trail, reports, starts>>

Alarms == Rules \X Objects
None == -1
Idle == [active |-> FALSE, pendingRaise |-> None, pendingClear |-> None]
-----------------------------------------------------------------------------
(* isTCARuleConfigured: the file names the rule or gives it a value *)
IsConfigured(in) ==
  in.enabled \/ in.raise # 0 \/ in.clear # 0 \/ in.raiseDuration # 0 \/ in.clearDuration # 0

(* normalizeRule: a duration that is absent keeps its default *)
NormalizeRule(def, in) ==
  IF ~in.enabled THEN [def EXCEPT !.enabled = FALSE]
  ELSE [enabled |-> TRUE, raise |-> in.raise, clear |-> in.clear,
        raiseDuration |-> IF in.raiseDuration > 0 THEN in.raiseDuration ELSE def.raiseDuration,
        clearDuration |-> IF in.clearDuration > 0 THEN in.clearDuration ELSE def.clearDuration]

(* buildTCAConfig *)
Config(r) == IF IsConfigured(File(r)) THEN NormalizeRule(Default(r), File(r)) ELSE Default(r)
-----------------------------------------------------------------------------
(* What a rule reads from the metrics of an object: the values it evaluates. *)

(* firstMetricValue *)
FirstMetric(values, keys) ==
  {values[keys[i]] : i \in {n \in DOMAIN keys : /\ keys[n] \in DOMAIN values
                                                /\ \A m \in 1..(n - 1) : keys[m] \notin DOMAIN values}}

(* sumValues: the counters of a rule that are present *)
SumValues(values, keys) ==
  LET found == keys \cap DOMAIN values
  IN IF found = {} THEN {} ELSE {SumFunctionOnSet(values, found)}

(* maxBLER *)
MaxBLER(values) ==
  LET found == {values[k] : k \in {"dl_bler", "ul_bler"} \cap DOMAIN values}
  IN {v \in found : \A w \in found : w <= v}

(* badSignalValue: a negative SNR, else the CQI, else the SNR *)
BadSignal(values) ==
  IF "ul_snr" \in DOMAIN values /\ values["ul_snr"] < 0
  THEN {values["ul_snr"]}
  ELSE FirstMetric(values, <<"dl_cqi", "ul_snr">>)

(* evaluateNodeCounters: the counters of its rules *)
CounterKeys ==
  [nas_signaling_loss       |-> {"nas_dl_drop", "nas_ul_fail"},
   nas_security_mismatch    |-> {"nas_ul_sec_unknown"},
   nas_parsing_failure      |-> {"nas_ul_parse_fail", "nas_dl_parse_fail"},
   rrc_protocol_error       |-> {"rrc_protocol_fail"},
   rrc_connection_rejection |-> {"rrc_con_reject"},
   core_service_reject      |-> {"nas_dl_service_rej"},
   paging_capacity_exceeded |-> {"rrc_paging_fail"},
   rlc_max_retransmissions  |-> {"rrc_max_rlc_retx"}]

(* the metrics of the rules that take the first one present *)
MetricKeys ==
  [s1_interface_down        |-> <<"s1ap_ready", "ngap_ready">>,
   radio_link_failure_storm |-> <<"rlf_cnt">>,
   rf_interference_detected |-> <<"ul_pucch_ni">>,
   ue_inactivity_cleanup    |-> <<"rrc_inactivity">>,
   power_headroom_critical  |-> <<"ul_phr">>]

ValueOf(rule, values) ==
  CASE rule \in DOMAIN CounterKeys     -> SumValues(values, CounterKeys[rule])
    [] rule \in DOMAIN MetricKeys      -> FirstMetric(values, MetricKeys[rule])
    [] rule = "bad_signal_condition"   -> BadSignal(values)
    [] rule = "high_bler"              -> MaxBLER(values)

(* the comparisons with which Evaluate instantiates a rule *)
Violates(rule, v) ==
  CASE rule \in {"s1_interface_down", "bad_signal_condition", "low_throughput"}
                                           -> v < Config(rule).raise
    [] rule = "power_headroom_critical"    -> v <= Config(rule).raise
    [] OTHER                               -> v > Config(rule).raise

Clears(rule, v) ==
  CASE rule \in {"s1_interface_down", "low_throughput"} -> v >= Config(rule).clear
    [] rule \in {"bad_signal_condition", "power_headroom_critical"} -> v > Config(rule).clear
    [] rule \in {"high_bler", "rf_interference_detected", "ue_inactivity_cleanup"}
                                                        -> v < Config(rule).clear
    [] OTHER -> v <= Config(rule).clear

Verdict(rule, v) == [violation |-> Violates(rule, v), clear |-> Clears(rule, v)]

RuleConfigs ==
  [enabled : BOOLEAN, raise : Int, clear : Int, raiseDuration : Nat, clearDuration : Nat]

RuleNames ==
  DOMAIN CounterKeys \cup DOMAIN MetricKeys \cup
  {"bad_signal_condition", "high_bler", "low_throughput", "bearer_congestion"}

(* thresholds are compared as numbers, and no duration is negative *)
ASSUME AlertAssumption ==
  /\ Rules \subseteq RuleNames
  /\ IsFiniteSet(Objects)
  /\ Levels \subseteq Int
  /\ \A r \in Rules : Default(r) \in RuleConfigs /\ File(r) \in RuleConfigs

(* the rules that raise on a value that is too low; the other ones raise on one
   that is too high *)
LowRules == {"s1_interface_down", "bad_signal_condition", "low_throughput", "power_headroom_critical"}

(* No value both crosses the threshold of a rule and is clear of it.  So it is with
   the thresholds of DemoSafeConfig; those of a file are taken as they are. *)
ThresholdsInOrder ==
  \A r \in Rules : IF r \in LowRules THEN Config(r).raise <= Config(r).clear
                   ELSE Config(r).clear <= Config(r).raise
-----------------------------------------------------------------------------
Begun(s) == IF s.pendingRaise = None THEN now ELSE s.pendingRaise
Start(s) == IF s.pendingClear = None THEN now ELSE s.pendingClear

(* transition of an active alarm: the clear timer restarts in the band between
   the thresholds *)
WhileActive(cfg, s, v) ==
  CASE v.clear /\ now - Start(s) < cfg.clearDuration  -> [s EXCEPT !.pendingClear = Start(s)]
    [] v.clear /\ now - Start(s) >= cfg.clearDuration -> Idle
    [] ~v.clear                                       -> [s EXCEPT !.pendingClear = None]

(* Fault: the clear timer goes on running in the band between the thresholds *)
TransitionKeepingTimer(rule, s, v) ==
  IF s.active /\ ~v.clear /\ ~v.violation THEN s
  ELSE IF s.active THEN WhileActive(Config(rule), s, v)
  ELSE IF ~v.violation THEN Idle
  ELSE IF now - Begun(s) < Config(rule).raiseDuration THEN [s EXCEPT !.pendingRaise = Begun(s)]
  ELSE [s EXCEPT !.active = TRUE, !.pendingRaise = None]

(* Fault: a crossing that ends early does not cancel the pending raise *)
TransitionNotCancelling(rule, s, v) ==
  IF s.active THEN WhileActive(Config(rule), s, v)
  ELSE IF ~v.violation THEN s
  ELSE IF now - Begun(s) < Config(rule).raiseDuration THEN [s EXCEPT !.pendingRaise = Begun(s)]
  ELSE [s EXCEPT !.active = TRUE, !.pendingRaise = None]

(* Fault: the raise needs more than its duration *)
TransitionStrict(rule, s, v) ==
  IF s.active THEN WhileActive(Config(rule), s, v)
  ELSE IF ~v.violation THEN Idle
  ELSE IF now - Begun(s) <= Config(rule).raiseDuration THEN [s EXCEPT !.pendingRaise = Begun(s)]
  ELSE [s EXCEPT !.active = TRUE, !.pendingRaise = None]

(* transition: one evaluation of an alarm *)
Transition(rule, s, v) ==
  CASE s.active -> WhileActive(Config(rule), s, v)
    [] ~s.active /\ ~v.violation -> Idle
    [] ~s.active /\ v.violation /\ now - Begun(s) < Config(rule).raiseDuration ->
         [s EXCEPT !.pendingRaise = Begun(s)]
    [] ~s.active /\ v.violation /\ now - Begun(s) >= Config(rule).raiseDuration ->
         [s EXCEPT !.active = TRUE, !.pendingRaise = None]

(* with its call of Manager.Raise when the state becomes active, and of
   Manager.Clear when an active state is deleted *)
Step(rule, e, v) ==
  LET s == Transition(rule, e.state, v)
  IN [state |-> s, on |-> IF s.active = e.state.active THEN e.on ELSE s.active]
-----------------------------------------------------------------------------
Bearers == {"bearer.1", "bearer.2"}
NoValues == [m \in {} |-> 0]
ValuesAt(report, o) == IF o \in DOMAIN report THEN report[o] ELSE NoValues

TotalOf(report, keys) ==
  SumFunction([o \in DOMAIN report |-> SumFunctionOnSet(report[o], keys \cap DOMAIN report[o])])

Users(report, o) == IF "connected_ues" \in DOMAIN report[o] THEN report[o]["connected_ues"] ELSE 0
ConnectedUEs(report) == IF \E o \in DOMAIN report : Users(report, o) > 0
                        THEN CHOOSE n \in Levels : /\ \E o \in DOMAIN report : Users(report, o) = n
                                                   /\ \A o \in DOMAIN report : Users(report, o) <= n
                        ELSE 0

(* evaluateLowThroughput, the object: the one with most users, or whichever the
   iteration over the report meets first *)
Chosen(report) ==
  IF ConnectedUEs(report) > 0
  THEN {o \in DOMAIN report : Users(report, o) = ConnectedUEs(report)}
  ELSE DOMAIN report

(* evaluateLowThroughput, the verdict: on the throughput of all objects *)
LowThroughput(report) ==
  LET total == TotalOf(report, {"dl_bitrate", "ul_bitrate"})
  IN [violation |-> ConnectedUEs(report) > 0 /\ Violates("low_throughput", total),
      clear |-> ConnectedUEs(report) = 0 \/ Clears("low_throughput", total)]

(* the orders in which the iterations over the objects may meet their bearers *)
Orders(report) ==
  LET in(o) == Bearers \cap DOMAIN ValuesAt(report, o)
      met == [o \in Objects |-> Injection(1..Cardinality(in(o)), in(o))]
  IN {q \in [Objects -> UNION {met[o] : o \in Objects}] : \A o \in Objects : q[o] \in met[o]}

(* the verdicts on an alarm that a report brings: the bearers of an object share
   one alarm *)
Verdicts(report, chosen, order, a) ==
  LET rule == a[1]
      values == ValuesAt(report, a[2])
      found == ValueOf(rule, values)
      bearers == order[a[2]]
  IN CASE ~Config(rule).enabled -> <<>>
       [] Config(rule).enabled /\ rule = "low_throughput" ->
            IF a[2] = chosen THEN <<LowThroughput(report)>> ELSE <<>>
       [] Config(rule).enabled /\ rule = "bearer_congestion" ->
            [i \in DOMAIN bearers |-> Verdict(rule, values[bearers[i]])]
       [] OTHER -> IF found = {} THEN <<>> ELSE <<Verdict(rule, CHOOSE v \in found : TRUE)>>

Seen(v) == [at |-> now, restart |-> FALSE, violation |-> v.violation, clear |-> v.clear]

(* an alarm takes the verdicts of a report in turn *)
Taken(a, vs) ==
  LET after[i \in 0..Len(vs)] ==
        IF i = 0 THEN [state |-> states[a], on |-> a \in listed]
        ELSE Step(a[1], after[i - 1], vs[i])
  IN after[Len(vs)]

Apply(plan) ==
  LET after == [a \in Alarms |-> Taken(a, plan[a])]
  IN /\ states' = [a \in Alarms |-> after[a].state]
     /\ listed' = {a \in Alarms : after[a].on}
     /\ trail' = [a \in Alarms |-> trail[a] \o [i \in DOMAIN plan[a] |-> Seen(plan[a][i])]]

Plans(report) ==
  {[a \in Alarms |-> Verdicts(report, chosen, order, a)] :
     chosen \in Chosen(report), order \in Orders(report)}

Evaluate(report) ==
  /\ reports < MaxEvaluations
  /\ \E plan \in Plans(report) : Apply(plan)
  /\ reports' = reports + 1
  /\ UNCHANGED <<now, starts>>

Tick ==
  /\ now < MaxTime
  /\ now' = now + 1
  /\ UNCHANGED <<states, listed, trail, reports, starts>>

(* NewEngine in a new life of the agent: the list comes back from its file *)
Restart ==
  /\ starts < Restarts
  /\ starts' = starts + 1
  /\ states' = [a \in Alarms |-> Idle]
  /\ trail' = [a \in Alarms |-> Append(trail[a],
                 [at |-> now, restart |-> TRUE, violation |-> FALSE, clear |-> FALSE])]
  /\ UNCHANGED <<now, listed, reports>>

AlertInit ==
  /\ now = 0
  /\ states = [a \in Alarms |-> Idle]
  /\ listed = {}
  /\ trail = [a \in Alarms |-> <<>>]
  /\ reports = 0
  /\ starts = 0

(* users and their traffic are counted where the mapper puts them *)
Values(o) == UNION {[ms -> Levels] : ms \in (SUBSET MetricsOf[o]) \ {{}}}
Reports(os) == {r \in [os -> UNION {Values(o) : o \in os}] : \A o \in os : r[o] \in Values(o)}

AlertNext ==
  \/ Tick
  \/ Restart
  \/ \E os \in (SUBSET Objects) \ {{}} : \E report \in Reports(os) : Evaluate(report)

AlertSpec == AlertInit /\ [][AlertNext]_alertVars
-----------------------------------------------------------------------------
(* the last of h ends a stretch of length d in which all verdicts were as P says *)
Held(P(_), d, h, j) ==
  \E i \in 1..j : /\ \A m \in i..j : P(h[m])
                  /\ h[j].at - h[i].at >= d

RaiseDue(a, j) == Held(LAMBDA v : v.violation, Config(a[1]).raiseDuration, trail[a], j)
ClearDue(a, j) == Held(LAMBDA v : v.clear, Config(a[1]).clearDuration, trail[a], j)

(* the threshold was crossed long enough, and has not been clear long enough since *)
Due(a) ==
  \E j \in DOMAIN trail[a] :
    RaiseDue(a, j) /\ \A m \in (j + 1)..Len(trail[a]) : ~ClearDue(a, m)

(* the alarm is from an earlier life of the agent *)
Inherited(a) ==
  \E r \in DOMAIN trail[a] :
    trail[a][r].restart /\ \A j \in (r + 1)..Len(trail[a]) : ~RaiseDue(a, j)

(* An alarm is in the list exactly when the verdicts say so: no alarm for a
   crossing shorter than the raise duration, none missing for a longer one, and
   none left behind or cleared early.  Only an alarm inherited from an earlier
   life of the agent may stay although its threshold is clear again. *)
AlarmsMatchReports ==
  \A a \in Alarms :
    /\ Due(a) => a \in listed
    /\ a \in listed => Due(a) \/ Inherited(a)
=============================================================================
