------------------------ MODULE ThresholdAlertProofs ------------------------
(***************************************************************************)
(* An alarm is in the list exactly when the verdicts on its threshold call *)
(* for it, for any rules, objects, thresholds in order and durations.      *)
(***************************************************************************)
EXTENDS ThresholdAlerts, WellFoundedInduction, SequenceTheorems, FiniteSetTheorems, TLAPS

(* Induction up to N, for the members of a set. *)
LEMMA UpTo ==
  ASSUME NEW N \in Nat, NEW S, 0 \in S, \A n \in 1..N : n - 1 \in S => n \in S
  PROVE  \A n \in 0..N : n \in S
<1> DEFINE T == {n \in 0..N : n \notin S}
           R == OpToRel(<, Nat)
<1> SUFFICES ASSUME T # {} PROVE FALSE
  BY Zenon
<1>1. T \subseteq Nat
  OBVIOUS
<1> HIDE DEF T
<1>2. PICK i \in T : \A j \in T : <<j, i>> \notin R
  BY <1>1, NatLessThanWellFounded, WFMin, Zenon
<1>3. \A a, b \in Nat : b < a => <<b, a>> \in R
  BY Zenon DEF OpToRel
<1> HIDE DEF R
<1>4. i \in 0..N /\ i \notin S
  BY <1>2, Zenon DEF T
<1>5. i \in 1..N
  BY <1>4
<1>6. i - 1 \in Nat /\ i \in Nat /\ i - 1 < i /\ i - 1 \in 0..N
  BY <1>5
<1>7. <<i - 1, i>> \in R
  BY <1>3, <1>6, Zenon
<1>8. i - 1 \notin T
  BY <1>2, <1>7, Zenon
<1>9. i - 1 \in S
  BY <1>6, <1>8, Zenon DEF T
<1> QED
  BY <1>4, <1>5, <1>9, Zenon
-----------------------------------------------------------------------------
(* The threshold alerts: what a history of verdicts calls for *)

Entries == [at : Int, restart : BOOLEAN, violation : BOOLEAN, clear : BOOLEAN]
EngineStates == [active : BOOLEAN, pendingRaise : Int, pendingClear : Int]

(* the verdict j of h ends a stretch of length d of crossed, or of clear, verdicts *)
CrossedFor(h, j, d) ==
  \E i \in 1..j : (\A m \in i..j : h[m].violation) /\ h[j].at - h[i].at >= d
ClearFor(h, j, d) ==
  \E i \in 1..j : (\A m \in i..j : h[m].clear) /\ h[j].at - h[i].at >= d

(* h calls for an alarm of a rule configured as c, or leaves one from an earlier life *)
CallsFor(c, h) ==
  \E j \in 1..Len(h) : /\ CrossedFor(h, j, c.raiseDuration)
                       /\ \A m \in (j + 1)..Len(h) : ~ClearFor(h, m, c.clearDuration)
Leaves(c, h) ==
  \E r \in 1..Len(h) : h[r].restart /\ \A j \in (r + 1)..Len(h) : ~CrossedFor(h, j, c.raiseDuration)

(* the verdicts up to the time t, in their order *)
Timeline(h, t) ==
  /\ h \in Seq(Entries)
  /\ \A i, j \in 1..Len(h) : i <= j => h[i].at <= h[j].at
  /\ \A i \in 1..Len(h) : h[i].at <= t /\ ~(h[i].violation /\ h[i].clear)

(* from its entry b on h is all crossed, or all clear, and was not before *)
CrossedSince(h, b) ==
  /\ b \in 1..Len(h)
  /\ \A m \in b..Len(h) : h[m].violation
  /\ b > 1 => ~h[b - 1].violation
ClearSince(h, b) ==
  /\ b \in 2..Len(h)
  /\ \A m \in b..Len(h) : h[m].clear
  /\ ~h[b - 1].clear

(* What the engine knows of an alarm and what the list says, for the verdicts h: a
   timer holds the time at which the stretch that ends with h began. *)
Follows(c, s, on, h) ==
  /\ s \in EngineStates
  /\ on \in BOOLEAN
  /\ ~s.active =>
       /\ s.pendingClear = -1
       /\ s.pendingRaise = -1 => Len(h) = 0 \/ ~h[Len(h)].violation
       /\ s.pendingRaise # -1 => \E b \in 1..Len(h) : CrossedSince(h, b) /\ h[b].at = s.pendingRaise
       /\ on => Leaves(c, h)
  /\ s.active =>
       /\ on
       /\ s.pendingRaise = -1
       /\ CallsFor(c, h)
       /\ s.pendingClear = -1 => Len(h) > 0 /\ ~h[Len(h)].clear
       /\ s.pendingClear # -1 => \E b \in 1..Len(h) : ClearSince(h, b) /\ h[b].at = s.pendingClear
  /\ CallsFor(c, h) => on

(* A further entry changes nothing of the stretches that ended before it. *)
LEMMA FurtherEntry ==
  ASSUME NEW h \in Seq(Entries), NEW x \in Entries, NEW g, g = Append(h, x)
  PROVE  /\ g \in Seq(Entries)
         /\ Len(g) = Len(h) + 1
         /\ Len(h) \in Nat
         /\ g[Len(h) + 1] = x
         /\ \A m \in 1..Len(h) : g[m] = h[m]
         /\ \A j \in 1..Len(h) : \A d : CrossedFor(g, j, d) <=> CrossedFor(h, j, d)
         /\ \A j \in 1..Len(h) : \A d : ClearFor(g, j, d) <=> ClearFor(h, j, d)
<1>1. /\ g \in Seq(Entries)
      /\ Len(g) = Len(h) + 1
      /\ Len(h) \in Nat
      /\ g[Len(h) + 1] = x
      /\ \A m \in 1..Len(h) : g[m] = h[m]
  OBVIOUS
<1>2. ASSUME NEW j \in 1..Len(h) PROVE \A m \in 1..j : g[m] = h[m]
  BY <1>1
<1>3. ASSUME NEW j \in 1..Len(h), NEW d PROVE CrossedFor(g, j, d) <=> CrossedFor(h, j, d)
  <2>1. \A i \in 1..j : \A m \in i..j : m \in 1..j
    BY <1>1
  <2> QED
    BY <1>2, <2>1, j \in 1..j, Zenon DEF CrossedFor
<1>4. ASSUME NEW j \in 1..Len(h), NEW d PROVE ClearFor(g, j, d) <=> ClearFor(h, j, d)
  <2>1. \A i \in 1..j : \A m \in i..j : m \in 1..j
    BY <1>1
  <2> QED
    BY <1>2, <2>1, j \in 1..j, Zenon DEF ClearFor
<1> QED
  BY <1>1, <1>3, <1>4, Zenon

LEMMA TimelineGrows ==
  ASSUME NEW h, NEW t \in Int, Timeline(h, t), NEW x \in Entries,
         x.at = t, ~(x.violation /\ x.clear)
  PROVE  Timeline(Append(h, x), t)
<1> DEFINE g == Append(h, x)
<1>1. h \in Seq(Entries)
  BY Zenon DEF Timeline
<1>2. /\ g \in Seq(Entries)
      /\ Len(g) = Len(h) + 1
      /\ Len(h) \in Nat
      /\ g[Len(h) + 1] = x
      /\ \A m \in 1..Len(h) : g[m] = h[m]
  BY <1>1, FurtherEntry
<1> HIDE DEF g
<1>3. \A i \in 1..Len(g) : i \in 1..Len(h) \/ i = Len(h) + 1
  BY <1>2
<1>4. \A i \in 1..Len(g) : g[i].at <= t /\ ~(g[i].violation /\ g[i].clear)
  BY <1>2, <1>3 DEF Timeline
<1>5. ASSUME NEW i \in 1..Len(g), NEW j \in 1..Len(g), i <= j PROVE g[i].at <= g[j].at
  <2>1. CASE j = Len(h) + 1
    BY <2>1, <1>2, <1>4, Zenon
  <2>2. CASE j \in 1..Len(h)
    <3>1. i \in 1..Len(h)
      BY <2>2, <1>5, <1>2
    <3> QED
      BY <2>2, <3>1, <1>5, <1>2, Zenon DEF Timeline
  <2> QED
    BY <2>1, <2>2, <1>3, Zenon
<1> QED
  BY <1>2, <1>4, <1>5, Zenon DEF Timeline, g

(* The last verdict ends a stretch of length d exactly when the whole stretch since
   b is as long. *)
LEMMA CrossedExactly ==
  ASSUME NEW g, NEW t \in Int, Timeline(g, t), NEW b, CrossedSince(g, b), NEW d \in Int
  PROVE  CrossedFor(g, Len(g), d) <=> g[Len(g)].at - g[b].at >= d
<1> DEFINE n == Len(g)
<1>0. g \in Seq(Entries) /\ b \in 1..n
  BY Zenon DEF Timeline, CrossedSince
<1>1. /\ n \in Nat /\ n > 0 /\ b \in 1..n
      /\ \A i \in 1..n : g[i].at \in Int
  <2>1. n \in Nat /\ \A i \in 1..n : g[i] \in Entries
    BY <1>0
  <2> QED
    BY <1>0, <2>1 DEF Entries
<1>2. ASSUME g[n].at - g[b].at >= d PROVE CrossedFor(g, n, d)
  BY <1>1, <1>2, Zenon DEF CrossedFor, CrossedSince
<1>3. ASSUME CrossedFor(g, n, d) PROVE g[n].at - g[b].at >= d
  <2>1. PICK i \in 1..n : (\A m \in i..n : g[m].violation) /\ g[n].at - g[i].at >= d
    BY <1>3, Zenon DEF CrossedFor
  <2>2. b <= i
    <3>1. CASE b > i
      <4>1. b - 1 \in i..n /\ b > 1
        BY <3>1, <1>1
      <4> QED
        BY <4>1, <2>1, Zenon DEF CrossedSince
    <3> QED
      BY <3>1, <1>1
  <2>3. g[b].at <= g[i].at
    BY <2>2, <1>1, Zenon DEF Timeline
  <2> QED
    BY <2>1, <2>3, <1>1, SMTT(30)
<1> QED
  BY <1>2, <1>3, Zenon

LEMMA ClearExactly ==
  ASSUME NEW g, NEW t \in Int, Timeline(g, t), NEW b, ClearSince(g, b), NEW d \in Int
  PROVE  ClearFor(g, Len(g), d) <=> g[Len(g)].at - g[b].at >= d
<1> DEFINE n == Len(g)
<1>0. g \in Seq(Entries) /\ b \in 2..n
  BY Zenon DEF Timeline, ClearSince
<1>1. /\ n \in Nat /\ n > 0 /\ b \in 2..n
      /\ \A i \in 1..n : g[i].at \in Int
  <2>1. n \in Nat /\ \A i \in 1..n : g[i] \in Entries
    BY <1>0
  <2> QED
    BY <1>0, <2>1 DEF Entries
<1>2. ASSUME g[n].at - g[b].at >= d PROVE ClearFor(g, n, d)
  BY <1>1, <1>2 DEF ClearFor, ClearSince
<1>3. ASSUME ClearFor(g, n, d) PROVE g[n].at - g[b].at >= d
  <2>1. PICK i \in 1..n : (\A m \in i..n : g[m].clear) /\ g[n].at - g[i].at >= d
    BY <1>3, Zenon DEF ClearFor
  <2>2. b <= i
    <3>1. CASE b > i
      <4>1. b - 1 \in i..n
        BY <3>1, <1>1
      <4> QED
        BY <4>1, <2>1, Zenon DEF ClearSince
    <3> QED
      BY <3>1, <1>1
  <2>3. g[b].at <= g[i].at
    BY <2>2, <1>1 DEF Timeline
  <2> QED
    BY <2>1, <2>3, <1>1, SMTT(30)
<1> QED
  BY <1>2, <1>3, Zenon

(* A further entry calls for the alarm when it ends a long crossing, or ends no long
   clear stretch and the alarm was called for; it leaves an alarm behind when it is
   a restart, or ends no long crossing and the alarm was left behind. *)
LEMMA CallsGrow ==
  ASSUME NEW h \in Seq(Entries), NEW x \in Entries, NEW g, g = Append(h, x), NEW c
  PROVE  /\ CallsFor(c, g) <=> \/ CrossedFor(g, Len(g), c.raiseDuration)
                               \/ CallsFor(c, h) /\ ~ClearFor(g, Len(g), c.clearDuration)
         /\ \/ x.restart
            \/ Leaves(c, h) /\ ~CrossedFor(g, Len(g), c.raiseDuration)
            => Leaves(c, g)
<1> DEFINE n == Len(h)
           rd == c.raiseDuration
           cd == c.clearDuration
<1> HIDE DEF rd, cd
<1>a. /\ Len(g) = n + 1
      /\ n \in Nat
      /\ g[n + 1] = x
      /\ \A m \in 1..n : g[m] = h[m]
  BY FurtherEntry
<1>b.  \A j \in 1..n : CrossedFor(g, j, rd) <=> CrossedFor(h, j, rd)
  BY FurtherEntry, Zenon
<1>c. \A j \in 1..n : ClearFor(g, j, cd) <=> ClearFor(h, j, cd)
  BY FurtherEntry, Zenon
<1>1. /\ Len(g) = n + 1
      /\ n \in Nat
      /\ g[n + 1] = x
      /\ \A m \in 1..n : g[m] = h[m]
      /\ \A j \in 1..n : CrossedFor(g, j, rd) <=> CrossedFor(h, j, rd)
      /\ \A j \in 1..n : ClearFor(g, j, cd) <=> ClearFor(h, j, cd)
  BY <1>a, <1>b, <1>c, Zenon
<1> HIDE DEF n, rd, cd
<1>2. ASSUME CallsFor(c, g), ~CrossedFor(g, n + 1, rd)
      PROVE  CallsFor(c, h) /\ ~ClearFor(g, n + 1, cd)
  <2>1. PICK j \in 1..(n + 1) : CrossedFor(g, j, rd) /\ \A m \in (j + 1)..(n + 1) : ~ClearFor(g, m, cd)
    BY <1>1, <1>2, Zenon DEF CallsFor, rd, cd
  <2>2. j \in 1..n
    BY <2>1, <1>2, <1>1
  <2>3. CrossedFor(h, j, rd)
    BY <2>1, <2>2, <1>1, Zenon
  <2>4. n + 1 \in (j + 1)..(n + 1) /\ \A m \in (j + 1)..n : m \in (j + 1)..(n + 1) /\ m \in 1..n
    BY <2>2, <1>1
  <2>5. ~ClearFor(g, n + 1, cd) /\ \A m \in (j + 1)..n : ~ClearFor(h, m, cd)
    BY <2>1, <2>4, <1>1, Zenon
  <2> QED
    BY <2>2, <2>3, <2>5, Zenon DEF CallsFor, n, rd, cd
<1>3. ASSUME CrossedFor(g, n + 1, rd) PROVE CallsFor(c, g)
  <2>1. n + 1 \in 1..(n + 1) /\ \A m \in ((n + 1) + 1)..(n + 1) : FALSE
    BY <1>1
  <2> QED
    BY <2>1, <1>1, <1>3, Zenon DEF CallsFor, rd, cd
<1>4. ASSUME CallsFor(c, h), ~ClearFor(g, n + 1, cd) PROVE CallsFor(c, g)
  <2>1. PICK j \in 1..n : CrossedFor(h, j, rd) /\ \A m \in (j + 1)..n : ~ClearFor(h, m, cd)
    BY <1>4, Zenon DEF CallsFor, n, rd, cd
  <2>2. j \in 1..(n + 1) /\ \A m \in (j + 1)..(n + 1) : m = n + 1 \/ (m \in (j + 1)..n /\ m \in 1..n)
    BY <1>1
  <2>3. \A m \in (j + 1)..(n + 1) : ~ClearFor(g, m, cd)
    BY <2>1, <2>2, <1>1, <1>4, Zenon
  <2>4. CrossedFor(g, j, rd)
    BY <2>1, <1>1, Zenon
  <2> QED
    BY <2>2, <2>3, <2>4, <1>1, Zenon DEF CallsFor, rd, cd
<1>5. ASSUME x.restart PROVE Leaves(c, g)
  <2>1. n + 1 \in 1..(n + 1) /\ \A m \in ((n + 1) + 1)..(n + 1) : FALSE
    BY <1>1
  <2> QED
    BY <2>1, <1>1, <1>5, Zenon DEF Leaves
<1>6. ASSUME Leaves(c, h), ~CrossedFor(g, n + 1, rd) PROVE Leaves(c, g)
  <2>1. PICK r \in 1..n : h[r].restart /\ \A j \in (r + 1)..n : ~CrossedFor(h, j, rd)
    BY <1>6, Zenon DEF Leaves, n, rd
  <2>2. r \in 1..(n + 1) /\ \A m \in (r + 1)..(n + 1) : m = n + 1 \/ (m \in (r + 1)..n /\ m \in 1..n)
    BY <1>1
  <2>3. \A m \in (r + 1)..(n + 1) : ~CrossedFor(g, m, rd)
    BY <2>1, <2>2, <1>1, <1>6, Zenon
  <2>4. g[r].restart
    BY <2>1, <1>1, Zenon
  <2> QED
    BY <2>2, <2>3, <2>4, <1>1, Zenon DEF Leaves, rd
<1> QED
  BY <1>1, <1>2, <1>3, <1>4, <1>5, <1>6, Zenon DEF rd, cd

(* A verdict that is not crossed ends no crossing, one that is not clear no clear
   stretch. *)
LEMMA EndsNothing ==
  ASSUME NEW h \in Seq(Entries), Len(h) > 0, NEW d
  PROVE  /\ ~h[Len(h)].violation => ~CrossedFor(h, Len(h), d)
         /\ ~h[Len(h)].clear => ~ClearFor(h, Len(h), d)
<1>1. Len(h) \in Nat /\ \A i \in 1..Len(h) : Len(h) \in i..Len(h)
  OBVIOUS
<1> QED
  BY <1>1, Zenon DEF CrossedFor, ClearFor

(* A timer that runs, or starts now, holds the beginning of the stretch that the
   verdict goes on with. *)
LEMMA CrossingBegan ==
  ASSUME NEW c, NEW s, NEW on, NEW h, now \in Nat, Timeline(h, now), Follows(c, s, on, h),
         NEW x \in Entries, x.at = now, x.violation, ~s.active
  PROVE  /\ \E b \in 1..(Len(h) + 1) : /\ CrossedSince(Append(h, x), b)
                                       /\ Append(h, x)[b].at = Begun(s)
         /\ Begun(s) \in Int /\ Begun(s) # -1
<1> DEFINE g == Append(h, x)
           n == Len(h)
<1>1. h \in Seq(Entries)
  BY Zenon DEF Timeline
<1>2. /\ Len(g) = n + 1
      /\ n \in Nat
      /\ g[n + 1] = x
      /\ \A m \in 1..n : g[m] = h[m]
  BY <1>1, FurtherEntry
<1>3. s.pendingRaise \in Int
  BY Zenon DEF Follows, EngineStates
<1> HIDE DEF g, n
<1>4. CASE s.pendingRaise = -1
  <2>1. n = 0 \/ ~h[n].violation
    BY <1>4, Zenon DEF Follows, n
  <2>2. n + 1 > 1 => ~g[(n + 1) - 1].violation
    BY <2>1, <1>2
  <2>3. CrossedSince(g, n + 1)
    BY <2>2, <1>2 DEF CrossedSince
  <2>4. Begun(s) = now
    BY <1>4, Zenon DEF Begun, None
  <2> QED
    BY <2>3, <2>4, <1>2 DEF g, n
<1>5. CASE s.pendingRaise # -1
  <2>1. PICK b \in 1..n : CrossedSince(h, b) /\ h[b].at = s.pendingRaise
    BY <1>5, Zenon DEF Follows, n
  <2>2. \A m \in b..(n + 1) : m = n + 1 \/ (m \in b..n /\ m \in 1..n)
    BY <1>2
  <2>3. \A m \in b..(n + 1) : g[m].violation
    BY <2>1, <2>2, <1>2, Zenon DEF CrossedSince, n
  <2>4. b > 1 => b - 1 \in 1..n
    BY <1>2
  <2>5. CrossedSince(g, b)
    BY <2>1, <2>3, <2>4, <1>2 DEF CrossedSince
  <2>6. Begun(s) = s.pendingRaise
    BY <1>5, Zenon DEF Begun, None
  <2>7. b \in 1..(n + 1) /\ g[b].at = s.pendingRaise
    BY <2>1, <1>2
  <2> QED
    BY <2>5, <2>6, <2>7, <1>3, <1>5, Zenon DEF g, n
<1> QED
  BY <1>4, <1>5, Zenon

LEMMA ClearBegan ==
  ASSUME NEW c, NEW s, NEW on, NEW h, now \in Nat, Timeline(h, now), Follows(c, s, on, h),
         NEW x \in Entries, x.at = now, x.clear, s.active
  PROVE  /\ \E b \in 1..(Len(h) + 1) : /\ ClearSince(Append(h, x), b)
                                       /\ Append(h, x)[b].at = Start(s)
         /\ Start(s) \in Int /\ Start(s) # -1
<1> DEFINE g == Append(h, x)
           n == Len(h)
<1>1. h \in Seq(Entries)
  BY Zenon DEF Timeline
<1>2. /\ Len(g) = n + 1
      /\ n \in Nat
      /\ g[n + 1] = x
      /\ \A m \in 1..n : g[m] = h[m]
  BY <1>1, FurtherEntry
<1>3. s.pendingClear \in Int
  BY Zenon DEF Follows, EngineStates
<1> HIDE DEF g, n
<1>4. CASE s.pendingClear = -1
  <2>1. n > 0 /\ ~h[n].clear
    BY <1>4, Zenon DEF Follows, n
  <2>2. ~g[(n + 1) - 1].clear /\ n + 1 \in 2..(n + 1)
    BY <2>1, <1>2
  <2>3. ClearSince(g, n + 1)
    BY <2>2, <1>2 DEF ClearSince
  <2>4. Start(s) = now
    BY <1>4, Zenon DEF Start, None
  <2> QED
    BY <2>3, <2>4, <1>2 DEF g, n
<1>5. CASE s.pendingClear # -1
  <2>1. PICK b \in 1..n : ClearSince(h, b) /\ h[b].at = s.pendingClear
    BY <1>5, Zenon DEF Follows, n
  <2>2. \A m \in b..(n + 1) : m = n + 1 \/ (m \in b..n /\ m \in 1..n)
    BY <1>2
  <2>3. \A m \in b..(n + 1) : g[m].clear
    BY <2>1, <2>2, <1>2, Zenon DEF ClearSince, n
  <2>4. b - 1 \in 1..n /\ b \in 2..(n + 1)
    BY <2>1, <1>2 DEF ClearSince, n
  <2>5. ClearSince(g, b)
    BY <2>1, <2>3, <2>4, <1>2, Zenon DEF ClearSince
  <2>6. Start(s) = s.pendingClear
    BY <1>5, Zenon DEF Start, None
  <2>7. b \in 1..(n + 1) /\ g[b].at = s.pendingClear
    BY <2>1, <1>2
  <2> QED
    BY <2>5, <2>6, <2>7, <1>3, <1>5, Zenon DEF g, n
<1> QED
  BY <1>4, <1>5, Zenon
AVerdict == [violation : BOOLEAN, clear : BOOLEAN]

(* One evaluation of an alarm keeps the engine and the list in step with the
   verdicts. *)
LEMMA StepFollows ==
  ASSUME NEW rule, NEW s, NEW on, NEW h, now \in Nat, Timeline(h, now),
         Config(rule).raiseDuration \in Nat, Config(rule).clearDuration \in Nat,
         Follows(Config(rule), s, on, h),
         NEW v \in AVerdict, ~(v.violation /\ v.clear)
  PROVE  \E t, after : /\ Step(rule, [state |-> s, on |-> on], v) = [state |-> t, on |-> after]
                       /\ Follows(Config(rule), t, after, Append(h, Seen(v)))
                       /\ Timeline(Append(h, Seen(v)), now)
<1> DEFINE c == Config(rule)
           x == Seen(v)
           g == Append(h, x)
           n == Len(h)
           t == Transition(rule, s, v)
           e == [state |-> s, on |-> on]
           next == Step(rule, e, v)
           after == IF t.active = s.active THEN on ELSE t.active
<1>1. /\ x \in Entries
      /\ x.at = now
      /\ x.violation = v.violation
      /\ x.clear = v.clear
      /\ x.restart = FALSE
  BY DEF Seen, Entries, AVerdict
<1>2. h \in Seq(Entries)
  BY Zenon DEF Timeline
<1>3. next = [state |-> t, on |-> after]
  BY Zenon DEF Step
<1>4. /\ s \in EngineStates
      /\ on \in BOOLEAN
      /\ c.raiseDuration \in Int /\ c.clearDuration \in Int
  BY DEF Follows
<1> HIDE DEF c, x, t, next, after
<1>5. /\ g \in Seq(Entries)
      /\ Len(g) = n + 1
      /\ n \in Nat
      /\ g[Len(g)] = x
  BY <1>1, <1>2, FurtherEntry
<1>6. Timeline(g, now)
  BY <1>1, TimelineGrows
<1>7. /\ CallsFor(c, g) <=> \/ CrossedFor(g, Len(g), c.raiseDuration)
                            \/ CallsFor(c, h) /\ ~ClearFor(g, Len(g), c.clearDuration)
      /\ Leaves(c, h) /\ ~CrossedFor(g, Len(g), c.raiseDuration) => Leaves(c, g)
  BY <1>1, <1>2, CallsGrow, Zenon
<1>8. /\ ~v.violation => ~CrossedFor(g, Len(g), c.raiseDuration)
      /\ ~v.clear => ~ClearFor(g, Len(g), c.clearDuration)
  <2>1. Len(g) > 0 /\ (g[Len(g)].violation <=> v.violation) /\ (g[Len(g)].clear <=> v.clear)
    BY <1>1, <1>5
  <2> QED
    BY <2>1, <1>5, EndsNothing, Zenon
<1>9. Follows(c, s, on, h)
  BY Zenon DEF c
<1> HIDE DEF g, n
<1>10. ASSUME ~s.active /\ ~v.violation PROVE Follows(c, t, after, g)
  <2>1. t = Idle
    BY <1>10, Zenon DEF t, Transition
  <2>2. after = on
    BY <1>10, <2>1, <1>4, Zenon DEF after, Idle, EngineStates
  <2>3. on => Leaves(c, g)
    BY <1>7, <1>8, <1>9, <1>10, Zenon DEF Follows
  <2>4. CallsFor(c, g) => on
    BY <1>7, <1>8, <1>9, <1>10, Zenon DEF Follows
  <2>5. t \in EngineStates /\ ~t.active /\ t.pendingRaise = -1 /\ t.pendingClear = -1
    BY <2>1 DEF Idle, None, EngineStates
  <2>6. ~g[Len(g)].violation
    BY <1>1, <1>5, <1>10, Zenon
  <2> QED
    BY <2>2, <2>3, <2>4, <2>5, <2>6, <1>4 DEF Follows
<1>11. ASSUME ~s.active /\ v.violation PROVE Follows(c, t, after, g)
  <2> DEFINE begun == Begun(s)
  <2>1. /\ \E b \in 1..(n + 1) : CrossedSince(g, b) /\ g[b].at = begun
        /\ begun \in Int /\ begun # -1
    BY <1>1, <1>9, <1>11, CrossingBegan, Zenon DEF g, n
  <2>2. CrossedFor(g, Len(g), c.raiseDuration) <=> now - begun >= c.raiseDuration
    BY <2>1, <1>1, <1>4, <1>5, <1>6, CrossedExactly, SMTT(30)
  <2>3. s.pendingClear = -1
    BY <1>9, <1>11, Zenon DEF Follows
  <2>4. ~v.clear /\ ~g[Len(g)].clear
    BY <1>1, <1>5, <1>11, Zenon
  <2> HIDE DEF begun
  <2>5. CASE now - begun < c.raiseDuration
    <3>1. t = [s EXCEPT !.pendingRaise = begun]
      BY <1>11, <2>1, <2>5, <1>4 DEF t, c, begun, Transition
    <3>2. t \in EngineStates /\ ~t.active /\ t.pendingRaise = begun /\ t.pendingClear = -1
      BY <3>1, <2>1, <2>3, <1>4, <1>11, Zenon DEF EngineStates
    <3>3. after = on
      BY <3>2, <1>11, <1>4, Zenon DEF after, EngineStates
    <3>4. ~CrossedFor(g, Len(g), c.raiseDuration)
      BY <2>1, <2>2, <2>5, <1>4, SMTT(30)
    <3>5. (on => Leaves(c, g)) /\ (CallsFor(c, g) => on)
      BY <3>4, <1>7, <1>9, <1>11, Zenon DEF Follows
    <3> QED
      BY <3>2, <3>3, <3>5, <2>1, <1>4, <1>5, Zenon DEF Follows
  <2>6. CASE now - begun >= c.raiseDuration
    <3>1. t = [s EXCEPT !.active = TRUE, !.pendingRaise = -1]
      BY <1>11, <2>1, <2>6, <1>4 DEF t, c, begun, Transition, None
    <3>2. t \in EngineStates /\ t.active /\ t.pendingRaise = -1 /\ t.pendingClear = -1
      BY <3>1, <2>3, <1>4, Zenon DEF EngineStates
    <3>3. after = TRUE
      BY <3>2, <1>11, <1>4, Zenon DEF after, EngineStates
    <3>4. CallsFor(c, g)
      BY <2>2, <2>6, <1>7, Zenon
    <3> QED
      BY <3>2, <3>3, <3>4, <2>4, <1>5 DEF Follows
  <2> QED
    BY <2>1, <2>5, <2>6, <1>4
<1>12. ASSUME s.active /\ v.clear PROVE Follows(c, t, after, g)
  <2> DEFINE begun == Start(s)
  <2>1. /\ \E b \in 1..(n + 1) : ClearSince(g, b) /\ g[b].at = begun
        /\ begun \in Int /\ begun # -1
    BY <1>1, <1>9, <1>12, ClearBegan, Zenon DEF g, n
  <2>2. ClearFor(g, Len(g), c.clearDuration) <=> now - begun >= c.clearDuration
    BY <2>1, <1>1, <1>4, <1>5, <1>6, ClearExactly, SMTT(30)
  <2>3. s.pendingRaise = -1 /\ on /\ CallsFor(c, h)
    BY <1>9, <1>12, Zenon DEF Follows
  <2>4. ~v.violation /\ ~g[Len(g)].violation
    BY <1>1, <1>5, <1>12, Zenon
  <2> HIDE DEF begun
  <2>5. CASE now - begun < c.clearDuration
    <3>1. t = [s EXCEPT !.pendingClear = begun]
      BY <1>12, <2>1, <2>5, <1>4 DEF t, c, begun, Transition, WhileActive
    <3>2. t \in EngineStates /\ t.active /\ t.pendingClear = begun /\ t.pendingRaise = -1
      BY <3>1, <2>1, <2>3, <1>4, <1>12, Zenon DEF EngineStates
    <3>3. after = on
      BY <3>2, <1>12, <1>4, Zenon DEF after, EngineStates
    <3>4. CallsFor(c, g)
      BY <2>1, <2>2, <2>3, <2>5, <1>4, <1>7, SMTT(30)
    <3> QED
      BY <3>2, <3>3, <3>4, <2>1, <2>3, <1>4, <1>5 DEF Follows
  <2>6. CASE now - begun >= c.clearDuration
    <3>1. t = Idle
      BY <1>12, <2>1, <2>6, <1>4 DEF t, c, begun, Transition, WhileActive
    <3>2. t \in EngineStates /\ ~t.active /\ t.pendingRaise = -1 /\ t.pendingClear = -1
      BY <3>1 DEF Idle, None, EngineStates
    <3>3. after = FALSE
      BY <3>2, <1>12, <1>4, Zenon DEF after, EngineStates
    <3>4. ~CallsFor(c, g)
      BY <2>2, <2>4, <2>6, <1>7, <1>8, Zenon
    <3> QED
      BY <3>2, <3>3, <3>4, <2>4, <1>5, Zenon DEF Follows
  <2> QED
    BY <2>1, <2>5, <2>6, <1>4
<1>13. ASSUME s.active /\ ~v.clear PROVE Follows(c, t, after, g)
  <2>1. t = [s EXCEPT !.pendingClear = -1]
    BY <1>13, Zenon DEF t, Transition, WhileActive, None
  <2>2. s.pendingRaise = -1 /\ on /\ CallsFor(c, h)
    BY <1>9, <1>13, Zenon DEF Follows
  <2>3. t \in EngineStates /\ t.active /\ t.pendingClear = -1 /\ t.pendingRaise = -1
    BY <2>1, <2>2, <1>4, <1>13, Zenon DEF EngineStates
  <2>4. after = on
    BY <2>3, <1>13, <1>4, Zenon DEF after, EngineStates
  <2>5. CallsFor(c, g)
    BY <2>2, <1>7, <1>8, <1>13, Zenon
  <2>6. ~g[Len(g)].clear
    BY <1>1, <1>5, <1>13, Zenon
  <2> QED
    BY <2>2, <2>3, <2>4, <2>5, <2>6, <1>4, <1>5 DEF Follows
<1>14. Follows(c, t, after, g)
  BY <1>10, <1>11, <1>12, <1>13, Zenon
<1> QED
  BY <1>3, <1>6, <1>14, Zenon DEF c, g, x, next, e

(* The recursion of Taken is well founded: it takes one verdict after the other. *)
LEMMA TakenUnfolds ==
  ASSUME NEW a, NEW vs, Len(vs) \in Nat
  PROVE  \E f : /\ f[0] = [state |-> states[a], on |-> a \in listed]
                /\ \A i \in 1..Len(vs) : f[i] = Step(a[1], f[i - 1], vs[i])
                /\ Taken(a, vs) = f[Len(vs)]
<1> DEFINE N == Len(vs)
           base == [state |-> states[a], on |-> a \in listed]
           Rec(g, n) == g = [i \in 0..n |-> IF i = 0 THEN base ELSE Step(a[1], g[i - 1], vs[i])]
           S == {n \in 0..N : \E g : Rec(g, n)}
<1> HIDE DEF base
<1>1. 0 \in S
  <2> DEFINE g == [i \in 0..0 |-> base]
  <2>1. g = [i \in 0..0 |-> IF i = 0 THEN base ELSE Step(a[1], g[i - 1], vs[i])]
    OBVIOUS
  <2>2. 0 \in 0..N
    OBVIOUS
  <2> HIDE DEF g
  <2>3. \E k : Rec(k, 0)
    BY <2>1, Zenon
  <2> QED
    BY <2>2, <2>3, Zenon
<1>2. ASSUME NEW n \in 1..N, n - 1 \in S PROVE n \in S
  <2>1. PICK g : Rec(g, n - 1)
    BY <1>2, Zenon
  <2> DEFINE k == [i \in 0..n |-> IF i = n THEN Step(a[1], g[n - 1], vs[n]) ELSE g[i]]
  <2>2. \A i \in 0..n : i # n => k[i] = g[i] /\ i \in 0..(n - 1)
    OBVIOUS
  <2>3. \A i \in 0..(n - 1) : g[i] = IF i = 0 THEN base ELSE Step(a[1], g[i - 1], vs[i])
    BY <2>1, Zenon
  <2>4. k[n] = Step(a[1], g[n - 1], vs[n]) /\ n # 0 /\ n \in 0..n
    OBVIOUS
  <2>5. DOMAIN k = 0..n /\ k = [i \in 0..n |-> k[i]]
    BY Zenon
  <2> HIDE DEF k
  <2>6. ASSUME NEW i \in 0..n
        PROVE  k[i] = IF i = 0 THEN base ELSE Step(a[1], k[i - 1], vs[i])
    <3>1. i # 0 => i - 1 \in 0..n /\ i - 1 # n
      OBVIOUS
    <3>2. i # 0 => k[i - 1] = g[i - 1]
      BY <3>1, <2>2, Zenon
    <3>3. CASE i = n
      BY <3>2, <3>3, <2>4, Zenon
    <3>4. CASE i # n
      BY <3>2, <3>4, <2>2, <2>3, Zenon
    <3> QED
      BY <3>3, <3>4, Zenon
  <2>7. Rec(k, n)
    BY <2>5, <2>6, Zenon
  <2> QED
    BY <2>7
<1>3. N \in S
  <2> HIDE DEF S
  <2>1. \A n \in 1..N : n - 1 \in S => n \in S
    BY <1>2, Zenon
  <2>2. \A n \in 0..N : n \in S
    BY <1>1, <2>1, UpTo, Zenon
  <2> QED
    BY <2>2
<1> DEFINE f == CHOOSE g : Rec(g, N)
<1>4. Rec(f, N)
  BY <1>3, Zenon
<1>5. Taken(a, vs) = f[N]
  BY Zenon DEF Taken, base
<1> HIDE DEF f
<1>6. f[0] = base /\ \A i \in 1..N : f[i] = Step(a[1], f[i - 1], vs[i])
  BY <1>4
<1> QED
  BY <1>5, <1>6, Zenon DEF base
(* the entries that the first i verdicts of vs add *)
Recorded(vs, i) == [j \in 1..i |-> Seen(vs[j])]

LEMMA RecordedGrows ==
  ASSUME NEW h \in Seq(Entries), now \in Nat, NEW vs \in Seq(AVerdict)
  PROVE  /\ h \o Recorded(vs, 0) = h
         /\ \A i \in 1..Len(vs) : h \o Recorded(vs, i) = Append(h \o Recorded(vs, i - 1), Seen(vs[i]))
         /\ \A i \in 0..Len(vs) : Recorded(vs, i) \in Seq(Entries)
<1>1. \A i \in 1..Len(vs) : Seen(vs[i]) \in Entries
  <2> SUFFICES ASSUME NEW i \in 1..Len(vs) PROVE Seen(vs[i]) \in Entries
    BY Zenon
  <2>1. vs[i] \in AVerdict
    OBVIOUS
  <2> QED
    BY <2>1 DEF Seen, Entries, AVerdict
<1>2. ASSUME NEW i \in 0..Len(vs)
      PROVE  /\ Recorded(vs, i) \in Seq(Entries)
             /\ Len(Recorded(vs, i)) = i
             /\ \A j \in 1..i : Recorded(vs, i)[j] = Seen(vs[j])
  <2>1. i \in Nat /\ \A j \in 1..i : j \in 1..Len(vs)
    OBVIOUS
  <2>2. Recorded(vs, i) \in [1..i -> Entries]
    BY <1>1, <2>1, Zenon DEF Recorded
  <2>3. Recorded(vs, i) \in Seq(Entries) /\ Len(Recorded(vs, i)) = i
    BY <2>1, <2>2, IsASeq, LenProperties
  <2> QED
    BY <2>3, Zenon DEF Recorded
<1>3. h \o Recorded(vs, 0) = h
  <2>1. Recorded(vs, 0) = <<>>
    BY <1>2 DEF Recorded
  <2> QED
    BY <2>1, ConcatEmptySeq, Zenon
<1>4. ASSUME NEW i \in 1..Len(vs)
      PROVE  h \o Recorded(vs, i) = Append(h \o Recorded(vs, i - 1), Seen(vs[i]))
  <2> DEFINE w == Recorded(vs, i - 1)
             x == Seen(vs[i])
  <2>1. i - 1 \in 0..Len(vs) /\ i \in 0..Len(vs)
    OBVIOUS
  <2>2. w \in Seq(Entries) /\ Len(w) = i - 1 /\ \A j \in 1..(i - 1) : w[j] = Seen(vs[j])
    BY <1>2, <2>1, Zenon
  <2>3. x \in Entries
    BY <1>1, Zenon
  <2> HIDE DEF w, x
  <2>4. Recorded(vs, i) = Append(w, x)
    <3>1. /\ Recorded(vs, i) \in Seq(Entries)
          /\ Len(Recorded(vs, i)) = i
          /\ \A j \in 1..i : Recorded(vs, i)[j] = Seen(vs[j])
      BY <1>2, <2>1, Zenon
    <3> HIDE DEF Recorded
    <3>2. Append(w, x) \in Seq(Entries) /\ Len(Append(w, x)) = i
      BY <2>2, <2>3
    <3>3. \A j \in 1..i : Append(w, x)[j] = Seen(vs[j])
      <4> SUFFICES ASSUME NEW j \in 1..i PROVE Append(w, x)[j] = Seen(vs[j])
        BY Zenon
      <4>1. CASE j = i
        BY <4>1, <2>2, <2>3 DEF x
      <4>2. CASE j # i
        <5>1. j \in 1..Len(w)
          BY <4>2, <2>2
        <5> QED
          BY <5>1, <2>2, <2>3
      <4> QED
        BY <4>1, <4>2, Zenon
    <3> QED
      BY <3>1, <3>2, <3>3, SeqEqual, Zenon
  <2>5. h \o Append(w, x) = Append(h \o w, x)
    BY <2>2, <2>3, SMTT(30)
  <2> QED
    BY <2>4, <2>5, Zenon DEF w, x
<1> QED
  BY <1>2, <1>3, <1>4, Zenon

(* An alarm that takes the verdicts of a report stays in step with them. *)
LEMMA TakenFollows ==
  ASSUME NEW a, now \in Nat, Timeline(trail[a], now),
         Config(a[1]).raiseDuration \in Nat, Config(a[1]).clearDuration \in Nat,
         Follows(Config(a[1]), states[a], a \in listed, trail[a]),
         NEW vs \in Seq(AVerdict), \A i \in 1..Len(vs) : ~(vs[i].violation /\ vs[i].clear)
  PROVE  /\ Follows(Config(a[1]), Taken(a, vs).state, Taken(a, vs).on,
                    trail[a] \o Recorded(vs, Len(vs)))
         /\ Timeline(trail[a] \o Recorded(vs, Len(vs)), now)
<1> DEFINE c == Config(a[1])
           H(i) == trail[a] \o Recorded(vs, i)
           N == Len(vs)
<1>1. PICK f : /\ f[0] = [state |-> states[a], on |-> a \in listed]
               /\ \A i \in 1..N : f[i] = Step(a[1], f[i - 1], vs[i])
               /\ Taken(a, vs) = f[N]
  BY TakenUnfolds
<1> DEFINE Good(i) == /\ f[i] = [state |-> f[i].state, on |-> f[i].on]
                      /\ Follows(c, f[i].state, f[i].on, H(i))
                      /\ Timeline(H(i), now)
           S == {i \in 0..N : Good(i)}
<1>2. trail[a] \in Seq(Entries)
  BY Zenon DEF Timeline
<1>3. H(0) = trail[a]
  BY <1>2, RecordedGrows, Zenon
<1>4. 0 \in S
  <2>1. f[0].state = states[a] /\ f[0].on = (a \in listed)
    BY <1>1, SMTT(30)
  <2>2. Good(0)
    BY <1>1, <1>3, <2>1, Zenon
  <2> QED
    BY <2>2
<1>5. ASSUME NEW i \in 1..N, i - 1 \in S PROVE i \in S
  <2> DEFINE e == f[i - 1]
  <2>1. /\ e = [state |-> e.state, on |-> e.on]
        /\ Follows(c, e.state, e.on, H(i - 1))
        /\ Timeline(H(i - 1), now)
    BY <1>5, Zenon
  <2>2. vs[i] \in AVerdict
    OBVIOUS
  <2>3. f[i] = Step(a[1], [state |-> e.state, on |-> e.on], vs[i])
    BY <1>1, <2>1, SMTT(30)
  <2>4. H(i) = Append(H(i - 1), Seen(vs[i]))
    BY <1>2, RecordedGrows, Zenon
  <2> DEFINE next == Step(a[1], [state |-> e.state, on |-> e.on], vs[i])
             g == Append(H(i - 1), Seen(vs[i]))
  <2> HIDE DEF e, H
  <2>5. \E t, after : /\ next = [state |-> t, on |-> after]
                      /\ Follows(Config(a[1]), t, after, g)
                      /\ Timeline(g, now)
    <3>1. Follows(Config(a[1]), e.state, e.on, H(i - 1)) /\ ~(vs[i].violation /\ vs[i].clear)
      BY <2>1, Zenon
    <3> QED
      BY <2>1, <2>2, <3>1, StepFollows, Zenon
  <2> HIDE DEF next, g
  <2>6. Good(i)
    BY <2>3, <2>4, <2>5 DEF next, g
  <2> QED
    BY <2>6
<1>6. N \in S
  <2> HIDE DEF S
  <2>1. N \in Nat /\ \A n \in 1..N : n - 1 \in S => n \in S
    BY <1>5
  <2>2. \A n \in 0..N : n \in S
    BY <1>4, <2>1, UpTo, Zenon
  <2> QED
    BY <2>1, <2>2
<1> QED
  BY <1>1, <1>6, Zenon

(* A sum of integers over a finite set is one: the fold takes out one element after
   the other. *)
LEMMA SumIsInt ==
  ASSUME NEW S, IsFiniteSet(S), NEW f, \A x \in S : f[x] \in Int
  PROVE  SumFunctionOnSet(f, S) \in Int
<1> DEFINE Ch(T) == CHOOSE x \in T : TRUE
           N == Cardinality(S)
           D(n) == {T \in SUBSET S : Cardinality(T) <= n}
           Rec(g, n) == g = [T \in D(n) |-> IF T = {} THEN 0 ELSE f[Ch(T)] + g[T \ {Ch(T)}]]
           M == {n \in 0..N : \E g : Rec(g, n)}
<1>1. N \in Nat /\ \A T \in SUBSET S : IsFiniteSet(T) /\ Cardinality(T) \in Nat /\ Cardinality(T) <= N
  BY FS_CardinalityType, FS_Subset, Zenon
<1>2. \A T \in SUBSET S : T # {} => Ch(T) \in T
  BY Zenon
<1> HIDE DEF Ch
<1>3. ASSUME NEW n \in 1..N, NEW T \in D(n), T # {} PROVE T \ {Ch(T)} \in D(n - 1)
  <2>1. Cardinality(T \ {Ch(T)}) = Cardinality(T) - 1
    BY <1>1, <1>2, <1>3, FS_RemoveElement, Zenon
  <2> QED
    BY <2>1, <1>1
<1>4. ASSUME NEW T \in D(0) PROVE T = {}
  BY <1>1, FS_EmptySet
<1>5. 0 \in M
  <2> DEFINE g == [T \in D(0) |-> 0]
  <2>1. \A T \in D(0) : T = {}
    BY <1>4, Zenon
  <2>2. g = [T \in D(0) |-> IF T = {} THEN 0 ELSE f[Ch(T)] + g[T \ {Ch(T)}]]
    <3> HIDE DEF D
    <3> QED
      BY <2>1, Zenon
  <2> HIDE DEF g
  <2>3. \E k : Rec(k, 0)
    BY <2>2, Zenon
  <2>4. 0 \in 0..N
    BY <1>1
  <2> HIDE DEF D
  <2> QED
    BY <2>3, <2>4, Zenon
<1>6. ASSUME NEW n \in 1..N, n - 1 \in M PROVE n \in M
  <2>1. PICK g : Rec(g, n - 1)
    BY <1>6, Zenon
  <2> DEFINE k == [T \in D(n) |-> IF T = {} THEN 0 ELSE f[Ch(T)] + g[T \ {Ch(T)}]]
  <2>2. \A T \in D(n) : T # {} => T \ {Ch(T)} \in D(n - 1)
    BY <1>3, Zenon
  <2>3. \A T \in D(n - 1) : T \in D(n)
    BY <1>1
  <2>4. \A T \in D(n - 1) : g[T] = IF T = {} THEN 0 ELSE f[Ch(T)] + g[T \ {Ch(T)}]
    BY <2>1, Zenon
  <2> HIDE DEF D
  <2>5. \A T \in D(n - 1) : k[T] = g[T]
    BY <2>3, <2>4, Zenon
  <2>6. \A T \in D(n) : T # {} => k[T \ {Ch(T)}] = g[T \ {Ch(T)}]
    BY <2>2, <2>5, Zenon
  <2>7. k = [T \in D(n) |-> IF T = {} THEN 0 ELSE f[Ch(T)] + k[T \ {Ch(T)}]]
    BY <2>6, Zenon
  <2> HIDE DEF k
  <2>8. \E j : Rec(j, n)
    BY <2>7, Zenon
  <2>9. n \in 0..N
    OBVIOUS
  <2> QED
    BY <2>8, <2>9, Zenon
<1>7. N \in M
  <2> HIDE DEF M
  <2>1. \A n \in 1..N : n - 1 \in M => n \in M
    BY <1>6, Zenon
  <2>2. \A n \in 0..N : n \in M
    BY <1>1, <1>5, <2>1, UpTo, Zenon
  <2> QED
    BY <1>1, <2>2
<1>8. D(N) = SUBSET S
  BY <1>1, Zenon
<1> DEFINE iter == CHOOSE g : Rec(g, N)
<1>9. Rec(iter, N)
  BY <1>7, Zenon
<1>10. SumFunctionOnSet(f, S) = iter[S]
  <2>1. iter = CHOOSE g : g = [T \in SUBSET S |-> IF T = {} THEN 0 ELSE f[Ch(T)] + g[T \ {Ch(T)}]]
    BY <1>8, Zenon
  <2> QED
    BY <2>1, Zenon DEF SumFunctionOnSet, FoldFunctionOnSet, MapThenFoldSet, Ch
<1> HIDE DEF iter, M
<1> DEFINE J == {n \in 0..N : \A T \in D(n) : iter[T] \in Int}
<1>11. \A T \in SUBSET S : iter[T] = IF T = {} THEN 0 ELSE f[Ch(T)] + iter[T \ {Ch(T)}]
  BY <1>8, <1>9, Zenon
<1>12. 0 \in J
  <2>1. {} \in SUBSET S
    BY Zenon
  <2>2. iter[{}] = 0
    BY <2>1, <1>11, Zenon
  <2>3. \A T \in D(0) : iter[T] \in Int
    BY <2>2, <1>4
  <2> QED
    BY <2>3, <1>1
<1>13. ASSUME NEW n \in 1..N, n - 1 \in J PROVE n \in J
  <2> SUFFICES ASSUME NEW T \in D(n) PROVE iter[T] \in Int
    OBVIOUS
  <2>1. CASE T = {}
    BY <2>1, <1>11
  <2>2. CASE T # {}
    <3>1. T \ {Ch(T)} \in D(n - 1)
      BY <2>2, <1>3, Zenon
    <3>2. iter[T \ {Ch(T)}] \in Int
      BY <3>1, <1>13, Zenon
    <3>3. f[Ch(T)] \in Int
      BY <2>2, <1>2, Zenon
    <3>4. iter[T] = f[Ch(T)] + iter[T \ {Ch(T)}]
      BY <2>2, <1>11, Zenon
    <3> QED
      BY <3>2, <3>3, <3>4
  <2> QED
    BY <2>1, <2>2, Zenon
<1>14. N \in J
  <2> HIDE DEF J
  <2>1. \A n \in 1..N : n - 1 \in J => n \in J
    BY <1>13, Zenon
  <2>2. \A n \in 0..N : n \in J
    BY <1>1, <1>12, <2>1, UpTo, Zenon
  <2> QED
    BY <1>1, <2>2
<1> QED
  BY <1>8, <1>10, <1>14, Zenon
LEMMA ConfigIsTyped == \A r \in Rules : Config(r) \in RuleConfigs
<1> SUFFICES ASSUME NEW r \in Rules PROVE Config(r) \in RuleConfigs
  BY Zenon
<1>1. Default(r) \in RuleConfigs /\ File(r) \in RuleConfigs
  BY AlertAssumption, Zenon
<1>2. NormalizeRule(Default(r), File(r)) \in RuleConfigs
  <2>1. CASE ~File(r).enabled
    BY <1>1, <2>1, Zenon DEF NormalizeRule, RuleConfigs
  <2>2. CASE File(r).enabled
    BY <1>1, <2>2, Zenon DEF NormalizeRule, RuleConfigs
  <2> QED
    BY <2>1, <2>2, Zenon
<1> QED
  BY <1>1, <1>2, Zenon DEF Config

(* With its thresholds in order a rule never finds a value both crossed and clear. *)
LEMMA VerdictIsOne ==
  ASSUME ThresholdsInOrder, NEW r \in Rules, NEW v \in Int
  PROVE  /\ Verdict(r, v) \in AVerdict
         /\ ~(Violates(r, v) /\ Clears(r, v))
<1> DEFINE c == Config(r)
<1>1. c.raise \in Int /\ c.clear \in Int
  BY ConfigIsTyped, Zenon DEF RuleConfigs
<1>2. IF r \in LowRules THEN c.raise <= c.clear ELSE c.clear <= c.raise
  BY Zenon DEF ThresholdsInOrder
<1> HIDE DEF c
<1>3. Violates(r, v) \in BOOLEAN /\ Clears(r, v) \in BOOLEAN
  <2>1. (v < c.raise) \in BOOLEAN /\ (v <= c.raise) \in BOOLEAN /\ (v > c.raise) \in BOOLEAN
    BY <1>1
  <2>2. /\ (v >= c.clear) \in BOOLEAN /\ (v > c.clear) \in BOOLEAN
        /\ (v < c.clear) \in BOOLEAN /\ (v <= c.clear) \in BOOLEAN
    BY <1>1
  <2>3. Violates(r, v) \in {v < c.raise, v <= c.raise, v > c.raise}
    BY Zenon DEF Violates, c
  <2>4. Clears(r, v) \in {v >= c.clear, v > c.clear, v < c.clear, v <= c.clear}
    BY Zenon DEF Clears, c
  <2> QED
    BY <2>1, <2>2, <2>3, <2>4, Zenon
<1>4. ~(Violates(r, v) /\ Clears(r, v))
  BY <1>1, <1>2 DEF Violates, Clears, LowRules, c
<1> QED
  BY <1>3, <1>4, Zenon DEF Verdict, AVerdict

LEMMA CountersAreFinite == \A r \in DOMAIN CounterKeys : IsFiniteSet(CounterKeys[r])
<1> DEFINE K == CounterKeys
<1>1. \A x : IsFiniteSet({x})
  BY FS_Singleton, Zenon
<1>2. ASSUME NEW x, NEW y PROVE IsFiniteSet({x, y})
  <2>1. {x, y} = {x} \cup {y}
    BY Zenon
  <2>2. IsFiniteSet({x} \cup {y})
    BY <1>1, FS_Union, Zenon
  <2> QED
    BY <2>1, <2>2, Zenon
<1>3. DOMAIN K = {"nas_signaling_loss", "nas_security_mismatch", "nas_parsing_failure",
                  "rrc_protocol_error", "rrc_connection_rejection", "core_service_reject",
                  "paging_capacity_exceeded", "rlc_max_retransmissions"}
  BY Zenon DEF CounterKeys
<1>4. /\ K["nas_signaling_loss"] = {"nas_dl_drop", "nas_ul_fail"}
      /\ K["nas_security_mismatch"] = {"nas_ul_sec_unknown"}
      /\ K["nas_parsing_failure"] = {"nas_ul_parse_fail", "nas_dl_parse_fail"}
      /\ K["rrc_protocol_error"] = {"rrc_protocol_fail"}
      /\ K["rrc_connection_rejection"] = {"rrc_con_reject"}
      /\ K["core_service_reject"] = {"nas_dl_service_rej"}
      /\ K["paging_capacity_exceeded"] = {"rrc_paging_fail"}
      /\ K["rlc_max_retransmissions"] = {"rrc_max_rlc_retx"}
  BY Zenon DEF CounterKeys
<1> HIDE DEF K
<1>5. \A r \in DOMAIN K : IsFiniteSet(K[r])
  <2>1. /\ IsFiniteSet({"nas_dl_drop", "nas_ul_fail"})
        /\ IsFiniteSet({"nas_ul_parse_fail", "nas_dl_parse_fail"})
    BY <1>2, Zenon
  <2>2. /\ IsFiniteSet({"nas_ul_sec_unknown"}) /\ IsFiniteSet({"rrc_protocol_fail"})
        /\ IsFiniteSet({"rrc_con_reject"}) /\ IsFiniteSet({"nas_dl_service_rej"})
        /\ IsFiniteSet({"rrc_paging_fail"}) /\ IsFiniteSet({"rrc_max_rlc_retx"})
    BY <1>1, Zenon
  <2> QED
    BY <2>1, <2>2, <1>3, <1>4
<1> QED
  BY <1>5, Zenon DEF K

(* The values of a report and of a rule are integers. *)
LEMMA ValuesAreInts ==
  ASSUME NEW os \in SUBSET Objects, NEW r \in Reports(os), NEW o
  PROVE  \A k \in DOMAIN ValuesAt(r, o) : ValuesAt(r, o)[k] \in Int
<1>1. CASE o \in os
  <2>1. DOMAIN r = os /\ r[o] \in Values(o)
    BY <1>1, Zenon DEF Reports
  <2>2. PICK ms \in (SUBSET MetricsOf[o]) \ {{}} : r[o] \in [ms -> Levels]
    BY <2>1, Zenon DEF Values
  <2> QED
    BY <2>1, <2>2, <1>1, AlertAssumption, Zenon DEF ValuesAt
<1>2. CASE o \notin os
  <2>1. ValuesAt(r, o) = NoValues
    BY <1>2, Zenon DEF ValuesAt, Reports
  <2> QED
    BY <2>1, Zenon DEF NoValues
<1> QED
  BY <1>1, <1>2, Zenon

LEMMA FoundAreInts ==
  ASSUME NEW rule \in RuleNames \ {"low_throughput", "bearer_congestion"},
         NEW values, \A k \in DOMAIN values : values[k] \in Int
  PROVE  ValueOf(rule, values) \subseteq Int
<1>1. ASSUME NEW keys PROVE FirstMetric(values, keys) \subseteq Int
  BY Zenon DEF FirstMetric
<1>2. BadSignal(values) \subseteq Int
  BY <1>1, Zenon DEF BadSignal
<1>3. MaxBLER(values) \subseteq Int
  BY Zenon DEF MaxBLER
<1>4. ASSUME NEW keys, IsFiniteSet(keys) PROVE SumValues(values, keys) \subseteq Int
  <2> DEFINE found == keys \cap DOMAIN values
  <2>1. IsFiniteSet(found) /\ \A x \in found : values[x] \in Int
    BY <1>4, FS_Subset, Zenon
  <2>2. SumFunctionOnSet(values, found) \in Int
    BY <2>1, SumIsInt, Zenon
  <2> QED
    BY <2>2, Zenon DEF SumValues
<1>5. CASE rule \in DOMAIN CounterKeys
  <2>1. ValueOf(rule, values) = SumValues(values, CounterKeys[rule])
    <3>1. rule \notin DOMAIN MetricKeys /\ rule # "bad_signal_condition" /\ rule # "high_bler"
      BY <1>5, Zenon DEF CounterKeys, MetricKeys
    <3> QED
      BY <1>5, <3>1, Zenon DEF ValueOf
  <2> QED
    BY <2>1, <1>4, <1>5, CountersAreFinite, Zenon
<1>6. CASE rule \in DOMAIN MetricKeys
  BY <1>1, <1>6, Zenon DEF ValueOf, CounterKeys, MetricKeys
<1>7. CASE rule = "bad_signal_condition"
  BY <1>2, <1>7, Zenon DEF ValueOf, CounterKeys, MetricKeys
<1>8. CASE rule = "high_bler"
  BY <1>3, <1>8, Zenon DEF ValueOf, CounterKeys, MetricKeys
<1> QED
  BY <1>5, <1>6, <1>7, <1>8, Zenon DEF RuleNames

(* The verdict of evaluateLowThroughput, on a sum over the objects of the report. *)
LEMMA LowThroughputIsOne ==
  ASSUME ThresholdsInOrder, "low_throughput" \in Rules,
         NEW os \in SUBSET Objects, NEW r \in Reports(os)
  PROVE  /\ LowThroughput(r) \in AVerdict
         /\ ~(LowThroughput(r).violation /\ LowThroughput(r).clear)
<1> DEFINE keys == {"dl_bitrate", "ul_bitrate"}
           part == [o \in DOMAIN r |-> SumFunctionOnSet(r[o], keys \cap DOMAIN r[o])]
           total == TotalOf(r, keys)
<1>1. DOMAIN r = os /\ IsFiniteSet(os)
  BY AlertAssumption, FS_Subset, Zenon DEF Reports
<1>2. IsFiniteSet(keys)
  <2>1. keys = {"dl_bitrate"} \cup {"ul_bitrate"}
    BY Zenon
  <2>2. IsFiniteSet({"dl_bitrate"}) /\ IsFiniteSet({"ul_bitrate"})
    BY FS_Singleton, Zenon
  <2>3. IsFiniteSet({"dl_bitrate"} \cup {"ul_bitrate"})
    BY <2>2, FS_Union, Zenon
  <2> QED
    BY <2>1, <2>3, Zenon
<1> HIDE DEF keys
<1>3. ASSUME NEW o \in DOMAIN r PROVE part[o] \in Int
  <2> DEFINE found == keys \cap DOMAIN r[o]
  <2>1. \A k \in DOMAIN r[o] : r[o][k] \in Int
    BY ValuesAreInts, Zenon DEF ValuesAt
  <2>2. IsFiniteSet(found)
    BY <1>2, FS_Subset, Zenon
  <2>3. \A x \in found : r[o][x] \in Int
    BY <2>1, Zenon
  <2>4. SumFunctionOnSet(r[o], found) \in Int
    BY <2>2, <2>3, SumIsInt, Zenon
  <2> QED
    BY <2>4, Zenon
<1>4. total = SumFunctionOnSet(part, DOMAIN part)
  BY Zenon DEF TotalOf, SumFunction
<1>5. DOMAIN part = os /\ \A o \in os : part[o] \in Int
  BY <1>1, <1>3, Zenon
<1> HIDE DEF part
<1>6. total \in Int
  BY <1>1, <1>4, <1>5, SumIsInt, Zenon
<1> HIDE DEF total
<1>7. ~(Violates("low_throughput", total) /\ Clears("low_throughput", total))
  BY <1>6, VerdictIsOne, Zenon
<1> DEFINE crossed == ConnectedUEs(r) > 0 /\ Violates("low_throughput", total)
           clear == ConnectedUEs(r) = 0 \/ Clears("low_throughput", total)
<1>8. LowThroughput(r) = [violation |-> crossed, clear |-> clear]
  BY Zenon DEF LowThroughput, total, keys
<1>9. crossed \in BOOLEAN /\ clear \in BOOLEAN
  BY Zenon
<1>10. ConnectedUEs(r) = 0 => ~(ConnectedUEs(r) > 0)
  OBVIOUS
<1>11. ~(crossed /\ clear)
  BY <1>7, <1>10, Zenon
<1> HIDE DEF crossed, clear
<1> QED
  BY <1>8, <1>9, <1>11 DEF AVerdict

(* Every plan for a report brings every alarm verdicts, none of them both crossed
   and clear. *)
LEMMA PlansAreSound ==
  ASSUME ThresholdsInOrder, NEW os \in SUBSET Objects, NEW r \in Reports(os),
         NEW plan \in Plans(r), NEW a \in Alarms
  PROVE  /\ plan[a] \in Seq(AVerdict)
         /\ \A i \in 1..Len(plan[a]) : ~(plan[a][i].violation /\ plan[a][i].clear)
<1>1. PICK chosen \in Chosen(r), order \in Orders(r) :
        plan = [b \in Alarms |-> Verdicts(r, chosen, order, b)]
  BY DEF Plans
<1> DEFINE rule == a[1]
           values == ValuesAt(r, a[2])
           found == ValueOf(rule, values)
           bearers == order[a[2]]
           OneOf(v) == v \in AVerdict /\ ~(v.violation /\ v.clear)
           Sound(vs) == vs \in Seq(AVerdict) /\ \A i \in 1..Len(vs) : ~(vs[i].violation /\ vs[i].clear)
<1>2. plan[a] = Verdicts(r, chosen, order, a)
  BY <1>1, Zenon
<1>3. rule \in Rules /\ a[2] \in Objects
  BY Zenon DEF Alarms
<1>4. \A k \in DOMAIN values : values[k] \in Int
  BY ValuesAreInts, Zenon
<1>5. ASSUME NEW v \in Int PROVE OneOf(Verdict(rule, v))
  BY <1>3, VerdictIsOne, Zenon DEF Verdict
<1>6. Sound(<<>>)
  OBVIOUS
<1>7. ASSUME NEW v, OneOf(v) PROVE Sound(<<v>>)
  BY <1>7
<1>8. CASE ~Config(rule).enabled
  BY <1>2, <1>6, <1>8, Zenon DEF Verdicts
<1>9. CASE Config(rule).enabled /\ rule = "low_throughput"
  <2>1. plan[a] = IF a[2] = chosen THEN <<LowThroughput(r)>> ELSE <<>>
    BY <1>2, <1>9, Zenon DEF Verdicts
  <2>2. OneOf(LowThroughput(r))
    BY <1>3, <1>9, LowThroughputIsOne, Zenon
  <2> HIDE DEF OneOf, Sound
  <2> QED
    BY <2>1, <2>2, <1>6, <1>7, Zenon DEF Sound
<1>10. CASE Config(rule).enabled /\ rule = "bearer_congestion"
  <2> DEFINE B == Bearers \cap DOMAIN values
             n == Cardinality(B)
  <2>1. plan[a] = [i \in DOMAIN bearers |-> Verdict(rule, values[bearers[i]])]
    BY <1>2, <1>10, Zenon DEF Verdicts
  <2>2. bearers \in Injection(1..n, B)
    BY <1>3, Zenon DEF Orders
  <2>3. n \in Nat
    <3>1. Bearers = {"bearer.1"} \cup {"bearer.2"}
      BY Zenon DEF Bearers
    <3>2. IsFiniteSet({"bearer.1"}) /\ IsFiniteSet({"bearer.2"})
      BY FS_Singleton, Zenon
    <3>3. IsFiniteSet(Bearers)
      BY <3>1, <3>2, FS_Union, Zenon
    <3>4. IsFiniteSet(B)
      BY <3>3, FS_Subset, Zenon
    <3> QED
      BY <3>4, FS_CardinalityType, Zenon
  <2>4. bearers \in [1..n -> B]
    <3> HIDE DEF B, bearers
    <3> QED
      BY <2>2, Zenon DEF Injection, n
  <2>5. \A i \in 1..n : OneOf(Verdict(rule, values[bearers[i]]))
    BY <2>4, <1>4, <1>5, Zenon
  <2> HIDE DEF n
  <2>6. plan[a] = [i \in 1..n |-> Verdict(rule, values[bearers[i]])]
    BY <2>1, <2>4, Zenon
  <2>7. plan[a] \in Seq(AVerdict) /\ Len(plan[a]) = n
    BY <2>3, <2>5, <2>6
  <2> QED
    BY <2>5, <2>6, <2>7, Zenon
<1>11. CASE Config(rule).enabled /\ rule \notin {"low_throughput", "bearer_congestion"}
  <2>1. plan[a] = IF found = {} THEN <<>> ELSE <<Verdict(rule, CHOOSE v \in found : TRUE)>>
    BY <1>2, <1>11, Zenon DEF Verdicts
  <2>2. found \subseteq Int
    BY <1>3, <1>4, <1>11, FoundAreInts, AlertAssumption, Zenon
  <2> HIDE DEF found, OneOf
  <2>3. found # {} => OneOf(Verdict(rule, CHOOSE v \in found : TRUE))
    BY <2>2, <1>5, Zenon
  <2> HIDE DEF Sound
  <2> QED
    BY <2>1, <2>3, <1>6, <1>7, Zenon DEF Sound
<1> QED
  BY <1>8, <1>9, <1>10, <1>11, SMTT(30)

(* The engine and the list are in step with the verdicts of every alarm. *)
AlertInv ==
  /\ now \in Nat
  /\ states = [a \in Alarms |-> states[a]]
  /\ trail = [a \in Alarms |-> trail[a]]
  /\ \A a \in Alarms :
       /\ Timeline(trail[a], now)
       /\ Follows(Config(a[1]), states[a], a \in listed, trail[a])

LEMMA DurationsAreTimes ==
  \A a \in Alarms : /\ Config(a[1]).raiseDuration \in Nat
                    /\ Config(a[1]).clearDuration \in Nat
<1>1. \A a \in Alarms : a[1] \in Rules
  BY Zenon DEF Alarms
<1> QED
  BY <1>1, ConfigIsTyped, Zenon DEF RuleConfigs

LEMMA AlertsInit == AlertInit => AlertInv
<1> SUFFICES ASSUME AlertInit PROVE AlertInv
  BY Zenon
<1>1. now = 0 /\ listed = {}
  BY Zenon DEF AlertInit
<1>2. ASSUME NEW a \in Alarms PROVE states[a] = Idle /\ trail[a] = <<>>
  BY Zenon DEF AlertInit
<1>3. ASSUME NEW c PROVE Follows(c, Idle, FALSE, <<>>)
  <2>1. Idle \in EngineStates /\ ~Idle.active
        /\ Idle.pendingRaise = -1 /\ Idle.pendingClear = -1
    BY DEF Idle, None, EngineStates
  <2>2. ~CallsFor(c, <<>>)
    BY DEF CallsFor
  <2> QED
    BY <2>1, <2>2, Zenon DEF Follows
<1>4. Timeline(<<>>, 0)
  BY DEF Timeline
<1>5. ASSUME NEW a \in Alarms
      PROVE  /\ Timeline(trail[a], now)
             /\ Follows(Config(a[1]), states[a], a \in listed, trail[a])
  <2>1. (a \in listed) = FALSE
    BY <1>1
  <2> QED
    BY <1>1, <1>2, <1>3, <1>4, <2>1, Zenon
<1>6. now \in Nat
  BY <1>1, Zenon
<1> QED
  BY <1>5, <1>6, Zenon DEF AlertInv, AlertInit

LEMMA AlertsTick == AlertInv /\ Tick => AlertInv'
<1> SUFFICES ASSUME AlertInv, Tick PROVE AlertInv'
  BY Zenon
<1>1. now \in Nat /\ now' = now + 1 /\ UNCHANGED <<states, listed, trail>>
  BY Zenon DEF AlertInv, Tick
<1>2. ASSUME NEW h, Timeline(h, now) PROVE Timeline(h, now')
  <2>1. h \in Seq(Entries)
    BY <1>2, Zenon DEF Timeline
  <2>2. ASSUME NEW i \in 1..Len(h) PROVE h[i].at \in Int /\ h[i].at <= now
    <3>1. h[i] \in Entries
      BY <2>1
    <3> QED
      BY <3>1, <1>2, Zenon DEF Timeline, Entries
  <2>3. \A i \in 1..Len(h) : h[i].at <= now'
    BY <2>2, <1>1
  <2> QED
    BY <1>2, <2>3, Zenon DEF Timeline
<1>3. ASSUME NEW a \in Alarms
      PROVE  /\ Timeline(trail'[a], now')
             /\ Follows(Config(a[1]), states'[a], a \in listed', trail'[a])
  BY <1>1, <1>2, Zenon DEF AlertInv
<1> QED
  BY <1>1, <1>3 DEF AlertInv

LEMMA AlertsRestart == AlertInv /\ Restart => AlertInv'
<1> SUFFICES ASSUME AlertInv, Restart PROVE AlertInv'
  BY Zenon
<1> DEFINE x == [at |-> now, restart |-> TRUE, violation |-> FALSE, clear |-> FALSE]
<1>1. now \in Nat /\ UNCHANGED <<now, listed>>
  BY Zenon DEF AlertInv, Restart
<1>2. ASSUME NEW a \in Alarms
      PROVE  states'[a] = Idle /\ trail'[a] = Append(trail[a], x)
  BY Zenon DEF Restart
<1>3. /\ x \in Entries /\ x.at = now /\ x.restart /\ ~x.violation /\ ~x.clear
  BY <1>1 DEF Entries
<1> HIDE DEF x
<1>4. ASSUME NEW a \in Alarms
      PROVE  /\ Timeline(trail'[a], now')
             /\ Follows(Config(a[1]), states'[a], a \in listed', trail'[a])
  <2> DEFINE h == trail[a]
             g == Append(h, x)
             c == Config(a[1])
             s == states[a]
  <2>1. Timeline(h, now) /\ Follows(c, s, a \in listed, h) /\ h \in Seq(Entries)
    BY Zenon DEF AlertInv, Timeline
  <2>2. Timeline(g, now)
    BY <1>1, <1>3, <2>1, TimelineGrows
  <2>3. g \in Seq(Entries) /\ Len(g) = Len(h) + 1 /\ Len(h) \in Nat /\ g[Len(g)] = x
    BY <2>1, <1>3
  <2> HIDE DEF h, g, c, s
  <2>4. Leaves(c, g) /\ (CallsFor(c, g) => CrossedFor(g, Len(g), c.raiseDuration) \/ CallsFor(c, h))
    BY <2>1, <1>3, CallsGrow, Zenon DEF g
  <2>5. ~CrossedFor(g, Len(g), c.raiseDuration)
    BY <2>3, <1>3, EndsNothing
  <2>6. CallsFor(c, h) => a \in listed
    BY <2>1, Zenon DEF Follows
  <2>7. Idle \in EngineStates /\ ~Idle.active
        /\ Idle.pendingRaise = -1 /\ Idle.pendingClear = -1
    BY SMTT(30) DEF Idle, None, EngineStates
  <2>8. Follows(c, Idle, a \in listed, g)
    BY <2>3, <2>4, <2>5, <2>6, <2>7, <1>3, SMTT(30) DEF Follows
  <2> QED
    BY <2>2, <2>8, <1>1, <1>2, Zenon DEF g, h, c
<1>5. /\ states' = [a \in Alarms |-> states'[a]]
      /\ trail' = [a \in Alarms |-> trail'[a]]
  BY Zenon DEF Restart
<1> QED
  BY <1>1, <1>4, <1>5, Zenon DEF AlertInv

LEMMA AlertsEvaluate ==
  ASSUME ThresholdsInOrder, AlertInv, NEW os \in SUBSET Objects, NEW r \in Reports(os),
         Evaluate(r)
  PROVE  AlertInv'
<1>1. PICK plan \in Plans(r) : Apply(plan)
  BY Zenon DEF Evaluate
<1>2. now \in Nat /\ now' = now
  BY Zenon DEF AlertInv, Evaluate
<1>3. ASSUME NEW a \in Alarms
      PROVE  /\ Timeline(trail'[a], now')
             /\ Follows(Config(a[1]), states'[a], a \in listed', trail'[a])
  <2> DEFINE vs == plan[a]
             end == Taken(a, vs)
             h == trail[a] \o Recorded(vs, Len(vs))
  <2>1. /\ vs \in Seq(AVerdict)
        /\ \A i \in 1..Len(vs) : ~(vs[i].violation /\ vs[i].clear)
    BY PlansAreSound, Zenon
  <2>2. /\ Timeline(trail[a], now)
        /\ Follows(Config(a[1]), states[a], a \in listed, trail[a])
    BY Zenon DEF AlertInv
  <2>3. /\ states'[a] = end.state
        /\ a \in listed' <=> end.on
    BY <1>1, Zenon DEF Apply
  <2>4. trail'[a] = trail[a] \o [i \in DOMAIN vs |-> Seen(vs[i])]
    BY <1>1, Zenon DEF Apply
  <2> HIDE DEF vs
  <2>5. [i \in DOMAIN vs |-> Seen(vs[i])] = Recorded(vs, Len(vs))
    <3>1. DOMAIN vs = 1..Len(vs)
      BY <2>1, SMTT(30)
    <3> QED
      BY <3>1, Zenon DEF Recorded
  <2>6. Follows(Config(a[1]), end.state, end.on, h) /\ Timeline(h, now)
    BY <1>2, <2>1, <2>2, TakenFollows, DurationsAreTimes, Zenon
  <2>7. trail'[a] = h
    BY <2>4, <2>5, Zenon
  <2> HIDE DEF end, h
  <2>8. end.on \in BOOLEAN
    BY <2>6, Zenon DEF Follows
  <2>9. end.on = (a \in listed')
    BY <2>3, <2>8
  <2> QED
    BY <2>3, <2>6, <2>7, <2>9, <1>2, Zenon
<1>4. /\ states' = [a \in Alarms |-> states'[a]]
      /\ trail' = [a \in Alarms |-> trail'[a]]
  BY <1>1, Zenon DEF Apply
<1> QED
  BY <1>2, <1>3, <1>4, Zenon DEF AlertInv

(* No step of the part leaves the invariant. *)
LEMMA AlertsKept ==
  ASSUME ThresholdsInOrder, AlertInv, AlertNext \/ UNCHANGED alertVars
  PROVE  AlertInv'
<1>1. CASE UNCHANGED alertVars
  BY <1>1, Zenon DEF AlertInv, alertVars
<1>2. CASE Tick
  BY <1>2, AlertsTick, Zenon
<1>3. CASE Restart
  BY <1>3, AlertsRestart, Zenon
<1>4. ASSUME NEW os \in (SUBSET Objects) \ {{}}, NEW r \in Reports(os), Evaluate(r)
      PROVE  AlertInv'
  BY <1>4, AlertsEvaluate, Zenon
<1>5. AlertNext => AlertInv'
  BY <1>2, <1>3, <1>4, Zenon DEF AlertNext
<1> QED
  BY <1>1, <1>5, Zenon

(* What the engine and the list hold is what the verdicts call for. *)
LEMMA AlertsMatch == AlertInv => AlarmsMatchReports
<1> SUFFICES ASSUME AlertInv, NEW a \in Alarms
             PROVE  /\ Due(a) => a \in listed
                    /\ a \in listed => Due(a) \/ Inherited(a)
  BY Zenon DEF AlarmsMatchReports
<1> DEFINE h == trail[a]
           c == Config(a[1])
           s == states[a]
<1>1. Follows(c, s, a \in listed, h) /\ h \in Seq(Entries)
  BY Zenon DEF AlertInv, Timeline
<1>2. DOMAIN h = 1..Len(h)
  BY <1>1
<1>3. ASSUME NEW j PROVE RaiseDue(a, j) <=> CrossedFor(h, j, c.raiseDuration)
  BY Zenon DEF RaiseDue, Held, CrossedFor
<1>4. ASSUME NEW j PROVE ClearDue(a, j) <=> ClearFor(h, j, c.clearDuration)
  BY Zenon DEF ClearDue, Held, ClearFor
<1>5. Due(a) <=> CallsFor(c, h)
  BY <1>2, <1>3, <1>4, Zenon DEF Due, CallsFor
<1>6. Leaves(c, h) => Inherited(a)
  BY <1>2, <1>3, Zenon DEF Inherited, Leaves
<1> HIDE DEF h, c, s
<1>7. CallsFor(c, h) => a \in listed
  BY <1>1, Zenon DEF Follows
<1>8. a \in listed => CallsFor(c, h) \/ Leaves(c, h)
  BY <1>1, Zenon DEF Follows, EngineStates
<1> QED
  BY <1>5, <1>6, <1>7, <1>8, Zenon

(* In every behaviour, for any rules, objects, thresholds in order and durations, an
   alarm is in the list exactly when the verdicts call for it, whatever reports come
   at whatever times and whenever the agent starts again (Engine.transition). *)
THEOREM AlarmsFollowVerdicts == ASSUME ThresholdsInOrder PROVE AlertSpec => []AlarmsMatchReports
<1>1. AlertInit => AlertInv
  BY AlertsInit, Zenon
<1>2. AlertInv /\ [AlertNext]_alertVars => AlertInv'
  BY AlertsKept, Zenon
<1> QED
  BY <1>1, <1>2, AlertsMatch, PTL DEF AlertSpec
=============================================================================
