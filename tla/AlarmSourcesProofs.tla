------------------------- MODULE AlarmSourcesProofs -------------------------
(***************************************************************************)
(* Proofs about what finds out about faults: the health tracker with the   *)
(* fault service, for any components and any room in its channel, and the  *)
(* reader of the alarm log, for any lines and a log of any length.         *)
(***************************************************************************)
EXTENDS AlarmSources, WellFoundedInduction, SequenceTheorems, TLAPS

-----------------------------------------------------------------------------
(* The health tracker and the fault service *)

(* What the code fixes: a component has a name of its own, and is reported up, or
   down with an error that is severe or not *)
HealthConstants ==
  /\ "all" \notin Tracked
  /\ Reports \subseteq {"up", "down", "minor"}

HealthEvents == [c : Tracked, s : {"up", "down", "minor"}] \cup {StateChange}

HealthType ==
  /\ status \in [Tracked -> {"none", "up", "down", "minor"}]
  /\ sending \in [Tracked -> Seq(HealthEvents)]
  /\ chan \in Seq(HealthEvents)
  /\ replay \in SUBSET [c : Tracked, s : {"up", "down", "minor"}]
  /\ DOMAIN alarm = Tracked /\ DOMAIN due = Tracked
  /\ sub \in {"none", "replay", "live", "closed", "done"}

(* Nothing is sent before the subscription; the replay is over when it is live;
   and what is due follows the status *)
SubInv ==
  /\ sub = "none" => chan = <<>> /\ replay = {} /\ \A c \in Tracked : sending[c] = <<>> /\ due[c] = alarm[c]
  /\ sub \in {"live", "closed", "done"} => replay = {}
  /\ Registered => \A c \in Tracked :
       (status[c] = "up" => due[c] = FALSE) /\ (status[c] = "down" => due[c] = TRUE)
  /\ \A e, f \in replay : e.c = f.c => e = f

(* An event that raises or clears the alarm of c, and that does what is due *)
Decides(e, c) == e.c = c /\ e.s \in {"up", "down"}
IsDue(e, c) == (e.s = "up" => due[c] = FALSE) /\ (e.s = "down" => due[c] = TRUE)

Deciding(c) == sending[c] # <<>> /\ Decides(Head(sending[c]), c)
InReplay(c) == \E e \in replay : e.c = c
InChannel(c) == \E i \in 1..Len(chan) : chan[i].c = c

(* The last event in the channel that decides says what is due, or there is none
   and the alarm is as it is due *)
LastSays(c) ==
  \/ \E i \in 1..Len(chan) :
       /\ Decides(chan[i], c) /\ IsDue(chan[i], c)
       /\ \A j \in (i + 1)..Len(chan) : ~Decides(chan[j], c)
  \/ (\A i \in 1..Len(chan) : ~Decides(chan[i], c)) /\ alarm[c] = due[c]

(* An event of the component comes before the change of the overall state, of which
   there is at most one, and decides what is due *)
SendingInv ==
  \A c \in Tracked :
    /\ Len(sending[c]) <= 2
    /\ Len(sending[c]) = 2 => sending[c][2] = StateChange
    /\ sending[c] # <<>> => Head(sending[c]).c \in {c, "all"}
    /\ Deciding(c) => IsDue(Head(sending[c]), c)

(* What the alarm of c will be, by the last that is still to be handled: an event
   not yet sent, a status of the replay that will not overtake anything, or the
   channel *)
WillFollow(c) ==
  /\ ~Deciding(c) /\ ~InReplay(c) => LastSays(c)
  /\ ~Deciding(c) /\ ~InChannel(c) =>
       \A e \in replay : e.c = c => IsDue(e, c) /\ (e.s = "minor" => LastSays(c))

HealthInv ==
  /\ HealthType
  /\ ~panicked => /\ SendingInv /\ SubInv
                  /\ \A c \in Tracked \ (dropped \cup overtaken) : WillFollow(c)

LEMMA AtMostTwo ==
  ASSUME NEW n \in Nat \ {0}, n <= 2
  PROVE  n - 1 <= 2 /\ n - 1 # 2 /\ (n - 1 # 0 => n = 2)
OBVIOUS

LEMMA EventAppend ==
  ASSUME NEW q \in Seq(HealthEvents), NEW e \in HealthEvents
  PROVE  /\ Append(q, e) \in Seq(HealthEvents) /\ Len(Append(q, e)) = Len(q) + 1 /\ Len(q) \in Nat
         /\ \A i \in 1..Len(q) : Append(q, e)[i] = q[i] /\ q[i] \in HealthEvents
         /\ Append(q, e)[Len(q) + 1] = e
OBVIOUS

LEMMA EventTail ==
  ASSUME NEW q \in Seq(HealthEvents), q # <<>>
  PROVE  /\ Tail(q) \in Seq(HealthEvents) /\ Len(q) \in Nat \ {0} /\ Len(Tail(q)) = Len(q) - 1
         /\ \A i \in 1..(Len(q) - 1) : Tail(q)[i] = q[i + 1]
         /\ Head(q) = q[1] /\ q[1] \in HealthEvents
BY SMTT(30)

(* A change of a component is the first event of a report *)
LEMMA EventsFacts ==
  ASSUME NEW c \in Tracked, NEW s \in {"up", "down", "minor"}, NEW changed \in BOOLEAN
  PROVE  LET es == Events(c, s, changed) IN
         /\ es \in Seq(HealthEvents) /\ Len(es) <= 2
         /\ Len(es) = 2 => es[2] = StateChange
         /\ changed => es # <<>> /\ Head(es) = [c |-> c, s |-> s]
         /\ ~changed => es = <<>> \/ Head(es) = StateChange
<1> DEFINE state == StateChange
           A == IF changed THEN <<[c |-> c, s |-> s]>> ELSE <<>>
           B == IF Derive([status EXCEPT ![c] = s]) # Derive(status)
                THEN <<state>> ELSE <<>>
           es == Events(c, s, changed)
<1>1. [c |-> c, s |-> s] \in HealthEvents /\ state \in HealthEvents
  BY Zenon DEF HealthEvents, StateChange
<1>2. es = A \o B
  BY Zenon DEF Events
<1>3. /\ A \in Seq(HealthEvents)
      /\ changed => Len(A) = 1 /\ A[1] = [c |-> c, s |-> s]
      /\ ~changed => Len(A) = 0
  BY <1>1
<1>4. B \in Seq(HealthEvents) /\ (Len(B) = 0 \/ (Len(B) = 1 /\ B[1] = state))
  BY <1>1
<1> HIDE DEF A, B, es, state
<1>5. /\ es \in Seq(HealthEvents) /\ Len(es) = Len(A) + Len(B)
      /\ \A i \in 1..(Len(A) + Len(B)) : es[i] = IF i <= Len(A) THEN A[i] ELSE B[i - Len(A)]
  BY <1>2, <1>3, <1>4, ConcatProperties, Zenon
<1>6. Len(es) <= 2 /\ (Len(es) = 2 => es[2] = state)
  <2>1. CASE Len(A) = 1 /\ Len(B) = 1
    <3>1. es[2] = B[2 - Len(A)] /\ 2 - Len(A) = 1
      BY <1>5, <2>1, SMTT(30)
    <3> QED
      BY <1>4, <1>5, <2>1, <3>1
  <2>2. CASE Len(A) = 0 \/ Len(B) = 0
    BY <1>3, <1>4, <1>5, <2>2, SMTT(30)
  <2> QED
    BY <1>3, <1>4, <2>1, <2>2, Zenon
<1>7. ASSUME changed PROVE Len(es) \in {1, 2} /\ es[1] = [c |-> c, s |-> s]
  <2>1. Len(A) = 1 /\ A[1] = [c |-> c, s |-> s] /\ Len(B) \in {0, 1}
    BY <1>3, <1>4, <1>7, Zenon
  <2>2. es[1] = A[1]
    BY <1>5, <2>1
  <2> QED
    BY <1>5, <2>1, <2>2, SMTT(30)
<1>8. ASSUME ~changed PROVE Len(es) = 0 \/ (Len(es) = 1 /\ es[1] = state)
  <2>1. Len(A) = 0
    BY <1>3, <1>8, Zenon
  <2>2. CASE Len(B) = 1
    <3>1. es[1] = B[1 - Len(A)] /\ 1 - Len(A) = 1
      BY <1>5, <2>1, <2>2
    <3> QED
      BY <1>4, <1>5, <2>1, <2>2, <3>1
  <2> QED
    BY <1>4, <1>5, <2>1, <2>2, SMTT(30)
<1>9. Len(es) # 0 => es # <<>> /\ Head(es) = es[1]
  BY <1>5, EventTail
<1>10. Len(es) = 0 => es = <<>>
  BY <1>5, SMTT(30)
<1> QED
  BY <1>5, <1>6, <1>7, <1>8, <1>9, <1>10 DEF es, state

(* Set, with its choice named *)
Reporting(c, s, changed) ==
  /\ sub \notin {"closed", "done"} /\ sending[c] = <<>>
  /\ status[c] # s => changed
  /\ sending' = [sending EXCEPT ![c] =
                   IF Registered THEN Events(c, s, changed) ELSE <<>>]
  /\ status' = [status EXCEPT ![c] = s]
  /\ due' = IF Registered /\ s # "minor" THEN [due EXCEPT ![c] = (s = "down")] ELSE due
  /\ UNCHANGED <<sub, replay, chan, room, alarm, cancelled, panicked, dropped, overtaken>>

(* What a step of the tracker or the service does *)
LEMMA HealthMoves ==
  ASSUME HealthConstants, HealthNext
  PROVE  /\ ~panicked
         /\ \/ \E c \in Tracked, s \in {"up", "down", "minor"}, changed \in BOOLEAN :
                 Reporting(c, s, changed)
            \/ \E c \in Tracked : Send(c)
            \/ Subscribe
            \/ Replay
            \/ Handle
            \/ /\ UNCHANGED <<status, sending, replay, chan, alarm, panicked, due, dropped, overtaken>>
               /\ \/ sub' = sub
                  \/ sub = "replay" /\ replay = {} /\ sub' = "live"
                  \/ sub = "live" /\ sub' = "closed"
                  \/ sub = "closed" /\ sub' = "done"
<1>1. CASE Report
  <2>1. PICK c \in Tracked, s \in Reports : Set(c, s)
    BY <1>1, Zenon DEF Report
  <2>2. \E changed \in BOOLEAN : Reporting(c, s, changed)
    BY <2>1, ZenonT(60) DEF Set, Reporting
  <2> QED
    BY <2>1, <2>2, Zenon DEF HealthConstants, HealthNext
<1> QED
  BY <1>1, Zenon DEF HealthNext, Broadcast, Serve, Subscribed, Cancel,
              Unsubscribe, Return

LEMMA HealthTypeStep ==
  ASSUME HealthConstants, HealthType, HealthNext
  PROVE  HealthType'
<1>1. ASSUME NEW c \in Tracked, NEW s \in {"up", "down", "minor"}, NEW changed \in BOOLEAN,
             Reporting(c, s, changed)
      PROVE  HealthType'
  <2>1. sending' \in [Tracked -> Seq(HealthEvents)]
    <3>1. Events(c, s, changed) \in Seq(HealthEvents) /\ <<>> \in Seq(HealthEvents)
      BY EventsFacts
    <3> QED
      BY <1>1, <3>1, Zenon DEF Reporting, HealthType
  <2>2. status' \in [Tracked -> {"none", "up", "down", "minor"}] /\ DOMAIN due' = Tracked
    BY <1>1, Zenon DEF Reporting, HealthType
  <2> QED
    BY <1>1, <2>1, <2>2, Zenon DEF Reporting, HealthType
<1>2. ASSUME NEW c \in Tracked, Send(c)
      PROVE  HealthType'
  <2>1. sending[c] \in Seq(HealthEvents) /\ sending[c] # <<>>
    BY <1>2, Zenon DEF Send, HealthType
  <2>2. Tail(sending[c]) \in Seq(HealthEvents) /\ Head(sending[c]) \in HealthEvents
    BY <2>1, EventTail, Zenon
  <2>3. chan' \in Seq(HealthEvents)
    <3>1. chan' = chan \/ chan' = Append(chan, Head(sending[c]))
      BY <1>2, Zenon DEF Send
    <3> QED
      BY <2>2, <3>1, EventAppend, ZenonT(60) DEF HealthType
  <2>4. sending' \in [Tracked -> Seq(HealthEvents)]
    BY <1>2, <2>2, Zenon DEF Send, HealthType
  <2> QED
    BY <1>2, <2>3, <2>4, Zenon DEF Send, HealthType
<1>3. CASE Subscribe
  <2>1. replay' \in SUBSET [c : Tracked, s : {"up", "down", "minor"}]
    BY <1>3, SMTT(30) DEF Subscribe, HealthType
  <2> QED
    BY <1>3, <2>1, Zenon DEF Subscribe, HealthType
<1>4. CASE Replay
  <2>1. PICK e \in replay : replay' = replay \ {e} /\ chan' = Append(chan, e)
    BY <1>4, Zenon DEF Replay
  <2>2. e \in HealthEvents
    BY Zenon DEF HealthType, HealthEvents
  <2>3. chan' \in Seq(HealthEvents)
    BY <2>1, <2>2, EventAppend, Zenon DEF HealthType
  <2> QED
    BY <1>4, <2>1, <2>3, Zenon DEF Replay, HealthType
<1>5. CASE Handle
  <2>1. Tail(chan) \in Seq(HealthEvents)
    BY <1>5, EventTail, Zenon DEF Handle, HealthType
  <2>2. DOMAIN alarm' = Tracked
    BY <1>5, Zenon DEF Handle, AlarmAfter, HealthType
  <2> QED
    BY <1>5, <2>1, <2>2, Zenon DEF Handle, HealthType
<1> QED
  BY <1>1, <1>2, <1>3, <1>4, <1>5, HealthMoves, Zenon DEF HealthType

(* What a reporter has left to send is at most the change of the overall state *)
LEMMA RestToSend ==
  ASSUME HealthConstants, HealthType, SendingInv, NEW c \in Tracked, sending[c] # <<>>
  PROVE  /\ Len(Tail(sending[c])) <= 2 /\ Len(Tail(sending[c])) # 2
         /\ Tail(sending[c]) # <<>> => Head(Tail(sending[c])) = StateChange
<1>1. sending[c] \in Seq(HealthEvents) /\ Len(sending[c]) <= 2
      /\ (Len(sending[c]) = 2 => sending[c][2] = StateChange)
  BY Zenon DEF HealthType, SendingInv
<1>2. /\ Tail(sending[c]) \in Seq(HealthEvents) /\ Len(sending[c]) \in Nat \ {0}
      /\ Len(Tail(sending[c])) = Len(sending[c]) - 1
      /\ \A i \in 1..(Len(sending[c]) - 1) : Tail(sending[c])[i] = sending[c][i + 1]
  BY <1>1, EventTail, Zenon
<1>3. Len(Tail(sending[c])) <= 2 /\ Len(Tail(sending[c])) # 2
  BY <1>1, <1>2, AtMostTwo, Zenon
<1>4. ASSUME Tail(sending[c]) # <<>>
      PROVE  Head(Tail(sending[c])) = StateChange
  <2>1. Len(Tail(sending[c])) # 0 /\ Head(Tail(sending[c])) = Tail(sending[c])[1]
    BY <1>2, <1>4, EventTail, Zenon
  <2>2. Len(sending[c]) = 2
    BY <1>1, <1>2, <2>1, AtMostTwo, ZenonT(60)
  <2>3. Tail(sending[c])[1] = sending[c][2]
    BY <1>2, <2>2
  <2> QED
    BY <1>1, <2>1, <2>2, <2>3, Zenon
<1> QED
  BY <1>3, <1>4, Zenon

LEMMA SendingStep ==
  ASSUME HealthConstants, HealthType, SendingInv, SubInv, HealthNext
  PROVE  SendingInv'
<1> DEFINE Shape(c) == /\ Len(sending[c]) <= 2
                       /\ Len(sending[c]) = 2 => sending[c][2] = StateChange
                       /\ sending[c] # <<>> => Head(sending[c]).c \in {c, "all"}
                       /\ Deciding(c) => IsDue(Head(sending[c]), c)
<1>1. SUFFICES ASSUME NEW d \in Tracked
               PROVE  Shape(d)'
  BY Zenon DEF SendingInv
<1>2. Shape(d)
  BY Zenon DEF SendingInv
<1>3. ASSUME sending'[d] = sending[d], due'[d] = due[d]
      PROVE  Shape(d)'
  BY <1>2, <1>3, Zenon DEF Deciding, Decides, IsDue, StateChange
<1>4. ASSUME NEW c \in Tracked, NEW s \in {"up", "down", "minor"}, NEW changed \in BOOLEAN,
             Reporting(c, s, changed)
      PROVE  Shape(d)'
  <2>1. CASE d # c
    BY <1>3, <1>4, <2>1, Zenon DEF Reporting, HealthType
  <2>2. CASE d = c /\ sending'[c] = <<>>
    BY <2>2, SMTT(30) DEF Deciding
  <2>3. CASE d = c /\ sending'[c] # <<>>
    <3>1. Registered /\ sending'[c] = Events(c, s, changed)
      BY <1>4, <2>3, Zenon DEF Reporting, HealthType
    <3>2. /\ Len(sending'[c]) <= 2
          /\ Len(sending'[c]) = 2 => sending'[c][2] = StateChange
          /\ \/ Head(sending'[c]) = [c |-> c, s |-> s]
             \/ Head(sending'[c]) = StateChange
      BY <2>3, <3>1, EventsFacts, SMTT(30)
    <3>3. (s = "up" => due'[c] = FALSE) /\ (s = "down" => due'[c] = TRUE)
      BY <1>4, <3>1, ZenonT(60) DEF Reporting, HealthType
    <3> QED
      BY <2>3, <3>2, <3>3, SMTT(30) DEF Deciding, Decides, IsDue, StateChange
  <2> QED
    BY <2>1, <2>2, <2>3, Zenon
<1>5. ASSUME NEW c \in Tracked, Send(c)
      PROVE  Shape(d)'
  <2>1. sending[c] # <<>> /\ sending'[c] = Tail(sending[c]) /\ due' = due
        /\ \A x \in Tracked \ {c} : sending'[x] = sending[x]
    BY <1>5, Zenon DEF Send, HealthType
  <2>2. CASE d # c
    BY <1>3, <2>1, <2>2, Zenon
  <2>3. CASE d = c
    <3>1. /\ Len(sending'[c]) <= 2 /\ Len(sending'[c]) # 2
          /\ sending'[c] # <<>> => Head(sending'[c]) = StateChange
      BY <2>1, RestToSend, Zenon
    <3> QED
      BY <2>3, <3>1, SMTT(30) DEF Deciding, Decides, StateChange, HealthConstants
  <2> QED
    BY <2>2, <2>3, Zenon
<1>6. CASE Subscribe
  <2>1. sending[d] = <<>> /\ sending' = sending
    BY <1>6, Zenon DEF Subscribe, SubInv
  <2> QED
    BY <2>1, <1>2, Zenon DEF Deciding
<1>7. CASE UNCHANGED <<sending, due>>
  BY <1>3, <1>7, Zenon
<1> QED
  BY <1>4, <1>5, <1>6, <1>7, HealthMoves, ZenonT(60) DEF Replay, Handle

LEMMA SubStep ==
  ASSUME HealthConstants, HealthType, SubInv, HealthNext, ~panicked'
  PROVE  SubInv'
<1> USE DEF Registered
<1>1. ASSUME NEW c \in Tracked, NEW s \in {"up", "down", "minor"}, NEW changed \in BOOLEAN,
             Reporting(c, s, changed)
      PROVE  SubInv'
  <2>1. UNCHANGED <<sub, replay, chan, alarm>> /\ sub \notin {"closed", "done"}
    BY <1>1, Zenon DEF Reporting
  <2>2. CASE sub = "none"
    <3>1. \A d \in Tracked : sending'[d] = <<>> /\ due' = due
      BY <1>1, <2>2, Zenon DEF Reporting, HealthType, SubInv
    <3> QED
      BY <2>1, <2>2, <3>1, Zenon DEF SubInv
  <2>3. CASE sub # "none"
    <3>1. \A d \in Tracked \ {c} : status'[d] = status[d] /\ due'[d] = due[d]
      BY <1>1, Zenon DEF Reporting, HealthType
    <3>2. Registered
      BY <2>1, <2>3, Zenon DEF HealthType
    <3>3. status'[c] = s
      BY <1>1, Zenon DEF Reporting, HealthType
    <3>4. (s = "up" => due'[c] = FALSE) /\ (s = "down" => due'[c] = TRUE)
      BY <1>1, <3>2, ZenonT(60) DEF Reporting, HealthType
    <3> QED
      BY <2>1, <2>3, <3>1, <3>2, <3>3, <3>4, ZenonT(60) DEF SubInv
  <2> QED
    BY <2>2, <2>3, Zenon
<1>2. ASSUME NEW c \in Tracked, Send(c)
      PROVE  SubInv'
  <2>1. sub # "none"
    BY <1>2, Zenon DEF Send, SubInv
  <2> QED
    BY <1>2, <2>1, Zenon DEF Send, SubInv
<1>3. CASE Subscribe
  <2>1. sub' = "replay" /\ status' = status
    BY <1>3, Zenon DEF Subscribe
  <2>2. \A c \in Tracked : /\ status[c] = "up" => due'[c] = FALSE
                           /\ status[c] = "down" => due'[c] = TRUE
    BY <1>3, ZenonT(60) DEF Subscribe
  <2>3. \A e, f \in replay' : e.c = f.c => e = f
    BY <1>3, SMTT(30) DEF Subscribe
  <2> QED
    BY <2>1, <2>2, <2>3, Zenon DEF SubInv
<1>4. CASE Replay
  BY <1>4, Zenon DEF Replay, SubInv
<1>5. CASE Handle
  <2>1. sub # "none" /\ UNCHANGED <<status, sending, sub, replay, due>>
    BY <1>5, Zenon DEF Handle
  <2> QED
    BY <2>1, Zenon DEF SubInv, Registered
<1>6. ASSUME UNCHANGED <<status, sending, replay, chan, alarm, panicked, due, dropped, overtaken>>,
             \/ sub' = sub
             \/ sub = "replay" /\ replay = {} /\ sub' = "live"
             \/ sub = "live" /\ sub' = "closed"
             \/ sub = "closed" /\ sub' = "done"
      PROVE  SubInv'
  BY <1>6, Zenon DEF SubInv
<1> QED
  BY <1>1, <1>2, <1>3, <1>4, <1>5, <1>6, HealthMoves, Zenon

(* An event is sent to the channel *)
LEMMA LastAppended ==
  ASSUME HealthType, NEW c \in Tracked, NEW e \in HealthEvents,
         chan' = Append(chan, e), UNCHANGED <<alarm, due>>
  PROVE  /\ Decides(e, c) /\ IsDue(e, c) => LastSays(c)'
         /\ ~Decides(e, c) /\ LastSays(c) => LastSays(c)'
         /\ InChannel(c)' <=> InChannel(c) \/ e.c = c
<1>1. /\ Len(chan') = Len(chan) + 1 /\ Len(chan) \in Nat
      /\ \A i \in 1..Len(chan) : chan'[i] = chan[i]
      /\ chan'[Len(chan) + 1] = e
  BY EventAppend, Zenon DEF HealthType
<1>2. \A x : IsDue(x, c)' = IsDue(x, c)
  BY Zenon DEF IsDue
<1>3. ASSUME Decides(e, c), IsDue(e, c) PROVE LastSays(c)'
  <2>1. Len(chan) + 1 \in 1..Len(chan') /\ (Len(chan) + 2)..Len(chan') = {}
    BY <1>1
  <2> QED
    BY <1>1, <1>2, <1>3, <2>1, SMTT(30) DEF LastSays, Decides
<1>4. ASSUME ~Decides(e, c), LastSays(c) PROVE LastSays(c)'
  <2>1. \A j \in 1..Len(chan') : j \in 1..Len(chan) \/ ~Decides(chan'[j], c)
    BY <1>1, <1>4, SMTT(30)
  <2>2. CASE \A i \in 1..Len(chan) : ~Decides(chan[i], c)
    <3>1. alarm[c] = due[c]
      BY <1>4, <2>2, Zenon DEF LastSays
    <3> QED
      BY <1>1, <2>1, <2>2, <3>1, SMTT(30) DEF LastSays, Decides
  <2>3. CASE \E i \in 1..Len(chan) : Decides(chan[i], c)
    <3>1. PICK i \in 1..Len(chan) :
            /\ Decides(chan[i], c) /\ IsDue(chan[i], c)
            /\ \A j \in (i + 1)..Len(chan) : ~Decides(chan[j], c)
      BY <1>4, <2>3, Zenon DEF LastSays
    <3>2. i \in 1..Len(chan') /\ chan'[i] = chan[i]
      BY <1>1, SMTT(30)
    <3>3. \A j \in (i + 1)..Len(chan') : ~Decides(chan'[j], c)
      BY <1>1, <2>1, <3>1, SMTT(30)
    <3> QED
      BY <1>2, <3>1, <3>2, <3>3, ZenonT(60) DEF LastSays, Decides
  <2> QED
    BY <2>2, <2>3, Zenon
<1>5. InChannel(c)' <=> InChannel(c) \/ e.c = c
  BY <1>1 DEF InChannel
<1> QED
  BY <1>3, <1>4, <1>5, Zenon

(* The service handles an event *)
LEMMA LastHandled ==
  ASSUME HealthConstants, HealthType, NEW c \in Tracked, LastSays(c), Handle
  PROVE  LastSays(c)'
<1>1. /\ chan # <<>> /\ chan' = Tail(chan) /\ alarm' = AlarmAfter(Head(chan)) /\ due' = due
  BY Zenon DEF Handle
<1>2. /\ Len(chan) \in Nat \ {0} /\ Len(chan') = Len(chan) - 1
      /\ \A i \in 1..(Len(chan) - 1) : chan'[i] = chan[i + 1]
      /\ Head(chan) = chan[1] /\ chan[1] \in HealthEvents
  BY <1>1, EventTail, Zenon DEF HealthType
<1>3. \A x : IsDue(x, c)' = IsDue(x, c)
  BY <1>1, Zenon DEF IsDue
<1>4. ~Decides(chan[1], c) => alarm'[c] = alarm[c]
  BY <1>1, <1>2, Zenon DEF AlarmAfter, Decides, HealthType
<1>5. Decides(chan[1], c) /\ IsDue(chan[1], c) => alarm'[c] = due[c]
  BY <1>1, <1>2, ZenonT(60) DEF AlarmAfter, Decides, IsDue, HealthType
<1>6. CASE \A i \in 1..Len(chan) : ~Decides(chan[i], c)
  <2>1. alarm[c] = due[c]
    BY <1>6, Zenon DEF LastSays
  <2>2. ASSUME NEW i \in 1..Len(chan') PROVE ~Decides(chan'[i], c)
    <3>1. i + 1 \in 1..Len(chan) /\ chan'[i] = chan[i + 1]
      BY <1>2, SMTT(30)
    <3> QED
      BY <1>6, <3>1, Zenon
  <2>3. alarm'[c] = due'[c]
    BY <1>1, <1>2, <1>4, <1>6, <2>1
  <2> QED
    BY <2>2, <2>3, ZenonT(60) DEF LastSays, Decides
<1>7. CASE \E i \in 1..Len(chan) : Decides(chan[i], c)
  <2>1. PICK i \in 1..Len(chan) :
          /\ Decides(chan[i], c) /\ IsDue(chan[i], c)
          /\ \A j \in (i + 1)..Len(chan) : ~Decides(chan[j], c)
    BY <1>7, Zenon DEF LastSays
  <2>2. ASSUME NEW j \in i..Len(chan') PROVE ~Decides(chan'[j], c)
    <3>1. j + 1 \in (i + 1)..Len(chan) /\ chan'[j] = chan[j + 1]
      BY <1>2, SMTT(30)
    <3> QED
      BY <2>1, <3>1, Zenon
  <2>3. CASE i = 1
    <3>1. alarm'[c] = due'[c]
      BY <1>1, <1>5, <2>1, <2>3, ZenonT(60)
    <3> QED
      BY <2>2, <2>3, <3>1, Zenon DEF LastSays, Decides
  <2>4. CASE i # 1
    <3>1. i - 1 \in 1..Len(chan') /\ chan'[i - 1] = chan[i] /\ (i - 1) + 1 = i
      BY <1>2, <2>4
    <3> QED
      BY <1>3, <2>1, <2>2, <3>1, ZenonT(60) DEF LastSays, Decides
  <2> QED
    BY <2>3, <2>4, Zenon
<1> QED
  BY <1>6, <1>7, Zenon

(* A report makes due what its event will decide *)
LEMMA FollowReport ==
  ASSUME HealthConstants, HealthType, SubInv, NEW d \in Tracked, WillFollow(d),
         NEW c \in Tracked, NEW s \in {"up", "down", "minor"}, NEW changed \in BOOLEAN,
         Reporting(c, s, changed)
  PROVE  WillFollow(d)'
<1>0. UNCHANGED <<replay, chan, alarm>> /\ sending[c] = <<>>
  BY Zenon DEF Reporting
<1>1. CASE d # c
  <2>1. sending'[d] = sending[d] /\ due'[d] = due[d]
    BY <1>1, Zenon DEF Reporting, HealthType
  <2> QED
    BY <1>0, <2>1, Zenon DEF WillFollow, Deciding, InReplay, InChannel, LastSays, IsDue, Decides
<1>2. CASE d = c /\ Registered /\ s # "minor" /\ changed
  <2>1. sending'[c] # <<>> /\ Head(sending'[c]) = [c |-> c, s |-> s]
    BY <1>2, EventsFacts, ZenonT(60) DEF Reporting, HealthType
  <2>2. s \in {"up", "down"} /\ [c |-> c, s |-> s].c = c /\ [c |-> c, s |-> s].s = s
    BY <1>2, Zenon
  <2>3. Deciding(c)'
    BY <2>1, <2>2, Zenon DEF Deciding, Decides
  <2> QED
    BY <1>2, <2>3, ZenonT(60) DEF WillFollow
<1>3. CASE d = c /\ ~(Registered /\ s # "minor" /\ changed)
  <2>1. due'[c] = due[c]
    <3>1. CASE Registered /\ s # "minor"
      <4>1. status[c] = s
        BY <1>3, <3>1, Zenon DEF Reporting
      <4>2. (s = "up" => due[c] = FALSE) /\ (s = "down" => due[c] = TRUE)
        BY <3>1, <4>1, Zenon DEF SubInv
      <4>3. (s = "up" => due'[c] = FALSE) /\ (s = "down" => due'[c] = TRUE)
        BY <3>1, Zenon DEF Reporting, HealthType
      <4>4. s = "up" \/ s = "down"
        BY <3>1, Zenon
      <4>5. CASE s = "up"
        BY <4>2, <4>3, <4>5, Zenon
      <4>6. CASE s = "down"
        BY <4>2, <4>3, <4>6, ZenonT(60)
      <4> QED
        BY <4>4, <4>5, <4>6, Zenon
    <3>2. CASE ~(Registered /\ s # "minor")
      BY <3>2, Zenon DEF Reporting
    <3> QED
      BY <3>1, <3>2, Zenon
  <2>2. ~Deciding(c) /\ ~Deciding(c)'
    <3>1. CASE sending'[c] = <<>>
      BY <1>0, <3>1, Zenon DEF Deciding
    <3>2. CASE sending'[c] # <<>>
      <4>1. Registered /\ sending'[c] = Events(c, s, changed)
        BY <3>2, Zenon DEF Reporting, HealthType
      <4>2. \/ changed /\ s = "minor" /\ Head(sending'[c]) = [c |-> c, s |-> s]
            \/ Head(sending'[c]) = StateChange
        BY <1>3, <3>2, <4>1, EventsFacts, SMTT(30)
      <4> QED
        BY <1>0, <4>2, SMTT(30) DEF Deciding, Decides, StateChange
    <3> QED
      BY <3>1, <3>2, Zenon
  <2> QED
    BY <1>0, <1>3, <2>1, <2>2, ZenonT(60) DEF WillFollow, InReplay, InChannel, LastSays, IsDue, Decides
<1> QED
  BY <1>1, <1>2, <1>3, Zenon

(* An event is taken from its reporter *)
LEMMA FollowSend ==
  ASSUME HealthConstants, HealthType, SendingInv, NEW c \in Tracked, Send(c), ~panicked',
         NEW d \in Tracked \ (dropped' \cup overtaken'),
         d \in Tracked \ (dropped \cup overtaken) => WillFollow(d)
  PROVE  WillFollow(d)'
<1> DEFINE e == Head(sending[c])
<1>0. /\ sending[c] \in Seq(HealthEvents) /\ sending[c] # <<>> /\ e \in HealthEvents
      /\ sending' = [sending EXCEPT ![c] = Tail(sending[c])]
      /\ UNCHANGED <<replay, alarm, due>>
  BY EventTail, SMTT(30) DEF Send, HealthType
<1>1. ~Deciding(c)'
  <2>1. sending'[c] = Tail(sending[c])
    BY <1>0, Zenon DEF HealthType
  <2>2. sending'[c] # <<>> => Head(sending'[c]) = StateChange
    BY <1>0, <2>1, RestToSend, ZenonT(60)
  <2> QED
    BY <2>2, SMTT(30) DEF Deciding, Decides, StateChange, HealthConstants
<1>2. CASE chan' = Append(chan, e)
           /\ dropped' = (IF e.s = "minor" THEN dropped ELSE dropped \ {e.c})
           /\ overtaken' = (IF e.s = "minor" THEN overtaken ELSE overtaken \ {e.c})
  <2>1. /\ Decides(e, d) /\ IsDue(e, d) => LastSays(d)'
        /\ ~Decides(e, d) /\ LastSays(d) => LastSays(d)'
        /\ InChannel(d)' <=> InChannel(d) \/ e.c = d
    BY <1>0, <1>2, LastAppended, Zenon
  <2>2. CASE Decides(e, d)
    <3>1. d = c
      BY <1>0, <2>2, Zenon DEF SendingInv, Decides, HealthConstants
    <3>2. IsDue(e, d)
      BY <1>0, <2>2, <3>1, Zenon DEF SendingInv, Deciding
    <3> QED
      BY <1>1, <2>1, <2>2, <3>1, <3>2, ZenonT(60) DEF WillFollow, Decides
  <2>3. CASE ~Decides(e, d)
    <3>1. WillFollow(d)
      <4>1. e.s = "minor" \/ e.c # d
        BY <1>0, <2>3 DEF Decides, HealthEvents, StateChange, HealthConstants
      <4> QED
        BY <1>2, <4>1, ZenonT(60)
    <3>2. Deciding(d)' = Deciding(d)
      <4>1. CASE d = c
        BY <1>1, <2>3, <4>1, Zenon DEF Deciding
      <4>2. CASE d # c
        BY <1>0, <4>2, Zenon DEF Deciding, HealthType
      <4> QED
        BY <4>1, <4>2, Zenon
    <3>3. InReplay(d)' = InReplay(d) /\ \A x : IsDue(x, d)' = IsDue(x, d)
      BY <1>0, Zenon DEF InReplay, IsDue
    <3> QED
      BY <1>0, <2>1, <2>3, <3>1, <3>2, <3>3, ZenonT(60) DEF WillFollow
  <2> QED
    BY <2>2, <2>3, Zenon
<1>3. CASE chan' = chan /\ dropped' = dropped \cup ({e.c} \cap Tracked) /\ overtaken' = overtaken
  <2>1. WillFollow(d) /\ e.c # d
    BY <1>3, Zenon
  <2>2. Deciding(d)' = Deciding(d)
    <3>1. CASE d = c
      BY <1>1, <2>1, <3>1, Zenon DEF Deciding, Decides
    <3>2. CASE d # c
      BY <1>0, <3>2, Zenon DEF Deciding, HealthType
    <3> QED
      BY <3>1, <3>2, Zenon
  <2>3. Deciding(d) => sending'[d] = sending[d]
    BY <1>0, <2>1, Zenon DEF Deciding, Decides, HealthType
  <2> QED
    BY <1>0, <1>3, <2>1, <2>2, <2>3, ZenonT(60) DEF WillFollow, InReplay, InChannel, LastSays, IsDue, Decides
<1> QED
  BY <1>2, <1>3, Zenon DEF Send, Registered

(* A status of the replay is sent *)
LEMMA FollowReplay ==
  ASSUME HealthConstants, HealthType, SubInv, Replay,
         NEW d \in Tracked \ (dropped' \cup overtaken'),
         d \in Tracked \ (dropped \cup overtaken) => WillFollow(d)
  PROVE  WillFollow(d)'
<1>1. PICK e \in replay :
        /\ replay' = replay \ {e} /\ chan' = Append(chan, e)
        /\ overtaken' = IF \E i \in DOMAIN chan : chan[i].c = e.c
                        THEN overtaken \cup {e.c} ELSE overtaken
  BY ZenonT(60) DEF Replay
<1>2. UNCHANGED <<sending, alarm, due, dropped>> /\ e \in HealthEvents
  BY Zenon DEF Replay, HealthType, HealthEvents
<1>3. WillFollow(d)
  BY <1>1, <1>2, Zenon
<1>4. /\ Decides(e, d) /\ IsDue(e, d) => LastSays(d)'
      /\ ~Decides(e, d) /\ LastSays(d) => LastSays(d)'
      /\ InChannel(d)' <=> InChannel(d) \/ e.c = d
  BY <1>1, <1>2, LastAppended, ZenonT(60)
<1>5. Deciding(d)' = Deciding(d) /\ \A x : IsDue(x, d)' = IsDue(x, d)
  BY <1>2, Zenon DEF Deciding, IsDue
<1>6. CASE e.c = d
  <2>1. ~InChannel(d)
    <3>1. DOMAIN chan = 1..Len(chan)
      BY SMTT(30) DEF HealthType
    <3> QED
      BY <1>1, <1>6, <3>1, Zenon DEF InChannel
  <2>2. ~Deciding(d) => IsDue(e, d) /\ (e.s = "minor" => LastSays(d))
    BY <1>3, <1>6, <2>1, Zenon DEF WillFollow
  <2>3. e.s \in {"up", "down", "minor"}
    BY Zenon DEF HealthType
  <2>4. ~Deciding(d) => LastSays(d)'
    BY <1>4, <1>6, <2>2, <2>3, Zenon DEF Decides
  <2> QED
    BY <1>4, <1>5, <1>6, <2>4, Zenon DEF WillFollow
<1>7. CASE e.c # d
  <2>1. InReplay(d)' = InReplay(d)
    BY <1>1, <1>7, Zenon DEF InReplay
  <2>2. LastSays(d) => LastSays(d)'
    BY <1>4, <1>7, Zenon DEF Decides
  <2> QED
    BY <1>1, <1>3, <1>4, <1>5, <2>1, <2>2, ZenonT(60) DEF WillFollow
<1> QED
  BY <1>6, <1>7, Zenon

LEMMA FollowStep ==
  ASSUME HealthConstants, HealthType, SendingInv, SubInv, HealthNext, ~panicked',
         \A c \in Tracked \ (dropped \cup overtaken) : WillFollow(c),
         NEW d \in Tracked \ (dropped' \cup overtaken')
  PROVE  WillFollow(d)'
<1>1. ASSUME NEW c \in Tracked, NEW s \in {"up", "down", "minor"}, NEW changed \in BOOLEAN,
             Reporting(c, s, changed)
      PROVE  WillFollow(d)'
  BY <1>1, FollowReport, ZenonT(60) DEF Reporting
<1>2. ASSUME NEW c \in Tracked, Send(c)
      PROVE  WillFollow(d)'
  BY <1>2, FollowSend, Zenon
<1>3. CASE Subscribe
  <2>1. /\ chan' = chan /\ sending' = sending /\ alarm' = alarm
        /\ chan = <<>> /\ sending[d] = <<>>
        /\ replay' = {[c |-> c, s |-> status[c]] : c \in {x \in Tracked : status[x] # "none"}}
        /\ due'[d] = IF status[d] \in {"up", "down"} THEN status[d] = "down" ELSE alarm[d]
    BY <1>3, ZenonT(60) DEF Subscribe, SubInv
  <2>2. status[d] \notin {"up", "down"} => LastSays(d)'
    <3>1. 1..Len(chan') = {}
      BY <2>1
    <3> QED
      BY <2>1, <3>1, ZenonT(60) DEF LastSays
  <2>3. ASSUME NEW e \in replay', e.c = d
        PROVE  IsDue(e, d)' /\ (e.s = "minor" => LastSays(d)')
    <3>1. PICK x \in Tracked : e = [c |-> x, s |-> status[x]]
      BY <2>1, <2>3, Zenon
    <3>2. e.s = status[d]
      BY <2>3, <3>1, Zenon
    <3> QED
      BY <2>1, <2>2, <3>2, Zenon DEF IsDue
  <2>4. ~InReplay(d)' => status[d] = "none"
    <3>1. status[d] # "none" => [c |-> d, s |-> status[d]] \in replay'
      BY <2>1, Zenon
    <3> QED
      BY <3>1, Zenon DEF InReplay
  <2> QED
    BY <2>2, <2>3, <2>4, Zenon DEF WillFollow
<1>4. CASE Replay
  BY <1>4, FollowReplay, Zenon
<1>5. CASE Handle
  <2>1. UNCHANGED <<sending, replay, due, dropped, overtaken>> /\ replay = {}
    BY <1>5, ZenonT(60) DEF Handle, SubInv
  <2>2. Deciding(d)' = Deciding(d) /\ WillFollow(d)
    BY <2>1, Zenon DEF Deciding
  <2>3. LastSays(d) => LastSays(d)'
    BY <1>5, LastHandled, Zenon
  <2> QED
    BY <2>1, <2>2, <2>3, Zenon DEF WillFollow, InReplay
<1>6. CASE UNCHANGED <<status, sending, replay, chan, alarm, panicked, due, dropped, overtaken>>
  BY <1>6, ZenonT(60) DEF WillFollow, Deciding, InReplay, InChannel, LastSays, IsDue
<1> QED
  BY <1>1, <1>2, <1>3, <1>4, <1>5, <1>6, HealthMoves, Zenon

LEMMA HealthInvHolds ==
  ASSUME HealthConstants
  PROVE  HealthSpec => []HealthInv
<1>1. HealthInit => HealthInv
  <2> SUFFICES ASSUME HealthInit PROVE HealthInv
    BY Zenon
  <2>1. HealthType
    BY SMTT(30) DEF HealthInit, HealthType
  <2>2. SendingInv /\ SubInv
    BY SMTT(30) DEF HealthInit, SendingInv, SubInv, Deciding, Registered
  <2>3. \A c \in Tracked : LastSays(c)
    BY DEF HealthInit, LastSays
  <2> QED
    BY <2>1, <2>2, <2>3, Zenon DEF HealthInv, WillFollow, HealthInit
<1>2. HealthInv /\ [HealthNext]_healthVars => HealthInv'
  <2> SUFFICES ASSUME HealthInv, [HealthNext]_healthVars PROVE HealthInv'
    BY Zenon
  <2>1. CASE HealthNext
    <3>1. HealthType' /\ ~panicked
      BY <2>1, HealthTypeStep, HealthMoves, Zenon DEF HealthInv
    <3>2. ASSUME ~panicked' PROVE SendingInv' /\ SubInv'
      BY <2>1, <3>1, <3>2, SendingStep, SubStep, Zenon DEF HealthInv
    <3>3. ASSUME ~panicked', NEW d \in Tracked \ (dropped' \cup overtaken') PROVE WillFollow(d)'
      BY <2>1, <3>1, <3>3, FollowStep, Zenon DEF HealthInv
    <3> QED
      BY <3>1, <3>2, <3>3, Zenon DEF HealthInv
  <2>2. CASE UNCHANGED healthVars
    <3>1. /\ UNCHANGED <<status, sending, sub, replay, chan, alarm, panicked>>
          /\ UNCHANGED <<due, dropped, overtaken>>
      BY <2>2, Zenon DEF healthVars
    <3>2. HealthType'
      BY <3>1, ZenonT(60) DEF HealthInv, HealthType
    <3>3. SendingInv => SendingInv'
      BY <3>1, ZenonT(60) DEF SendingInv, Deciding, Decides, IsDue, StateChange
    <3>4. SubInv => SubInv'
      BY <3>1, ZenonT(60) DEF SubInv, Registered
    <3>5. \A c \in Tracked : WillFollow(c) => WillFollow(c)'
      BY <3>1, ZenonT(60) DEF WillFollow, Deciding, InReplay, InChannel, LastSays, IsDue
    <3> QED
      BY <3>1, <3>2, <3>3, <3>4, <3>5, Zenon DEF HealthInv
  <2> QED
    BY <2>1, <2>2, Zenon
<1> QED
  BY <1>1, <1>2, PTL DEF HealthSpec

(* Once all that was sent is handled, the alarm of every component is as its last
   report says, for any number of components and any room in the channel, unless
   its latest event was dropped or was overtaken by the replay of an older status
   (Tracker.set, Tracker.Subscribe, FaultService.Run). *)
THEOREM FaultsFollowHealth ==
  ASSUME HealthConstants
  PROVE  HealthSpec => []AlarmsFollowHealth
<1>1. HealthInv => AlarmsFollowHealth
  <2> SUFFICES ASSUME HealthInv, Quiet, NEW c \in Tracked \ (dropped \cup overtaken)
               PROVE  alarm[c] = due[c]
    BY ZenonT(60) DEF AlarmsFollowHealth
  <2>1. chan = <<>> /\ sending[c] = <<>> /\ replay = {} /\ WillFollow(c)
    BY Zenon DEF Quiet, HealthInv, SubInv
  <2>2. LastSays(c)
    BY <2>1, Zenon DEF WillFollow, Deciding, InReplay
  <2>3. 1..Len(chan) = {}
    BY <2>1
  <2> QED
    BY <2>2, <2>3, Zenon DEF LastSays
<1> QED
  BY <1>1, HealthInvHolds, PTL
-----------------------------------------------------------------------------
(* The reader of the alarm log *)

(* Induction from a to b, for the members of a set. *)
LEMMA FromTo ==
  ASSUME NEW a \in Nat, NEW b \in Nat, NEW S, a \in S,
         \A n \in (a + 1)..b : n - 1 \in S => n \in S
  PROVE  \A n \in a..b : n \in S
<1> DEFINE T == {n \in a..b : n \notin S}
           R == OpToRel(<, Nat)
<1> SUFFICES ASSUME T # {} PROVE FALSE
  BY Zenon
<1>1. T \subseteq Nat
  OBVIOUS
<1> HIDE DEF T
<1>2. PICK i \in T : \A j \in T : <<j, i>> \notin R
  BY <1>1, NatLessThanWellFounded, WFMin, Zenon
<1>3. \A k, m \in Nat : m < k => <<m, k>> \in R
  BY Zenon DEF OpToRel
<1> HIDE DEF R
<1>4. i \in a..b /\ i \notin S
  BY <1>2, Zenon DEF T
<1>5. i \in (a + 1)..b
  BY <1>4
<1>6. i - 1 \in Nat /\ i \in Nat /\ i - 1 < i /\ i - 1 \in a..b
  BY <1>5
<1>7. <<i - 1, i>> \in R
  BY <1>3, <1>6, Zenon
<1>8. i - 1 \notin T
  BY <1>2, <1>7, Zenon
<1>9. i - 1 \in S
  BY <1>6, <1>8, Zenon DEF T
<1> QED
  BY <1>4, <1>5, <1>9, Zenon

(* one half of a line further *)
Reads(from, x, i) == IF EndsToken(i) THEN AfterLine(x, Says(TokenAt(from, i))) ELSE x

(* The recursion of Scanned is well founded: it goes on by one half at a time. *)
LEMMA ScannedUnfolds ==
  ASSUME NEW from \in Nat, NEW to \in Nat, from <= to
  PROVE  \E f : /\ f[from] = active
                /\ \A i \in (from + 1)..to : f[i] = Reads(from, f[i - 1], i)
                /\ Scanned(from, to) = f[to]
<1> DEFINE Rec(g, n) == g = [i \in from..n |-> IF i = from THEN active ELSE Reads(from, g[i - 1], i)]
           S == {n \in from..to : \E g : Rec(g, n)}
<1>1. from \in S
  <2> DEFINE g == [i \in from..from |-> active]
  <2>1. g = [i \in from..from |-> IF i = from THEN active ELSE Reads(from, g[i - 1], i)]
    OBVIOUS
  <2>2. from \in from..to
    OBVIOUS
  <2> HIDE DEF g
  <2>3. \E k : Rec(k, from)
    BY <2>1, Zenon
  <2> QED
    BY <2>2, <2>3, Zenon
<1>2. ASSUME NEW n \in (from + 1)..to, n - 1 \in S PROVE n \in S
  <2>1. PICK g : Rec(g, n - 1)
    BY <1>2, Zenon
  <2> DEFINE k == [i \in from..n |-> IF i = n THEN Reads(from, g[n - 1], n) ELSE g[i]]
  <2>2. \A i \in from..n : i # n => k[i] = g[i] /\ i \in from..(n - 1)
    OBVIOUS
  <2>3. \A i \in from..(n - 1) : g[i] = IF i = from THEN active ELSE Reads(from, g[i - 1], i)
    BY <2>1, Zenon
  <2>4. k[n] = Reads(from, g[n - 1], n) /\ n # from /\ n \in from..n /\ n \in from..to
    OBVIOUS
  <2>5. DOMAIN k = from..n /\ k = [i \in from..n |-> k[i]]
    BY Zenon
  <2> HIDE DEF k
  <2>6. ASSUME NEW i \in from..n
        PROVE  k[i] = IF i = from THEN active ELSE Reads(from, k[i - 1], i)
    <3>1. i # from => i - 1 \in from..n /\ i - 1 # n
      OBVIOUS
    <3>2. i # from => k[i - 1] = g[i - 1]
      BY <3>1, <2>2, Zenon
    <3>3. CASE i = n
      BY <3>2, <3>3, <2>4, Zenon
    <3>4. CASE i # n
      BY <3>2, <3>4, <2>2, <2>3, Zenon
    <3> QED
      BY <3>3, <3>4, Zenon
  <2>7. Rec(k, n)
    BY <2>5, <2>6, Zenon
  <2> QED
    BY <2>4, <2>7, Zenon
<1>3. to \in S
  <2> HIDE DEF S
  <2>1. \A n \in (from + 1)..to : n - 1 \in S => n \in S
    BY <1>2, Zenon
  <2>2. \A n \in from..to : n \in S
    BY <1>1, <2>1, FromTo, Zenon
  <2> QED
    BY <2>2
<1> DEFINE f == CHOOSE g : Rec(g, to)
<1>4. Rec(f, to)
  BY <1>3, Zenon
<1>5. Scanned(from, to) = f[to]
  BY Zenon DEF Scanned, Reads
<1> HIDE DEF f
<1>6. f[from] = active /\ \A i \in (from + 1)..to : f[i] = Reads(from, f[i - 1], i)
  BY <1>4
<1> QED
  BY <1>5, <1>6, Zenon
-----------------------------------------------------------------------------
(* in a log that begins as s says a line ends with position i; what the line says *)
Ends(s, i) == (i + s) % 2 = 0
LineAt(l, i) == Says({l[i]} \cup (IF i > 1 THEN {l[i - 1]} ELSE {}))

(* no line of l from position i to n clears the alarms *)
NoClear(l, s, i, n) == \A j \in (i + 1)..n : Ends(s, j) => LineAt(l, j) # "clear"

(* the last line from position q to n that is not followed by a clear says a *)
Raised(l, s, a, q, n) ==
  /\ a \in {"s1", "error"}
  /\ \E i \in (q + 1)..n : Ends(s, i) /\ LineAt(l, i) = a /\ NoClear(l, s, i, n)

(* what the lines of l from position q to n make of the alarms x *)
Heard(l, s, x, q, n) ==
  {a \in x \cup {"s1", "error"} : (a \in x /\ NoClear(l, s, q, n)) \/ Raised(l, s, a, q, n)}

LEMMA HeardOf ==
  ASSUME NEW l, NEW s, NEW x, NEW q, NEW n
  PROVE  \A a : a \in Heard(l, s, x, q, n) <=>
                  (a \in x /\ NoClear(l, s, q, n)) \/ Raised(l, s, a, q, n)
  BY Zenon DEF Heard, Raised

(* No line leaves the alarms as they are. *)
LEMMA HeardNothing ==
  ASSUME NEW l, NEW s, NEW x, NEW q \in Nat
  PROVE  Heard(l, s, x, q, q) = x
<1>1. (q + 1)..q = {}
  OBVIOUS
<1>2. NoClear(l, s, q, q) /\ \A a : ~Raised(l, s, a, q, q)
  BY <1>1, Zenon DEF NoClear, Raised
<1>3. \A a : a \in Heard(l, s, x, q, q) <=> a \in x
  BY <1>2, HeardOf, Zenon
<1> QED
  BY <1>3, Zenon

LEMMA NoClearStep ==
  ASSUME NEW l, NEW s, NEW n \in Nat, NEW i \in 0..n
  PROVE  NoClear(l, s, i, n + 1) <=>
           NoClear(l, s, i, n) /\ (Ends(s, n + 1) => LineAt(l, n + 1) # "clear")
<1>1. (i + 1)..(n + 1) = (i + 1)..n \cup {n + 1}
  OBVIOUS
<1> QED
  BY <1>1, Zenon DEF NoClear

LEMMA NoClearLess ==
  ASSUME NEW l, NEW s, NEW n \in Nat, NEW i \in Nat, NEW j \in Nat, NEW m \in Nat,
         i <= j, m <= n, NoClear(l, s, i, n)
  PROVE  NoClear(l, s, j, m)
<1>1. (j + 1)..m \subseteq (i + 1)..n
  OBVIOUS
<1> QED
  BY <1>1, Zenon DEF NoClear

LEMMA RaisedStep ==
  ASSUME NEW l, NEW s, NEW n \in Nat, NEW q \in 0..n, NEW a
  PROVE  Raised(l, s, a, q, n + 1) <=>
           \/ /\ Raised(l, s, a, q, n)
              /\ Ends(s, n + 1) => LineAt(l, n + 1) # "clear"
           \/ a \in {"s1", "error"} /\ Ends(s, n + 1) /\ LineAt(l, n + 1) = a
<1>1. (q + 1)..(n + 1) = (q + 1)..n \cup {n + 1} /\ (n + 2)..(n + 1) = {} /\ n + 1 + 1 = n + 2
  OBVIOUS
<1>2. NoClear(l, s, n + 1, n + 1)
  BY <1>1, Zenon DEF NoClear
<1>3. \A i \in (q + 1)..n : i \in 0..n
  OBVIOUS
<1>4. \A i \in (q + 1)..n : NoClear(l, s, i, n + 1) <=>
        NoClear(l, s, i, n) /\ (Ends(s, n + 1) => LineAt(l, n + 1) # "clear")
  BY <1>3, NoClearStep, Zenon
<1> QED
  BY <1>1, <1>2, <1>4, Zenon DEF Raised

LEMMA SaysOne == \A ws : Says(ws) \in {"clear", "s1", "error", "plain"}
  BY Zenon DEF Says

(* One half further, and a line if it ends there. *)
LEMMA HeardStep ==
  ASSUME NEW l, NEW s, NEW x, NEW n \in Nat, NEW q \in 0..n
  PROVE  Heard(l, s, x, q, n + 1) = IF Ends(s, n + 1)
                                   THEN AfterLine(Heard(l, s, x, q, n), LineAt(l, n + 1))
                                   ELSE Heard(l, s, x, q, n)
<1> DEFINE A == Heard(l, s, x, q, n)
           B == Heard(l, s, x, q, n + 1)
           says == LineAt(l, n + 1)
           end == Ends(s, n + 1)
<1>1. \A a : a \in A <=> (a \in x /\ NoClear(l, s, q, n)) \/ Raised(l, s, a, q, n)
  BY HeardOf, Zenon
<1>2. \A a : a \in B <=> (a \in x /\ NoClear(l, s, q, n + 1)) \/ Raised(l, s, a, q, n + 1)
  BY HeardOf, Zenon
<1>3. NoClear(l, s, q, n + 1) <=> NoClear(l, s, q, n) /\ (end => says # "clear")
  BY NoClearStep, Zenon
<1>4. \A a : Raised(l, s, a, q, n + 1) <=>
               \/ Raised(l, s, a, q, n) /\ (end => says # "clear")
               \/ a \in {"s1", "error"} /\ end /\ says = a
  BY RaisedStep, Zenon
<1>5. \A a : a \in B <=> \/ a \in A /\ (end => says # "clear")
                         \/ a \in {"s1", "error"} /\ end /\ says = a
  BY <1>1, <1>2, <1>3, <1>4, Zenon
<1>6. says \in {"clear", "s1", "error", "plain"}
  BY SaysOne, Zenon DEF LineAt
<1> HIDE DEF A, B, says, end
<1>7. B = IF end THEN AfterLine(A, says) ELSE A
  <2>1. CASE ~end
    BY <1>5, <2>1, Zenon
  <2>2. CASE end /\ says = "clear"
    <3>1. AfterLine(A, says) = {}
      BY <2>2, Zenon DEF AfterLine
    <3> QED
      BY <1>5, <2>2, <3>1, Zenon
  <2>3. CASE end /\ says \in {"s1", "error"}
    <3>1. AfterLine(A, says) = A \cup {says} /\ says # "clear"
      BY <2>3, Zenon DEF AfterLine
    <3> QED
      BY <1>5, <2>3, <3>1, Zenon
  <2>4. CASE end /\ says = "plain"
    <3>1. AfterLine(A, says) = A /\ says # "clear" /\ says \notin {"s1", "error"}
      BY <2>4, Zenon DEF AfterLine
    <3>2. \A a : a \in B <=> a \in A
      BY <1>5, <2>4, <3>1, Zenon
    <3> QED
      BY <2>4, <3>1, <3>2, Zenon
  <2> QED
    BY <1>6, <2>1, <2>2, <2>3, <2>4, Zenon
<1> QED
  BY <1>7, Zenon DEF A, B, says, end

(* Lines that have been read say nothing new when they are read again: from within
   what was read, *)
LEMMA HeardAgain ==
  ASSUME NEW l, NEW s, NEW x, NEW p \in Nat, NEW q \in Nat, NEW n \in Nat, p <= q, q <= n
  PROVE  Heard(l, s, Heard(l, s, x, p, n), q, n) = Heard(l, s, x, p, n)
<1> DEFINE A == Heard(l, s, x, p, n)
           B == Heard(l, s, A, q, n)
<1>1. \A a : a \in A <=> (a \in x /\ NoClear(l, s, p, n)) \/ Raised(l, s, a, p, n)
  BY HeardOf, Zenon
<1>2. \A a : a \in B <=> (a \in A /\ NoClear(l, s, q, n)) \/ Raised(l, s, a, q, n)
  BY HeardOf, Zenon
<1>3. \A i \in (q + 1)..n : i \in (p + 1)..n
  OBVIOUS
<1>4. \A a : Raised(l, s, a, q, n) => Raised(l, s, a, p, n)
  BY <1>3, Zenon DEF Raised
<1>5. NoClear(l, s, p, n) => NoClear(l, s, q, n)
  BY NoClearLess
<1>6. ASSUME NEW a, Raised(l, s, a, p, n), ~NoClear(l, s, q, n) PROVE Raised(l, s, a, q, n)
  <2>1. PICK i \in (p + 1)..n : Ends(s, i) /\ LineAt(l, i) = a /\ NoClear(l, s, i, n)
    BY <1>6, Zenon DEF Raised
  <2>2. i > q
    <3> SUFFICES ASSUME i <= q PROVE FALSE
      OBVIOUS
    <3> QED
      BY <1>6, <2>1, NoClearLess
  <2>3. i \in (q + 1)..n
    BY <2>2
  <2> QED
    BY <1>6, <2>1, <2>3, Zenon DEF Raised
<1>7. \A a : a \in B <=> a \in A
  BY <1>1, <1>2, <1>4, <1>5, <1>6, Zenon
<1> HIDE DEF A, B
<1>8. B = A
  BY <1>7, Zenon
<1> QED
  BY <1>8, Zenon DEF A, B

(* and from before it on. *)
LEMMA HeardBefore ==
  ASSUME NEW l, NEW s, NEW x, NEW q \in Nat, NEW p \in Nat, NEW m \in Nat, NEW n \in Nat,
         q <= p, p <= m, m <= n
  PROVE  Heard(l, s, Heard(l, s, x, p, m), q, n) = Heard(l, s, x, q, n)
<1> DEFINE A == Heard(l, s, x, p, m)
           B == Heard(l, s, A, q, n)
           C == Heard(l, s, x, q, n)
<1>1. \A a : a \in A <=> (a \in x /\ NoClear(l, s, p, m)) \/ Raised(l, s, a, p, m)
  BY HeardOf, Zenon
<1>2. \A a : a \in B <=> (a \in A /\ NoClear(l, s, q, n)) \/ Raised(l, s, a, q, n)
  BY HeardOf, Zenon
<1>3. \A a : a \in C <=> (a \in x /\ NoClear(l, s, q, n)) \/ Raised(l, s, a, q, n)
  BY HeardOf, Zenon
<1>4. NoClear(l, s, q, n) => NoClear(l, s, p, m)
  BY NoClearLess, Zenon
<1>5. ASSUME NEW a, Raised(l, s, a, p, m), NoClear(l, s, q, n) PROVE Raised(l, s, a, q, n)
  <2>1. PICK i \in (p + 1)..m : Ends(s, i) /\ LineAt(l, i) = a
    BY <1>5, Zenon DEF Raised
  <2>2. i \in (q + 1)..n /\ i \in Nat /\ q <= i
    OBVIOUS
  <2>3. NoClear(l, s, i, n)
    BY <2>2, <1>5, NoClearLess
  <2> QED
    BY <1>5, <2>1, <2>2, <2>3, Zenon DEF Raised
<1>6. \A a : a \in B <=> a \in C
  BY <1>1, <1>2, <1>3, <1>4, <1>5, Zenon
<1> HIDE DEF B, C
<1>7. B = C
  BY <1>6, Zenon
<1> QED
  BY <1>7, Zenon DEF B, C

(* What is appended to the log changes nothing of the lines it has. *)
LEMMA HeardAppended ==
  ASSUME NEW T, NEW l \in Seq(T), NEW w \in T, NEW s, NEW x, NEW q \in Nat
  PROVE  Heard(Append(l, w), s, x, q, Len(l)) = Heard(l, s, x, q, Len(l))
<1> DEFINE k == Append(l, w)
           n == Len(l)
<1>1. n \in Nat /\ \A i \in 1..n : k[i] = l[i]
  OBVIOUS
<1> HIDE DEF k, n
<1>2. \A i \in 1..n : LineAt(k, i) = LineAt(l, i)
  <2> SUFFICES ASSUME NEW i \in 1..n PROVE LineAt(k, i) = LineAt(l, i)
    BY Zenon
  <2>1. k[i] = l[i] /\ (i > 1 => k[i - 1] = l[i - 1])
    BY <1>1
  <2> QED
    BY <2>1, Zenon DEF LineAt
<1>3. \A i \in Nat : \A j \in (i + 1)..n : j \in 1..n
  BY <1>1
<1>4. \A i \in Nat : NoClear(k, s, i, n) <=> NoClear(l, s, i, n)
  BY <1>2, <1>3, Zenon DEF NoClear
<1>5. 1..n \subseteq Nat
  BY <1>1
<1>6. \A a : Raised(k, s, a, q, n) <=> Raised(l, s, a, q, n)
  BY <1>2, <1>3, <1>4, <1>5, Zenon DEF Raised
<1>7. \A a : a \in Heard(k, s, x, q, n) <=> a \in Heard(l, s, x, q, n)
  BY <1>4, <1>6, HeardOf, Zenon
<1>8. Heard(k, s, x, q, n) = Heard(l, s, x, q, n)
  BY <1>7, Zenon
<1> QED
  BY <1>8, Zenon DEF k, n

(* The scanner handles the lines between the end of one and the end of another, or
   a place within the log. *)
LEMMA ScannedIsHeard ==
  ASSUME log \in Seq(Words), start \in {0, 1}, NEW from \in Nat, NEW to \in Nat,
         from <= to, to <= Len(log), EndsLine(from), to = Len(log) => EndsLine(to)
  PROVE  Scanned(from, to) = Heard(log, start, active, from, to)
<1>1. PICK f : /\ f[from] = active
               /\ \A i \in (from + 1)..to : f[i] = Reads(from, f[i - 1], i)
               /\ Scanned(from, to) = f[to]
  BY ScannedUnfolds, Zenon
<1> DEFINE S == {i \in from..to : f[i] = Heard(log, start, active, from, i)}
<1>2. from \in S
  <2>1. from \in from..to
    OBVIOUS
  <2> QED
    BY <1>1, <2>1, HeardNothing
<1>3. ASSUME NEW n \in (from + 1)..to, n - 1 \in S PROVE n \in S
  <2> DEFINE m == n - 1
  <2>1. m \in Nat /\ m + 1 = n /\ from \in 0..m /\ n \in from..to /\ n - 1 = m
    OBVIOUS
  <2> HIDE DEF m
  <2>2. f[m] = Heard(log, start, active, from, m)
    BY <1>3, <2>1, Zenon
  <2>3. f[n] = Reads(from, f[m], n)
    BY <1>1, <2>1, Zenon
  <2>4. EndsToken(n) <=> Ends(start, n)
    <3>1. n = Len(log) => n = to
      BY <2>1
    <3> QED
      BY <3>1, Zenon DEF EndsToken, EndsLine, Ends
  <2>5. Ends(start, n) => TokenAt(from, n) = {log[n]} \cup (IF n > 1 THEN {log[n - 1]} ELSE {})
    <3> SUFFICES ASSUME Ends(start, n)
                 PROVE  TokenAt(from, n) = {log[n]} \cup (IF n > 1 THEN {log[n - 1]} ELSE {})
      BY Zenon
    <3>1. ~EndsLine(n - 1)
      BY <2>1 DEF EndsLine, Ends
    <3>2. n - 1 # from
      BY <3>1, Zenon
    <3>3. n > from + 1 /\ n > 1
      BY <3>2, <2>1
    <3> QED
      BY <3>1, <3>3, Zenon DEF TokenAt
  <2>6. Heard(log, start, active, from, n) =
          IF Ends(start, n) THEN AfterLine(Heard(log, start, active, from, m), LineAt(log, n))
          ELSE Heard(log, start, active, from, m)
    BY <2>1, HeardStep
  <2>7. f[n] = Heard(log, start, active, from, n)
    BY <2>2, <2>3, <2>4, <2>5, <2>6, Zenon DEF Reads, LineAt
  <2> QED
    BY <2>1, <2>7, Zenon
<1>4. to \in S
  <2> HIDE DEF S
  <2>1. \A n \in from..to : n \in S
    BY <1>2, <1>3, FromTo, Zenon
  <2> QED
    BY <2>1
<1> QED
  BY <1>1, <1>4, Zenon

(* What was handled in this run is before the offset, and is nothing when the log has
   become shorter than that, so that the reader starts again with lines it has not
   read. *)
OnceInv ==
  /\ log \in Seq(Words)
  /\ offset \in Nat /\ handled \in Nat
  /\ handled <= offset /\ handled <= Len(log)
  /\ Len(log) < offset => handled = 0

(* how far the log as it is now has been read *)
Pos == IF handled = offset THEN offset ELSE 0

(* the lines from any place up to there make of the alarms what they should be *)
Caught == \A q \in 0..Pos : EndsLine(q) => Heard(log, start, active, q, Len(log)) = truth

(* The inductive invariant.  A log that was not truncated in the middle of a line
   begins with a line, and the reader has stopped at the end of one.  The alarms are
   as they should be if the log is empty or has been read; and they will be if it is
   read from any place that has been read before, the beginning after a restart. *)
LogInv ==
  /\ OnceInv
  /\ wrote \in Nat /\ start \in {0, 1}
  /\ log = <<>> => start = wrote % 2
  /\ current => log = <<>> \/ offset = Len(log)
  /\ ~lost /\ log # <<>> => start = 0
  /\ ~torn /\ handled = offset /\ offset > 0 => EndsLine(offset)
  /\ ~torn /\ ~lost /\ (log = <<>> \/ current) => active = truth
  /\ ~torn /\ ~lost => Caught

LEMMA LogInitially == LogInit => LogInv
<1> SUFFICES ASSUME LogInit PROVE LogInv
  BY Zenon
<1>1. /\ log = <<>> /\ start = 0 /\ offset = 0 /\ active = {} /\ wrote = 0 /\ truth = {}
      /\ handled = 0
  BY Zenon DEF LogInit
<1>2. <<>> \in Seq(Words) /\ Len(<<>>) = 0 /\ 0 % 2 = 0
  OBVIOUS
<1>3. OnceInv
  BY <1>1, <1>2 DEF OnceInv
<1>4. Caught
  <2>1. Heard(log, start, active, 0, 0) = active
    BY HeardNothing
  <2>2. 0..Pos = {0}
    BY <1>1 DEF Pos
  <2> QED
    BY <1>1, <1>2, <2>1, <2>2, Zenon DEF Caught
<1> QED
  BY <1>1, <1>2, <1>3, <1>4 DEF LogInv

LEMMA LogWrite == ASSUME LogInv, NEW w \in Words, Write(w) PROVE LogInv'
<1> DEFINE n == Len(log)
<1>1. /\ OnceInv
      /\ log \in Seq(Words) /\ n \in Nat /\ start \in {0, 1} /\ wrote \in Nat
      /\ offset \in Nat /\ handled \in Nat
  BY DEF LogInv, OnceInv
<1>2. /\ wrote' = wrote + 1 /\ log' = Append(log, w) /\ current' = FALSE
      /\ lost' = (lost \/ (wrote % 2 = 1 /\ log = <<>>))
      /\ UNCHANGED <<start, offset, active, torn, handled>>
      /\ truth' = IF EndsLine(n + 1)
                  THEN AfterLine(truth, Says({w} \cup (IF log = <<>> THEN {} ELSE {log[n]})))
                  ELSE truth
  BY Zenon DEF Write
<1>3. log' \in Seq(Words) /\ Len(log') = n + 1 /\ log' # <<>> /\ log'[n + 1] = w
      /\ \A i \in 1..n : log'[i] = log[i]
  BY <1>1, <1>2
<1>4. OnceInv'
  BY <1>1, <1>2, <1>3 DEF OnceInv
<1>5. ~lost' => ~lost /\ start = 0 /\ start' = 0
  BY <1>1, <1>2, Zenon DEF LogInv
<1>6. ~torn /\ handled = offset /\ offset > 0 => EndsLine(offset)'
  BY <1>2, Zenon DEF LogInv, EndsLine
<1>7. ASSUME ~torn', ~lost' PROVE Caught'
  <2>1. Caught /\ ~lost
    BY <1>2, <1>5, <1>7, Zenon DEF LogInv
  <2>2. Pos' = Pos /\ Pos \in Nat /\ Pos <= n
    BY <1>1, <1>2 DEF Pos, OnceInv
  <2> SUFFICES ASSUME NEW q \in 0..Pos, EndsLine(q)'
               PROVE  Heard(log', start', active', q, n + 1) = truth'
    BY <1>3, <2>2, Zenon DEF Caught
  <2>3. Heard(log, start, active, q, n) = truth
    BY <2>1, <1>2, Zenon DEF Caught, EndsLine
  <2>4. Heard(log', start, active, q, n) = truth
    BY <2>3, <1>1, <1>2, HeardAppended
  <2>5. Heard(log', start, active, q, n + 1) =
          IF Ends(start, n + 1) THEN AfterLine(truth, LineAt(log', n + 1)) ELSE truth
    BY <2>4, <2>2, <1>1, HeardStep
  <2>6. EndsLine(n + 1) <=> Ends(start, n + 1)
    BY Zenon DEF EndsLine, Ends
  <2>7. EndsLine(n + 1) => log # <<>> /\ n + 1 > 1
    BY <1>1, <1>5, <1>7 DEF EndsLine
  <2>8. EndsLine(n + 1) => log'[n + 1 - 1] = log[n]
    BY <1>1, <1>3, <2>7
  <2>9. EndsLine(n + 1) =>
          LineAt(log', n + 1) = Says({w} \cup (IF log = <<>> THEN {} ELSE {log[n]}))
    <3> SUFFICES ASSUME EndsLine(n + 1)
                 PROVE  LineAt(log', n + 1) = Says({w} \cup (IF log = <<>> THEN {} ELSE {log[n]}))
      BY Zenon
    <3>1. LineAt(log', n + 1) = Says({log'[n + 1]} \cup {log'[n + 1 - 1]})
      BY <2>7 DEF LineAt
    <3>2. (IF log = <<>> THEN {} ELSE {log[n]}) = {log[n]}
      BY <2>7, Zenon
    <3> HIDE DEF n
    <3> QED
      BY <1>3, <2>8, <3>1, <3>2, Zenon
  <2> QED
    BY <1>2, <2>5, <2>6, <2>9, Zenon
<1> QED
  BY <1>1, <1>2, <1>3, <1>4, <1>5, <1>6, <1>7 DEF LogInv

LEMMA LogTruncate == ASSUME LogInv, Truncate PROVE LogInv'
<1>1. /\ OnceInv /\ wrote \in Nat /\ offset \in Nat /\ start \in {0, 1}
      /\ ~torn /\ ~lost /\ current => active = truth
  BY Zenon DEF LogInv, OnceInv
<1>2. /\ log' = <<>> /\ start' = wrote % 2 /\ handled' = 0
      /\ lost' = (lost \/ ~current)
      /\ UNCHANGED <<offset, active, wrote, truth, current, torn>>
  BY Zenon DEF Truncate
<1>3. <<>> \in Seq(Words) /\ Len(<<>>) = 0 /\ wrote % 2 \in {0, 1}
  BY <1>1
<1>4. OnceInv'
  BY <1>1, <1>2, <1>3 DEF OnceInv
<1>5. Pos' = 0
  BY <1>1, <1>2, Zenon DEF Pos
<1>6. ~torn' /\ ~lost' => active' = truth'
  BY <1>1, <1>2, Zenon
<1>7. ~torn' /\ ~lost' => Caught'
  <2>1. 0..Pos' = {0}
    BY <1>5
  <2>2. Heard(log', start', active', 0, 0) = active'
    BY HeardNothing
  <2> QED
    BY <1>2, <1>3, <1>6, <2>1, <2>2, Zenon DEF Caught
<1> QED
  BY <1>1, <1>2, <1>3, <1>4, <1>6, <1>7 DEF LogInv

LEMMA LogRestart == ASSUME LogInv, Restart PROVE LogInv'
<1>1. OnceInv /\ wrote \in Nat /\ start \in {0, 1}
  BY Zenon DEF LogInv
<1>2. /\ offset' = 0 /\ handled' = 0 /\ current' = FALSE
      /\ UNCHANGED <<log, start, active, wrote, truth, torn, lost>>
  BY Zenon DEF Restart
<1>3. OnceInv'
  BY <1>1, <1>2 DEF OnceInv
<1>4. Pos' = 0 /\ 0 \in 0..Pos
  BY <1>1, <1>2 DEF Pos, OnceInv
<1>5. Caught => Caught'
  <2>1. 0..Pos' = {0}
    BY <1>4
  <2>2. EndsLine(0)' <=> EndsLine(0)
    BY <1>2, Zenon DEF EndsLine
  <2> QED
    BY <1>2, <1>4, <2>1, <2>2, Zenon DEF Caught
<1> QED
  BY <1>1, <1>2, <1>3, <1>5 DEF LogInv

LEMMA LogPoll == ASSUME LogInv, Poll PROVE LogInv'
<1> DEFINE n == Len(log)
<1>1. /\ OnceInv /\ log \in Seq(Words) /\ n \in Nat /\ start \in {0, 1} /\ wrote \in Nat
      /\ offset \in Nat /\ handled \in Nat
  BY DEF LogInv, OnceInv
<1>2. /\ torn' = (torn \/ (log # <<>> /\ ~EndsLine(n)))
      /\ lost' = (lost \/ (n >= offset /\ handled < offset))
      /\ UNCHANGED <<log, start, wrote, truth>>
      /\ ~torn' => log = <<>> \/ EndsLine(n)
      /\ ~lost' => ~(n >= offset /\ handled < offset)
  BY Zenon DEF Poll
<1>3. OnceInv'
  <2>1. \/ UNCHANGED <<offset, handled>>
        \/ offset' = n /\ handled' = handled + (n - From)
    BY Zenon DEF Poll, PollAll, PollFails
  <2> QED
    BY <1>1, <1>2, <2>1 DEF OnceInv, From
<1>4. ~lost' => From = Pos /\ From \in Nat /\ From <= n
  <2> SUFFICES ASSUME ~(n >= offset /\ handled < offset)
               PROVE  From = Pos /\ From \in Nat /\ From <= n
    BY <1>2, Zenon
  <2> QED
    BY <1>1 DEF From, Pos, OnceInv
<1>5. ~lost' /\ ~torn' =>
        /\ ~lost /\ ~torn /\ Caught
        /\ log # <<>> => start = 0 /\ EndsLine(n)
        /\ log # <<>> => EndsLine(From)
  <2> SUFFICES ASSUME ~lost', ~torn', log # <<>> \/ log = <<>>
               PROVE  /\ ~lost /\ ~torn /\ Caught
                      /\ log # <<>> => start = 0 /\ EndsLine(n)
                      /\ log # <<>> => EndsLine(From)
    BY Zenon
  <2>1. ~lost /\ ~torn /\ Caught /\ (log # <<>> => start = 0 /\ EndsLine(n))
    BY <1>2, Zenon DEF LogInv
  <2>2. ASSUME log # <<>> PROVE EndsLine(From)
    <3>1. CASE From = 0
      BY <2>1, <2>2, <3>1 DEF EndsLine
    <3>2. CASE From # 0
      BY <2>1, <1>1, <1>4, <3>2 DEF LogInv, Pos
    <3> QED
      BY <3>1, <3>2, Zenon
  <2> QED
    BY <2>1, <2>2, Zenon
<1>6. CASE PollAll(From)
  <2>1. active' = Scanned(From, n) /\ offset' = n /\ handled' = handled + (n - From) /\ current' = TRUE
    BY <1>6, Zenon DEF PollAll
  <2>2. ~torn' /\ handled' = offset' /\ offset' > 0 => EndsLine(offset)'
    <3> SUFFICES ASSUME log = <<>> \/ EndsLine(n), n > 0
                 PROVE  EndsLine(offset)'
      BY <1>2, <2>1, Zenon
    <3> QED
      BY <1>1, <1>2, <2>1 DEF EndsLine
  <2>3. ASSUME ~torn', ~lost' PROVE active' = truth /\ Caught'
    <3>1. CASE log = <<>>
      <4>1. n = 0 /\ From = 0
        BY <1>4, <2>3, <3>1
      <4>2. EndsLine(0) => Heard(log, start, active, 0, 0) = truth
        BY <1>5, <2>3, <4>1, <1>4 DEF Caught
      <4>3. active = truth
        BY <1>5, <2>3, <3>1, Zenon DEF LogInv
      <4>4. active' = active
        <5>1. PICK f : f[0] = active /\ Scanned(0, 0) = f[0]
          BY ScannedUnfolds
        <5> QED
          BY <2>1, <4>1, <5>1, Zenon
      <4>5. Pos' = 0
        BY <2>1, <4>1, Zenon DEF Pos
      <4>6. Heard(log', start', active', 0, 0) = active'
        BY HeardNothing
      <4>7. 0..Pos' = {0}
        BY <4>5
      <4> QED
        BY <1>2, <4>1, <4>3, <4>4, <4>6, <4>7 DEF Caught
    <3>2. CASE log # <<>>
      <4>1. active' = Heard(log, start, active, From, n)
        BY <1>1, <1>4, <1>5, <2>1, <2>3, <3>2, ScannedIsHeard
      <4>2. From \in 0..Pos /\ 0..Pos = 0..From
        BY <1>4, <2>3
      <4>3. \A q \in 0..From : EndsLine(q) => Heard(log, start, active, q, n) = truth
        BY <1>5, <2>3, <4>2, Zenon DEF Caught
      <4>4. active' = truth
        BY <4>1, <4>2, <4>3, <1>5, <2>3, <3>2, Zenon
      <4>5. ASSUME NEW q \in 0..n, EndsLine(q) PROVE Heard(log, start, truth, q, n) = truth
        <5>1. CASE q <= From
          <6>1. Heard(log, start, active, q, n) = truth
            BY <4>3, <4>5, <5>1, <1>4, <2>3
          <6>2. Heard(log, start, Heard(log, start, active, q, n), q, n) = Heard(log, start, active, q, n)
            BY <1>1, HeardAgain
          <6> QED
            BY <6>1, <6>2, Zenon
        <5>2. CASE From <= q
          <6>1. Heard(log, start, active, From, n) = truth
            BY <4>1, <4>4, Zenon
          <6>2. Heard(log, start, Heard(log, start, active, From, n), q, n) = Heard(log, start, active, From, n)
            BY <1>1, <1>4, <2>3, <5>2, HeardAgain
          <6> QED
            BY <6>1, <6>2, Zenon
        <5> QED
          BY <5>1, <5>2, <1>4, <2>3
      <4>6. Pos' \in {0, n} /\ \A q \in 0..Pos' : q \in 0..n
        BY <1>1, <2>1 DEF Pos
      <4>7. \A q : EndsLine(q)' <=> EndsLine(q)
        BY <1>2, Zenon DEF EndsLine
      <4>8. Caught'
        BY <1>2, <4>4, <4>5, <4>6, <4>7, Zenon DEF Caught
      <4> QED
        BY <4>4, <4>8, Zenon
    <3> QED
      BY <3>1, <3>2, Zenon
  <2> QED
    BY <1>1, <1>2, <1>3, <2>1, <2>2, <2>3, Zenon DEF LogInv
<1>7. CASE PollFails(From)
  <2>1. PICK i \in TooLong(From) : active' = Scanned(From, i - 1)
    BY <1>7, Zenon DEF PollFails
  <2>2. i \in (From + 1)..n /\ UNCHANGED <<offset, handled, current>>
    BY <1>7, <2>1, Zenon DEF PollFails, TooLong
  <2>3. ~torn' /\ handled' = offset' /\ offset' > 0 => EndsLine(offset)'
    BY <1>2, <2>2, Zenon DEF LogInv, EndsLine
  <2>4. From \in Nat /\ n > 0 /\ log # <<>>
    BY <1>1, <2>2 DEF From
  <2>5. ~current
    BY <1>1, <2>2, <2>4 DEF LogInv, From
  <2>6. ASSUME ~torn', ~lost' PROVE Caught'
    <3> DEFINE m == i - 1
    <3>1. m \in Nat /\ From <= m /\ m < n /\ i - 1 = m
      BY <2>2, <2>4
    <3> HIDE DEF m
    <3>2. active' = Heard(log, start, active, From, m)
      BY <1>1, <1>5, <2>1, <2>4, <2>6, <3>1, ScannedIsHeard
    <3>3. Pos' = Pos /\ Pos = From
      BY <1>4, <2>2, <2>6, Zenon DEF Pos
    <3>4. ASSUME NEW q \in 0..From, EndsLine(q)
          PROVE  Heard(log, start, active', q, n) = truth
      <4>1. Heard(log, start, active, q, n) = truth
        BY <1>5, <2>6, <3>3, <3>4, Zenon DEF Caught
      <4>2. q \in Nat /\ q <= From
        BY <2>4
      <4>3. Heard(log, start, Heard(log, start, active, From, m), q, n) = Heard(log, start, active, q, n)
        BY <1>1, <2>4, <3>1, <4>2, HeardBefore
      <4> QED
        BY <3>2, <4>1, <4>3, Zenon
    <3>5. \A q : EndsLine(q)' <=> EndsLine(q)
      BY <1>2, Zenon DEF EndsLine
    <3> QED
      BY <1>2, <3>3, <3>4, <3>5, Zenon DEF Caught
  <2> QED
    BY <1>1, <1>2, <1>3, <2>2, <2>3, <2>4, <2>5, <2>6, Zenon DEF LogInv
<1> QED
  BY <1>6, <1>7, Zenon DEF Poll

LEMMA LogInvHolds == LogSpec => []LogInv
<1>1. LogInv /\ [LogNext]_logVars => LogInv'
  <2> SUFFICES ASSUME LogInv, [LogNext]_logVars PROVE LogInv'
    BY Zenon
  <2>1. CASE UNCHANGED logVars
    BY <2>1, Zenon DEF logVars, LogInv, OnceInv, Caught, Pos, EndsLine
  <2> QED
    BY <2>1, LogWrite, LogTruncate, LogPoll, LogRestart, Zenon DEF LogNext
<1> QED
  BY <1>1, LogInitially, PTL DEF LogSpec

(* No line is handled twice in a run of the agent, for a log of any length, any
   lines, and any number of truncations and restarts (readNewLines). *)
THEOREM LinesAreHandledOnce == LogSpec => []HandledOnce
<1>1. LogInv => HandledOnce
  BY Zenon DEF LogInv, OnceInv, HandledOnce
<1> QED
  BY <1>1, LogInvHolds, PTL

(* After a poll the alarms are those of the whole lines of the log, but for half a
   line that a poll found and for what was truncated unread, for a log of any length,
   and any number of truncations and restarts (readNewLines). *)
THEOREM AlarmsAreOfTheLog == LogSpec => []AlarmsFollowLog
<1>1. LogInv => AlarmsFollowLog
  BY Zenon DEF LogInv, AlarmsFollowLog
<1> QED
  BY <1>1, LogInvHolds, PTL

(* The alarms are those their sources call for, the components that are down and the
   lines of the log, with the two side by side (Tracker.Subscribe, FaultService.Run,
   readNewLines). *)
THEOREM AlarmsAreOfTheirSources ==
  ASSUME HealthConstants
  PROVE  SourcesSpec => []AlarmsFollowSources
<1>1. AlarmsFollowHealth /\ AlarmsFollowLog /\ HandledOnce => AlarmsFollowSources
  BY Zenon DEF AlarmsFollowSources
<1> QED
  BY <1>1, FaultsFollowHealth, LinesAreHandledOnce, AlarmsAreOfTheLog, PTL DEF SourcesSpec
=============================================================================
