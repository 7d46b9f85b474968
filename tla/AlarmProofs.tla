----------------------------- MODULE AlarmProofs -----------------------------
(***************************************************************************)
(* Proofs about the alarm list, its file and its queue, for any number of  *)
(* services and alarms and any capacities.                                 *)
(***************************************************************************)
EXTENDS AlarmList, SequenceTheorems, TLAPS

(* What the code fixes: every alarm has a component, the queue holds something,
   and a request drains something *)
ListConstants ==
  /\ Of \in [Keys -> Components]
  /\ Cap \in Nat \ {0}
  /\ MaxDrain \in Nat \ {0}

Entries == [key : Keys, rec : Records]
Notes == [id : Nat, key : Keys, rec : Records]

ListType ==
  /\ records \in [Keys -> Records]
  /\ file \in [Keys -> Records]
  /\ lastPersistErr \in BOOLEAN
  /\ pending \in [Components -> SUBSET Entries]
  /\ messages \in Seq(Notes)
  /\ reply \in Seq(Notes)
  /\ nextID \in Nat
  /\ latest \in [Keys -> Nat]
  /\ missed \in SUBSET Keys

(* The queue holds the notifications up to the last one, without a gap, and a
   reply holds earlier ones *)
QueueInv ==
  /\ Len(messages) <= Cap
  /\ Len(messages) <= nextID
  /\ \A i \in 1..Len(messages) : messages[i].id = nextID - Len(messages) + i
  /\ \A i \in 1..Len(reply) : reply[i].id \in 1..(nextID - Len(messages))
  /\ \A i, j \in 1..Len(reply) : i < j => reply[i].id < reply[j].id

(* A change that still has to be announced is the present state of its alarm,
   and belongs to the component that has to announce it *)
PendingInv ==
  \A c \in Components : \A e \in pending[c] : Of[e.key] = c /\ e.rec = records[e.key]

Unannounced(k) == \E e \in pending[Of[k]] : e.key = k

InQueue == {messages[i] : i \in 1..Len(messages)}
InReply == {reply[i] : i \in 1..Len(reply)}

(* What a notification in the queue or in a reply knows: it is not newer than the
   latest one of its alarm, and the latest one tells the present state unless a
   change still has to be announced *)
Knows(n) ==
  /\ n.id <= latest[n.key]
  /\ \A k \in Keys : latest[k] = n.id => n.key = k
  /\ n.id = latest[n.key] /\ ~Unannounced(n.key) => n.rec = records[n.key]

OnTheWay(k) == \E n \in InQueue \cup InReply : n.id = latest[k]

(* An alarm that was not missed: if anything of it is on its way then so is the
   latest, and if that has arrived and nothing has to be announced the server
   knows the present state *)
Kept(k) ==
  /\ (\E n \in InQueue \cup InReply : n.key = k) => OnTheWay(k)
  /\ ~OnTheWay(k) /\ ~Unannounced(k) => told[k] = records[k]

ToldInv ==
  /\ \A k \in Keys : latest[k] <= nextID
  /\ \A n \in InQueue \cup InReply : Knows(n)
  /\ \A k \in Keys \ missed : Kept(k)

ListInv == ListType /\ QueueInv /\ PendingInv /\ ToldInv /\ FileHoldsList

LEMMA RecordTypes ==
  /\ \A sev \in Severities : Active(sev) \in Records
  /\ Cleared \in Records /\ NoRecord \in Records
BY Zenon DEF Records

(* Parts of the queue *)
LEMMA SubSeqFacts ==
  ASSUME NEW s \in Seq(Notes), NEW m \in Nat \ {0}, NEW n \in Nat, n <= Len(s), m <= n + 1
  PROVE  /\ SubSeq(s, m, n) \in Seq(Notes)
         /\ Len(SubSeq(s, m, n)) = n - m + 1
         /\ \A i \in 1..(n - m + 1) : SubSeq(s, m, n)[i] = s[i + m - 1]
OBVIOUS

LEMMA KeysFacts ==
  ASSUME NEW s \in Seq(Notes)
  PROVE  /\ KeysIn(s) = {s[i].key : i \in 1..Len(s)} /\ KeysIn(s) \subseteq Keys
         /\ Numbers(s) = {s[i].id : i \in 1..Len(s)}
<1>1. DOMAIN s = 1..Len(s) /\ \A i \in 1..Len(s) : s[i] \in Notes
  OBVIOUS
<1> QED
  BY <1>1, Zenon DEF KeysIn, Numbers, Notes

LEMMA AppendFacts ==
  ASSUME NEW s \in Seq(Notes), NEW n \in Notes
  PROVE  /\ Append(s, n) \in Seq(Notes) /\ Len(Append(s, n)) = Len(s) + 1 /\ Len(s) \in Nat
         /\ \A i \in 1..Len(s) : Append(s, n)[i] = s[i] /\ s[i] \in Notes
         /\ Append(s, n)[Len(s) + 1] = n
OBVIOUS

(* A notification is appended, and if there is no room all others move up by one *)
LEMMA AppendedFacts ==
  ASSUME ListConstants, ListType, Len(messages) <= Cap, NEW n \in Notes
  PROVE  /\ Appended(n) \in Seq(Notes)
         /\ Len(messages) < Cap =>
              /\ Len(Appended(n)) = Len(messages) + 1
              /\ \A i \in 1..Len(messages) : Appended(n)[i] = messages[i]
              /\ Appended(n)[Len(messages) + 1] = n
         /\ Len(messages) >= Cap =>
              /\ Len(Appended(n)) = Len(messages)
              /\ \A i \in 1..(Len(messages) - 1) : Appended(n)[i] = messages[i + 1]
              /\ Appended(n)[Len(messages)] = n
<1> DEFINE all == Append(messages, n)
<1>1. /\ messages \in Seq(Notes) /\ Len(messages) \in Nat /\ Cap \in Nat \ {0}
      /\ all \in Seq(Notes) /\ Len(all) = Len(messages) + 1
      /\ \A i \in 1..Len(messages) : all[i] = messages[i]
      /\ all[Len(messages) + 1] = n
  BY AppendFacts DEF ListType, ListConstants
<1>2. CASE Len(messages) < Cap
  <2>1. Appended(n) = all
    BY <1>1, <1>2 DEF Appended
  <2> QED
    BY <1>1, <1>2, <2>1
<1>3. CASE Len(messages) >= Cap
  <2> HIDE DEF all
  <2>1. Appended(n) = SubSeq(all, 2, Len(all))
    BY <1>1, <1>3 DEF Appended, all
  <2>2. /\ SubSeq(all, 2, Len(all)) \in Seq(Notes)
        /\ Len(SubSeq(all, 2, Len(all))) = Len(all) - 2 + 1
        /\ \A i \in 1..(Len(all) - 2 + 1) : SubSeq(all, 2, Len(all))[i] = all[i + 2 - 1]
    BY <1>1, <1>3, SubSeqFacts
  <2>3. \A i \in 1..Len(messages) : Appended(n)[i] = all[i + 1]
    BY <1>1, <2>1, <2>2
  <2> QED
    BY <1>1, <1>3, <2>1, <2>2, <2>3
<1> QED
  BY <1>1, <1>2, <1>3

(* Drain splits the queue *)
LEMMA DrainFacts ==
  ASSUME ListConstants, ListType, Drain
  PROVE  \E n \in 1..Len(messages) :
           /\ reply' \in Seq(Notes) /\ Len(reply') = n
           /\ \A i \in 1..n : reply'[i] = messages[i]
           /\ messages' \in Seq(Notes) /\ Len(messages') = Len(messages) - n
           /\ \A i \in 1..(Len(messages) - n) : messages'[i] = messages[i + n]
<1> DEFINE n == IF MaxDrain > Len(messages) THEN Len(messages) ELSE MaxDrain
<1>1. messages \in Seq(Notes) /\ Len(messages) \in Nat \ {0} /\ n \in 1..Len(messages)
  BY DEF ListType, ListConstants, Drain
<1>2. reply' = SubSeq(messages, 1, n) /\ messages' = SubSeq(messages, n + 1, Len(messages))
  BY Zenon DEF Drain, Drained
<1> HIDE DEF n
<1>3. /\ reply' \in Seq(Notes) /\ Len(reply') = n
      /\ \A i \in 1..n : reply'[i] = messages[i]
  <2>1. /\ SubSeq(messages, 1, n) \in Seq(Notes)
        /\ Len(SubSeq(messages, 1, n)) = n - 1 + 1
        /\ \A i \in 1..(n - 1 + 1) : SubSeq(messages, 1, n)[i] = messages[i + 1 - 1]
    BY <1>1, SubSeqFacts
  <2> QED
    BY <1>1, <1>2, <2>1
<1>4. /\ messages' \in Seq(Notes) /\ Len(messages') = Len(messages) - n
      /\ \A i \in 1..(Len(messages) - n) : messages'[i] = messages[i + n]
  <2>1. /\ SubSeq(messages, n + 1, Len(messages)) \in Seq(Notes)
        /\ Len(SubSeq(messages, n + 1, Len(messages))) = Len(messages) - (n + 1) + 1
        /\ \A i \in 1..(Len(messages) - (n + 1) + 1) :
             SubSeq(messages, n + 1, Len(messages))[i] = messages[i + (n + 1) - 1]
    BY <1>1, SubSeqFacts
  <2> QED
    BY <1>1, <1>2, <2>1
<1> QED
  BY <1>1, <1>3, <1>4, Zenon
queue == <<messages, nextID, reply, latest, told, missed>>

(* A service changes alarms of its component only, only when it has announced its
   earlier changes, and takes on what it has to announce *)
Reported(c, P) ==
  /\ pending[c] = {}
  /\ pending' = [pending EXCEPT ![c] = P]
  /\ records' \in [Keys -> Records]
  /\ \A e \in P : Of[e.key] = c /\ e.rec = records'[e.key]
  /\ \A k \in Keys : records'[k] = records[k] \/ (Of[k] = c /\ \E e \in P : e.key = k)
  /\ Persist(records')
  /\ UNCHANGED queue

LEMMA ListChange ==
  ASSUME ListConstants, ListType, Change \/ \E c \in Components : ClearComponent(c)
  PROVE  \E c \in Components : \E P \in SUBSET Entries : Reported(c, P)
<1> USE RecordTypes DEF ListConstants
<1>1. CASE \E k \in Keys, sev \in Severities : Raise(k, sev)
  <2>1. PICK k \in Keys, sev \in Severities : Raise(k, sev)
    BY <1>1, Zenon
  <2> DEFINE P == IF Changed(k, sev) THEN {[key |-> k, rec |-> Active(sev)]} ELSE {}
  <2>2. P \in SUBSET Entries /\ Of[k] \in Components
    BY DEF Entries
  <2>3. records' \in [Keys -> Records] /\ records'[k] = Active(sev)
        /\ \A x \in Keys \ {k} : records'[x] = records[x]
    BY <2>1, Zenon DEF Raise, ListType
  <2>4. /\ pending[Of[k]] = {} /\ pending' = [pending EXCEPT ![Of[k]] = P]
        /\ Persist(records') /\ UNCHANGED queue
    BY <2>1, Zenon DEF Raise, queue
  <2>5. \A e \in P : Of[e.key] = Of[k] /\ e.rec = records'[e.key]
    BY <2>3
  <2>6. records'[k] = records[k] \/ \E e \in P : e.key = k
    BY <2>3, Zenon DEF Changed
  <2> HIDE DEF P
  <2>7. Reported(Of[k], P)
    BY <2>3, <2>4, <2>5, <2>6, Zenon DEF Reported
  <2> QED
    BY <2>2, <2>7, Zenon
<1>2. CASE \E k \in Keys : Clear(k)
  <2>1. PICK k \in Keys : Clear(k)
    BY <1>2, Zenon
  <2> DEFINE P == {[key |-> k, rec |-> Cleared]}
  <2>2. P \in SUBSET Entries /\ Of[k] \in Components
    BY DEF Entries
  <2>3. records' \in [Keys -> Records] /\ records'[k] = Cleared
        /\ \A x \in Keys \ {k} : records'[x] = records[x]
    BY <2>1, Zenon DEF Clear, Clearing, ListType
  <2>4. Reported(Of[k], P)
    BY <2>1, <2>3 DEF Clear, Clearing, Reported, queue
  <2> QED
    BY <2>2, <2>4, Zenon
<1>3. CASE \E k \in Keys : Touch(k)
  <2>1. PICK k \in Keys : Touch(k)
    BY <1>3, Zenon
  <2>2. pending' = [pending EXCEPT ![Of[k]] = {}] /\ Of[k] \in Components
    BY <2>1, Zenon DEF Touch, ListType
  <2>3. Reported(Of[k], {})
    BY <2>1, <2>2, Zenon DEF Touch, Reported, queue, ListType
  <2> QED
    BY <2>2, <2>3, Zenon
<1>4. CASE \E c \in Components : ClearComponent(c)
  <2>1. PICK c \in Components : ClearComponent(c)
    BY <1>4, Zenon
  <2> DEFINE ks == {k \in Keys : Of[k] = c /\ records[k].status = "active"}
             P == {[key |-> k, rec |-> Cleared] : k \in ks}
  <2>2. P \in SUBSET Entries
    BY DEF Entries
  <2>3. records' = [k \in Keys |-> IF k \in ks THEN Cleared ELSE records[k]]
        /\ Persist(records') /\ UNCHANGED queue
        /\ pending[c] = {} /\ pending' = [pending EXCEPT ![c] = P]
    BY <2>1, Zenon DEF ClearComponent, Clearing, queue
  <2>4. records' \in [Keys -> Records]
    BY <2>3, Zenon DEF ListType
  <2>5. ASSUME NEW e \in P PROVE Of[e.key] = c /\ e.rec = records'[e.key]
    <3>1. PICK k \in ks : e = [key |-> k, rec |-> Cleared]
      BY Zenon
    <3> QED
      BY <2>3, <3>1, Zenon
  <2>6. ASSUME NEW k \in Keys
        PROVE  records'[k] = records[k] \/ (Of[k] = c /\ \E e \in P : e.key = k)
    <3>1. CASE k \in ks
      <4>1. [key |-> k, rec |-> Cleared] \in P
        BY <3>1, Zenon
      <4> QED
        BY <3>1, <4>1, Zenon
    <3> QED
      BY <2>3, <3>1, Zenon
  <2> HIDE DEF P
  <2>7. Reported(c, P)
    BY <2>3, <2>4, <2>5, <2>6, Zenon DEF Reported
  <2> QED
    BY <2>2, <2>7, Zenon
<1> QED
  BY <1>1, <1>2, <1>3, <1>4, Zenon DEF Change

(* Announce, with the change and the notification named *)
Announced(c, e, n) ==
  /\ e \in pending[c]
  /\ n = [id |-> nextID + 1, key |-> e.key, rec |-> e.rec]
  /\ pending' = [pending EXCEPT ![c] = @ \ {e}]
  /\ nextID' = nextID + 1
  /\ messages' = Appended(n)
  /\ latest' = [latest EXCEPT ![e.key] = nextID + 1]
  /\ missed' = IF Len(messages) < Cap THEN missed ELSE missed \cup {messages[1].key}
  /\ UNCHANGED <<records, file, lastPersistErr, reply, told>>

LEMMA AnnounceFacts ==
  ASSUME ListType, NEW c \in Components, Announce(c)
  PROVE  \E e \in Entries : \E n \in Notes : Announced(c, e, n)
<1>1. PICK e \in pending[c] : Announced(c, e, [id |-> nextID + 1, key |-> e.key, rec |-> e.rec])
  BY Zenon DEF Announce, Announced
<1>2. e \in Entries
  BY Zenon DEF ListType
<1>3. [id |-> nextID + 1, key |-> e.key, rec |-> e.rec] \in Notes
  BY <1>2 DEF ListType, Entries, Notes
<1> QED
  BY <1>1, <1>2, <1>3, Zenon

LEMMA TypeStep ==
  ASSUME ListConstants, ListType, QueueInv, [ListNext]_listVars
  PROVE  ListType'
<1>1. CASE Change \/ \E c \in Components : ClearComponent(c)
  <2>1. PICK c \in Components, P \in SUBSET Entries : Reported(c, P)
    BY <1>1, ListChange, Zenon
  <2>2. file' \in [Keys -> Records]
    BY <2>1, Zenon DEF Reported, Persist, ListType
  <2>3. lastPersistErr' \in BOOLEAN
    BY <2>1, Zenon DEF Reported, Persist, ListType
  <2>4. pending' \in [Components -> SUBSET Entries]
    BY <2>1, Zenon DEF Reported, ListType
  <2> QED
    BY <2>1, <2>2, <2>3, <2>4, Zenon DEF Reported, queue, ListType
<1>2. ASSUME NEW c \in Components, Announce(c)
      PROVE  ListType'
  <2>1. PICK e \in Entries, n \in Notes : Announced(c, e, n)
    BY <1>2, AnnounceFacts, Zenon
  <2>2. messages' \in Seq(Notes)
    BY <2>1, AppendedFacts, Zenon DEF Announced, QueueInv
  <2>3. pending' \in [Components -> SUBSET Entries]
    <3>1. pending[c] \ {e} \in SUBSET Entries
      BY Zenon DEF ListType
    <3> QED
      BY <2>1, <3>1, Zenon DEF Announced, ListType
  <2>4. latest' \in [Keys -> Nat] /\ nextID' \in Nat
    <3>1. nextID + 1 \in Nat
      BY DEF ListType
    <3> QED
      BY <2>1, <3>1, Zenon DEF Announced, ListType
  <2>5. missed' \in SUBSET Keys
    <3>1. CASE Len(messages) < Cap
      BY <2>1, <3>1, Zenon DEF Announced, ListType
    <3>2. CASE ~(Len(messages) < Cap)
      <4>1. messages[1] \in Notes
        BY <3>2 DEF ListType, ListConstants
      <4> QED
        BY <2>1, <3>2, <4>1, Zenon DEF Announced, ListType, Notes
    <3> QED
      BY <3>1, <3>2, Zenon
  <2> QED
    BY <2>1, <2>2, <2>3, <2>4, <2>5, Zenon DEF Announced, ListType
<1>3. CASE Drain
  BY <1>3, DrainFacts, Zenon DEF Drain, ListType
<1>4. CASE Deliver
  <2>1. reply' \in Seq(Notes) /\ missed' \in SUBSET Keys
    BY <1>4 DEF Deliver, ListType
  <2> QED
    BY <1>4, <2>1, Zenon DEF Deliver, ListType
<1>5. CASE LoseReply
  <2>1. reply' \in Seq(Notes) /\ missed' \in SUBSET Keys
    BY <1>5, KeysFacts DEF LoseReply, ListType
  <2> QED
    BY <1>5, <2>1, Zenon DEF LoseReply, ListType
<1>6. CASE Crash
  <2>1. KeysIn(messages) \subseteq Keys /\ KeysIn(reply) \subseteq Keys
    BY KeysFacts, Zenon DEF ListType
  <2>2. {e.key : e \in UNION {pending[c] : c \in Components}} \subseteq Keys
    BY DEF ListType, Entries
  <2>3. missed' \in SUBSET Keys
    BY <1>6, <2>1, <2>2, Zenon DEF Crash, ListType
  <2>4. pending' \in [Components -> SUBSET Entries] /\ latest' \in [Keys -> Nat]
        /\ messages' \in Seq(Notes) /\ reply' \in Seq(Notes)
    BY <1>6 DEF Crash
  <2>5. lastPersistErr' \in BOOLEAN
    BY <1>6, Zenon DEF Crash
  <2> QED
    BY <1>6, <2>3, <2>4, <2>5, Zenon DEF Crash, ListType
<1>7. CASE UNCHANGED listVars
  BY <1>7, Zenon DEF listVars, ListType
<1> QED
  BY <1>1, <1>2, <1>3, <1>4, <1>5, <1>6, <1>7, Zenon DEF ListNext

LEMMA QueueStep ==
  ASSUME ListConstants, ListType, QueueInv, [ListNext]_listVars
  PROVE  QueueInv'
<1>0. Len(messages) \in Nat /\ Len(reply) \in Nat /\ nextID \in Nat /\ Cap \in Nat \ {0}
  BY DEF ListType, ListConstants
<1>1. CASE UNCHANGED <<messages, reply, nextID>>
  BY <1>1, Zenon DEF QueueInv
<1>2. ASSUME NEW c \in Components, Announce(c)
      PROVE  QueueInv'
  <2>1. PICK e \in Entries, n \in Notes : Announced(c, e, n)
    BY <1>2, AnnounceFacts, Zenon
  <2>2. n.id = nextID + 1 /\ nextID' = nextID + 1 /\ reply' = reply /\ messages' = Appended(n)
    BY <2>1, Zenon DEF Announced
  <2>3. CASE Len(messages) < Cap
    <3>1. /\ Len(messages') = Len(messages) + 1
          /\ \A i \in 1..Len(messages) : messages'[i] = messages[i]
          /\ messages'[Len(messages) + 1] = n
      BY <2>2, <2>3, AppendedFacts, Zenon DEF QueueInv
    <3>2. ASSUME NEW i \in 1..Len(messages')
          PROVE  messages'[i].id = nextID' - Len(messages') + i
      <4>1. CASE i \in 1..Len(messages)
        <5>1. messages'[i] = messages[i] /\ messages[i].id = nextID - Len(messages) + i
          BY <3>1, <4>1, Zenon DEF QueueInv
        <5> QED
          BY <1>0, <2>2, <3>1, <5>1
      <4>2. CASE i = Len(messages) + 1
        BY <1>0, <2>2, <3>1, <4>2
      <4> QED
        BY <1>0, <3>1, <4>1, <4>2
    <3> QED
      BY <1>0, <2>2, <2>3, <3>1, <3>2 DEF QueueInv
  <2>4. CASE Len(messages) >= Cap
    <3>1. /\ Len(messages') = Len(messages)
          /\ \A i \in 1..(Len(messages) - 1) : messages'[i] = messages[i + 1]
          /\ messages'[Len(messages)] = n
      BY <2>2, <2>4, AppendedFacts, Zenon DEF QueueInv
    <3>2. ASSUME NEW i \in 1..Len(messages')
          PROVE  messages'[i].id = nextID' - Len(messages') + i
      <4>1. CASE i < Len(messages)
        <5>1. i + 1 \in 1..Len(messages) /\ i \in 1..(Len(messages) - 1)
          BY <1>0, <3>1, <4>1
        <5>2. messages'[i] = messages[i + 1]
              /\ messages[i + 1].id = nextID - Len(messages) + (i + 1)
          BY <3>1, <5>1, Zenon DEF QueueInv
        <5> QED
          BY <1>0, <2>2, <3>1, <5>2
      <4>2. CASE i = Len(messages)
        BY <1>0, <2>2, <3>1, <4>2
      <4> QED
        BY <1>0, <3>1, <4>1, <4>2
    <3> QED
      BY <1>0, <2>2, <3>1, <3>2 DEF QueueInv
  <2> QED
    BY <1>0, <2>3, <2>4
<1>3. CASE Drain
  <2>1. PICK n \in 1..Len(messages) :
           /\ reply' \in Seq(Notes) /\ Len(reply') = n
           /\ \A i \in 1..n : reply'[i] = messages[i]
           /\ messages' \in Seq(Notes) /\ Len(messages') = Len(messages) - n
           /\ \A i \in 1..(Len(messages) - n) : messages'[i] = messages[i + n]
    BY <1>3, DrainFacts, Zenon
  <2>2. nextID' = nextID
    BY <1>3, Zenon DEF Drain
  <2>3. ASSUME NEW i \in 1..Len(messages')
        PROVE  messages'[i].id = nextID' - Len(messages') + i
    <3>1. i + n \in 1..Len(messages) /\ i \in 1..(Len(messages) - n)
      BY <1>0, <2>1
    <3>2. messages'[i] = messages[i + n] /\ messages[i + n].id = nextID - Len(messages) + (i + n)
      BY <2>1, <3>1, Zenon DEF QueueInv
    <3> QED
      BY <1>0, <2>1, <2>2, <3>2
  <2>4. \A i \in 1..Len(reply') : reply'[i].id = nextID - Len(messages) + i
    BY <1>0, <2>1, SMTT(30) DEF QueueInv
  <2> QED
    BY <1>0, <2>1, <2>2, <2>3, <2>4 DEF QueueInv
<1>4. CASE Deliver \/ LoseReply
  BY <1>0, <1>4 DEF Deliver, LoseReply, QueueInv
<1>5. CASE Crash
  BY <1>0, <1>5 DEF Crash, QueueInv
<1>6. CASE Change \/ \E c \in Components : ClearComponent(c)
  BY <1>1, <1>6, ListChange, Zenon DEF Reported, queue
<1> QED
  BY <1>1, <1>2, <1>3, <1>4, <1>5, <1>6, Zenon DEF ListNext, listVars

LEMMA PendingStep ==
  ASSUME ListConstants, ListType, PendingInv, [ListNext]_listVars
  PROVE  PendingInv'
<1>1. CASE Change \/ \E c \in Components : ClearComponent(c)
  <2>1. PICK c \in Components, P \in SUBSET Entries : Reported(c, P)
    BY <1>1, ListChange, Zenon
  <2>2. ASSUME NEW d \in Components, NEW e \in pending'[d]
        PROVE  Of[e.key] = d /\ e.rec = records'[e.key]
    <3>1. CASE d = c
      BY <2>1, <2>2, <3>1, Zenon DEF Reported, ListType
    <3>2. CASE d # c
      <4>1. e \in pending[d] /\ e.key \in Keys
        BY <2>1, <2>2, <3>2 DEF Reported, ListType, Entries
      <4> QED
        BY <2>1, <3>2, <4>1 DEF Reported, PendingInv
    <3> QED
      BY <3>1, <3>2, Zenon
  <2> QED
    BY <2>2, Zenon DEF PendingInv
<1>2. ASSUME NEW c \in Components, Announce(c)
      PROVE  PendingInv'
  <2>1. \A d \in Components : pending'[d] \subseteq pending[d]
    BY <1>2 DEF Announce, ListType
  <2> QED
    BY <1>2, <2>1, Zenon DEF Announce, PendingInv
<1>3. CASE Crash
  BY <1>3, Zenon DEF Crash, PendingInv
<1>4. CASE UNCHANGED <<pending, records>>
  BY <1>4, Zenon DEF PendingInv
<1> QED
  BY <1>1, <1>2, <1>3, <1>4, Zenon DEF ListNext, Drain, Deliver, LoseReply, listVars

LEMMA FileStep ==
  ASSUME ListConstants, ListType, FileHoldsList, [ListNext]_listVars
  PROVE  FileHoldsList'
<1>1. CASE Change \/ \E c \in Components : ClearComponent(c)
  BY <1>1, ListChange, Zenon DEF Reported, Persist, FileHoldsList
<1>2. CASE Crash
  BY <1>2, Zenon DEF Crash, FileHoldsList
<1>3. CASE UNCHANGED <<records, file, lastPersistErr>>
  BY <1>3, Zenon DEF FileHoldsList
<1> QED
  BY <1>1, <1>2, <1>3, Zenon DEF ListNext, Announce, Drain, Deliver, LoseReply, listVars

(* The notifications on their way are numbered in order *)
LEMMA OnTheWayFacts ==
  ASSUME ListType, QueueInv
  PROVE  /\ InQueue \subseteq Notes /\ InReply \subseteq Notes
         /\ \A n \in InQueue \cup InReply : n.id \in 1..nextID
         /\ \A n \in InQueue, r \in InReply : r.id < n.id
<1>1. /\ Len(messages) \in Nat /\ Len(reply) \in Nat /\ nextID \in Nat
      /\ \A i \in 1..Len(messages) : messages[i] \in Notes
      /\ \A i \in 1..Len(reply) : reply[i] \in Notes
  BY DEF ListType
<1>2. \A n \in InQueue : n.id \in (nextID - Len(messages) + 1)..nextID
  BY <1>1 DEF InQueue, QueueInv
<1>3. \A r \in InReply : r.id \in 1..(nextID - Len(messages))
  BY <1>1, Zenon DEF InReply, QueueInv
<1>4. InQueue \subseteq Notes /\ InReply \subseteq Notes
  BY <1>1, Zenon DEF InQueue, InReply
<1>5. Len(messages) <= nextID
  BY Zenon DEF QueueInv
<1> QED
  BY <1>1, <1>2, <1>3, <1>4, <1>5

LEMMA AnnounceSets ==
  ASSUME ListConstants, ListType, QueueInv,
         NEW c \in Components, NEW e \in Entries, NEW n \in Notes, Announced(c, e, n)
  PROVE  /\ n \in InQueue' /\ InQueue' \subseteq InQueue \cup {n} /\ InReply' = InReply
         /\ \A m \in InQueue : m \in InQueue' \/ m.key \in missed'
         /\ missed \subseteq missed'
<1>0. Len(messages) \in Nat /\ Cap \in Nat \ {0} /\ Len(messages) <= Cap
  BY DEF ListType, ListConstants, QueueInv
<1>1. messages' = Appended(n) /\ InReply' = InReply /\ missed \subseteq missed'
  BY Zenon DEF Announced, InReply
<1>2. CASE Len(messages) < Cap
  <2>1. /\ Len(messages') = Len(messages) + 1
        /\ \A i \in 1..Len(messages) : messages'[i] = messages[i]
        /\ messages'[Len(messages) + 1] = n
    BY <1>0, <1>1, <1>2, AppendedFacts, Zenon
  <2>2. n \in InQueue'
    BY <1>0, <2>1 DEF InQueue
  <2>3. InQueue' \subseteq InQueue \cup {n}
    BY <1>0, <2>1 DEF InQueue
  <2>4. InQueue \subseteq InQueue'
    BY <1>0, <2>1 DEF InQueue
  <2> QED
    BY <1>1, <2>2, <2>3, <2>4, Zenon
<1>3. CASE Len(messages) >= Cap
  <2>1. /\ Len(messages') = Len(messages)
        /\ \A i \in 1..(Len(messages) - 1) : messages'[i] = messages[i + 1]
        /\ messages'[Len(messages)] = n
    BY <1>0, <1>1, <1>3, AppendedFacts, Zenon
  <2>2. n \in InQueue'
    BY <1>0, <1>3, <2>1 DEF InQueue
  <2>3. InQueue' \subseteq InQueue \cup {n}
    <3>1. ASSUME NEW i \in 1..Len(messages') PROVE messages'[i] \in InQueue \cup {n}
      <4>1. CASE i < Len(messages)
        <5>1. i \in 1..(Len(messages) - 1) /\ i + 1 \in 1..Len(messages)
          BY <1>0, <2>1, <4>1
        <5> QED
          BY <2>1, <5>1, Zenon DEF InQueue
      <4> QED
        BY <1>0, <2>1, <4>1
    <3> QED
      BY <3>1, Zenon DEF InQueue
  <2>4. ASSUME NEW i \in 1..Len(messages) PROVE messages[i] \in InQueue' \/ messages[i].key \in missed'
    <3>1. CASE i = 1
      BY <1>0, <1>3, <3>1 DEF Announced
    <3>2. CASE i # 1
      <4>1. i - 1 \in 1..(Len(messages) - 1) /\ (i - 1) + 1 = i
        BY <1>0, <3>2
      <4>2. messages'[i - 1] = messages[i] /\ i - 1 \in 1..Len(messages')
        BY <1>0, <2>1, <4>1
      <4> QED
        BY <4>2, Zenon DEF InQueue
    <3> QED
      BY <3>1, <3>2, Zenon
  <2>5. \A m \in InQueue : m \in InQueue' \/ m.key \in missed'
    BY <2>4, Zenon DEF InQueue
  <2> QED
    BY <1>1, <2>2, <2>3, <2>5, Zenon
<1> QED
  BY <1>0, <1>2, <1>3

LEMMA DrainSets ==
  ASSUME ListConstants, ListType, Drain
  PROVE  InQueue' \cup InReply' = InQueue \cup InReply
<1>0. Len(messages) \in Nat /\ reply = <<>>
  BY DEF ListType, Drain
<1>1. PICK n \in 1..Len(messages) :
         /\ reply' \in Seq(Notes) /\ Len(reply') = n
         /\ \A i \in 1..n : reply'[i] = messages[i]
         /\ messages' \in Seq(Notes) /\ Len(messages') = Len(messages) - n
         /\ \A i \in 1..(Len(messages) - n) : messages'[i] = messages[i + n]
  BY DrainFacts, Zenon
<1>2. InReply = {}
  BY <1>0 DEF InReply
<1>3. \A i \in 1..n : messages[i] \in InReply'
  BY <1>1, Zenon DEF InReply
<1>4. \A i \in 1..(Len(messages) - n) : messages[i + n] \in InQueue'
  BY <1>1, Zenon DEF InQueue
<1>5. ASSUME NEW i \in 1..Len(messages) PROVE messages[i] \in InQueue' \cup InReply'
  <2>1. CASE i <= n
    BY <1>0, <1>3, <2>1
  <2>2. CASE i > n
    <3>1. i - n \in 1..(Len(messages) - n) /\ (i - n) + n = i
      BY <1>0, <2>2
    <3> QED
      BY <1>4, <3>1, Zenon
  <2> QED
    BY <1>0, <2>1, <2>2
<1>6. InReply' \subseteq InQueue
  <2>1. ASSUME NEW i \in 1..Len(reply') PROVE reply'[i] \in InQueue
    BY <1>0, <1>1 DEF InQueue
  <2> QED
    BY <2>1, Zenon DEF InReply
<1>7. InQueue' \subseteq InQueue
  <2>1. ASSUME NEW i \in 1..Len(messages') PROVE messages'[i] \in InQueue
    <3>1. messages'[i] = messages[i + n] /\ i + n \in 1..Len(messages)
      BY <1>0, <1>1
    <3> QED
      BY <3>1, Zenon DEF InQueue
  <2> QED
    BY <2>1, Zenon DEF InQueue
<1> QED
  BY <1>2, <1>5, <1>6, <1>7, Zenon DEF InQueue

(* A report leaves what is on its way true: a changed alarm is unannounced *)
LEMMA ReportedTold ==
  ASSUME ListConstants, ListType, QueueInv, ToldInv,
         NEW c \in Components, NEW P \in SUBSET Entries, Reported(c, P)
  PROVE  ToldInv'
<1>1. ASSUME NEW k \in Keys, ~Unannounced(k)'
      PROVE  ~Unannounced(k) /\ records'[k] = records[k]
  <2>1. CASE Of[k] = c
    BY <1>1, <2>1, Zenon DEF Reported, ListType, Unannounced
  <2>2. CASE Of[k] # c
    BY <1>1, <2>2, Zenon DEF Reported, ListType, Unannounced, ListConstants
  <2> QED
    BY <2>1, <2>2, Zenon
<1>2. UNCHANGED <<InQueue, InReply, latest, nextID, told, missed>>
  BY DEF Reported, queue, InQueue, InReply
<1>3. \A n \in InQueue \cup InReply : n.key \in Keys
  BY OnTheWayFacts, Zenon DEF Notes
<1>4. ASSUME NEW n \in InQueue \cup InReply PROVE Knows(n)'
  BY <1>1, <1>2, <1>3, Zenon DEF ToldInv, Knows
<1>5. ASSUME NEW k \in Keys \ missed PROVE Kept(k)'
  BY <1>1, <1>2, Zenon DEF ToldInv, Kept, OnTheWay
<1> QED
  BY <1>2, <1>4, <1>5, Zenon DEF ToldInv

(* The notification of a change is the latest of its alarm *)
LEMMA AnnouncedTold ==
  ASSUME ListConstants, ListType, QueueInv, PendingInv, ToldInv,
         NEW c \in Components, NEW e \in Entries, NEW n \in Notes, Announced(c, e, n)
  PROVE  ToldInv'
<1> DEFINE Way == InQueue \cup InReply
<1>0. nextID \in Nat /\ latest \in [Keys -> Nat] /\ e.key \in Keys /\ Of[e.key] = c
      /\ e.rec = records[e.key]
  BY Zenon DEF ListType, Entries, PendingInv, Announced
<1>1. n.id = nextID + 1 /\ n.key = e.key /\ n.rec = e.rec /\ nextID' = nextID + 1
      /\ latest' = [latest EXCEPT ![e.key] = nextID + 1]
      /\ UNCHANGED <<records, told>>
  BY Zenon DEF Announced
<1>2. latest'[e.key] = nextID + 1 /\ \A k \in Keys \ {e.key} : latest'[k] = latest[k]
  BY <1>0, <1>1, Zenon
<1>3. \A k \in Keys \ {e.key} : Unannounced(k)' = Unannounced(k)
  BY Zenon DEF Announced, ListType, Unannounced, ListConstants
<1>4. /\ n \in InQueue' /\ Way' \subseteq Way \cup {n} /\ missed \subseteq missed'
      /\ \A m \in Way : m \in Way' \/ m.key \in missed'
  BY AnnounceSets, Zenon
<1>5. \A m \in Way : m \in Notes /\ m.id \in 1..nextID
  BY OnTheWayFacts, Zenon
<1>6. \A k \in Keys : latest'[k] <= nextID'
  BY <1>0, <1>1, <1>2 DEF ToldInv
<1>7. Knows(n)'
  <2>1. \A k \in Keys : latest'[k] = n.id => k = e.key
    BY <1>0, <1>1, <1>2 DEF ToldInv
  <2> QED
    BY <1>0, <1>1, <1>2, <2>1, SMTT(30) DEF Knows
<1>8. ASSUME NEW m \in Way PROVE Knows(m)'
  <2>1. Knows(m) /\ m.id \in 1..nextID /\ m.key \in Keys
    BY <1>5, Zenon DEF ToldInv, Notes
  <2>2. CASE m.key = e.key
    BY <1>0, <1>2, <2>1, <2>2, SMTT(30) DEF Knows
  <2>3. CASE m.key # e.key
    BY <1>0, <1>1, <1>2, <1>3, <2>1, <2>3 DEF Knows
  <2> QED
    BY <2>2, <2>3, Zenon
<1>9. ASSUME NEW k \in Keys \ missed' PROVE Kept(k)'
  <2>1. CASE k = e.key
    <3>1. OnTheWay(k)'
      BY <1>1, <1>2, <1>4, <2>1, Zenon DEF OnTheWay
    <3> QED
      BY <3>1, Zenon DEF Kept
  <2>2. CASE k # e.key
    <3>1. Kept(k) /\ latest'[k] = latest[k] /\ Unannounced(k)' = Unannounced(k)
      BY <1>2, <1>3, <1>4, <2>2, Zenon DEF ToldInv
    <3>2. OnTheWay(k) => OnTheWay(k)'
      <4>1. SUFFICES ASSUME NEW w \in Way, w.id = latest[k]
                     PROVE  OnTheWay(k)'
        BY Zenon DEF OnTheWay
      <4>2. w.key = k
        BY <4>1, Zenon DEF ToldInv, Knows
      <4> QED
        BY <1>4, <3>1, <4>1, <4>2, Zenon DEF OnTheWay
    <3>3. (\E m \in Way' : m.key = k) => \E m \in Way : m.key = k
      BY <1>1, <1>4, <2>2, Zenon
    <3> HIDE DEF Way
    <3> QED
      BY <1>1, <3>1, <3>2, <3>3, Zenon DEF Kept, Way
  <2> QED
    BY <2>1, <2>2, Zenon
<1> QED
  BY <1>4, <1>6, <1>7, <1>8, <1>9, Zenon DEF ToldInv

(* A reply that arrives tells the latest it holds of an alarm *)
LEMMA DeliveredTold ==
  ASSUME ListConstants, ListType, QueueInv, ToldInv, Deliver
  PROVE  ToldInv'
<1>0. /\ Len(reply) \in Nat /\ latest \in [Keys -> Nat] /\ DOMAIN reply = 1..Len(reply)
      /\ \A i \in 1..Len(reply) : reply[i] \in Notes
      /\ KeysIn(reply) = {reply[i].key : i \in 1..Len(reply)}
      /\ Numbers(reply) = {reply[i].id : i \in 1..Len(reply)}
  <2>1. reply \in Seq(Notes) /\ latest \in [Keys -> Nat]
    BY Zenon DEF ListType
  <2>2. /\ Len(reply) \in Nat /\ DOMAIN reply = 1..Len(reply)
        /\ \A i \in 1..Len(reply) : reply[i] \in Notes
    BY <2>1
  <2> QED
    BY <2>1, <2>2, KeysFacts, Zenon
<1>1. InQueue' = InQueue /\ InReply' = {} /\ UNCHANGED <<latest, nextID, records, pending>>
      /\ missed' = missed \ {k \in Keys : latest[k] \in Numbers(reply)}
  BY DEF Deliver, InQueue, InReply
<1>2. \A k \in Keys : Unannounced(k)' = Unannounced(k)
  BY <1>1, Zenon DEF Unannounced
<1>3. ASSUME NEW n \in InQueue PROVE Knows(n)'
  BY <1>1, <1>2, OnTheWayFacts, Zenon DEF ToldInv, Knows, Notes
<1>4. ASSUME NEW k \in Keys \ missed', latest[k] \in Numbers(reply)
      PROVE  Kept(k)'
  <2>1. PICK i \in 1..Len(reply) : reply[i].id = latest[k]
    BY <1>0, <1>4, Zenon
  <2>2. reply[i] \in InReply /\ Knows(reply[i])
    BY Zenon DEF InReply, ToldInv
  <2>3. reply[i].key = k
    BY <2>1, <2>2, Zenon DEF Knows
  <2>4. \A n \in InQueue : n.key # k
    <3> SUFFICES ASSUME NEW n \in InQueue, n.key = k
                 PROVE  FALSE
      BY Zenon
    <3>1. n.id \in Nat /\ reply[i].id < n.id
      BY <2>2, OnTheWayFacts, Zenon DEF Notes
    <3>2. n.id <= latest[k]
      BY Zenon DEF ToldInv, Knows
    <3> QED
      BY <1>0, <2>1, <3>1, <3>2
  <2>5. \A j \in 1..Len(reply) : reply[j].key = k => j <= i
    <3> SUFFICES ASSUME NEW j \in 1..Len(reply), reply[j].key = k, ~(j <= i)
                 PROVE  FALSE
      BY Zenon
    <3>1. reply[i].id < reply[j].id
      BY <1>0 DEF QueueInv
    <3>2. reply[j].id <= latest[k]
      BY Zenon DEF ToldInv, Knows, InReply
    <3> QED
      BY <1>0, <2>1, <3>1, <3>2 DEF Notes
  <2>6. told'[k] = reply[i].rec
    <3> DEFINE Last(x) == /\ reply[x].key = k
                          /\ \A j \in DOMAIN reply : reply[j].key = k => j <= x
    <3>1. told'[k] = reply[CHOOSE x \in DOMAIN reply : Last(x)].rec
      BY <1>0, <2>3, Zenon DEF Deliver
    <3>2. i \in DOMAIN reply /\ Last(i)
      BY <1>0, <2>3, <2>5, Zenon
    <3>3. \A x \in DOMAIN reply : Last(x) => x = i
      BY <1>0, <3>2
    <3> HIDE DEF Last
    <3>4. (CHOOSE x \in DOMAIN reply : Last(x)) = i
      BY <3>2, <3>3, Zenon
    <3> QED
      BY <3>1, <3>4, Zenon
  <2>7. ~Unannounced(k) => reply[i].rec = records[k]
    BY <2>1, <2>2, <2>3, Zenon DEF Knows
  <2> QED
    BY <1>1, <1>2, <2>4, <2>6, <2>7, Zenon DEF Kept
<1>5. ASSUME NEW k \in Keys \ missed', latest[k] \notin Numbers(reply)
      PROVE  Kept(k)'
  <2>1. Kept(k)
    BY <1>1, <1>5, Zenon DEF ToldInv
  <2>2. OnTheWay(k)' <=> OnTheWay(k)
    <3>1. \A n \in InReply : n.id # latest[k]
      BY <1>0, <1>5, Zenon DEF InReply
    <3> QED
      BY <1>1, <3>1, Zenon DEF OnTheWay
  <2>3. ~OnTheWay(k) => told'[k] = told[k]
    <3>1. ~OnTheWay(k) => k \notin KeysIn(reply)
      BY <1>0, <2>1, Zenon DEF Kept, InReply
    <3> QED
      BY <3>1, Zenon DEF Deliver
  <2> QED
    BY <1>1, <1>2, <2>1, <2>2, <2>3, Zenon DEF Kept
<1> QED
  BY <1>1, <1>3, <1>4, <1>5, Zenon DEF ToldInv

LEMMA ToldStep ==
  ASSUME ListConstants, ListType, QueueInv, PendingInv, ToldInv, [ListNext]_listVars
  PROVE  ToldInv'
<1>0. /\ KeysIn(reply) = {reply[i].key : i \in 1..Len(reply)}
      /\ KeysIn(messages) = {messages[i].key : i \in 1..Len(messages)}
  BY KeysFacts, Zenon DEF ListType
<1>1. CASE Change \/ \E c \in Components : ClearComponent(c)
  BY <1>1, ListChange, ReportedTold, Zenon
<1>2. ASSUME NEW c \in Components, Announce(c)
      PROVE  ToldInv'
  BY <1>2, AnnounceFacts, AnnouncedTold, Zenon
<1>3. CASE Drain
  <2>1. InQueue' \cup InReply' = InQueue \cup InReply
    BY <1>3, DrainSets, Zenon
  <2>2. UNCHANGED <<records, pending, nextID, latest, told, missed>>
    BY <1>3, Zenon DEF Drain
  <2>3. \A k : Unannounced(k)' = Unannounced(k) /\ OnTheWay(k)' = OnTheWay(k)
    BY <2>1, <2>2, Zenon DEF Unannounced, OnTheWay
  <2> QED
    BY <2>1, <2>2, <2>3, Zenon DEF ToldInv, Knows, Kept
<1>4. CASE Deliver
  BY <1>4, DeliveredTold, Zenon
<1>5. CASE LoseReply
  <2>1. InQueue' = InQueue /\ InReply' = {}
    BY <1>5 DEF LoseReply, InQueue, InReply
  <2>2. /\ UNCHANGED <<records, pending, nextID, latest, told>>
        /\ missed' = missed \cup KeysIn(reply)
    BY <1>5, Zenon DEF LoseReply
  <2>3. \A k : Unannounced(k)' = Unannounced(k)
    BY <2>2, Zenon DEF Unannounced
  <2>4. ASSUME NEW k \in Keys \ missed' PROVE OnTheWay(k)' <=> OnTheWay(k)
    <3>1. ASSUME NEW n \in InReply, n.id = latest[k] PROVE FALSE
      <4>1. n.key = k
        BY <3>1, Zenon DEF ToldInv, Knows
      <4> QED
        BY <1>0, <2>2, <4>1, Zenon DEF InReply
    <3> QED
      BY <2>1, <2>2, <3>1, Zenon DEF OnTheWay
  <2>5. ASSUME NEW k \in Keys \ missed' PROVE Kept(k)'
    BY <2>1, <2>2, <2>3, <2>4, Zenon DEF ToldInv, Kept
  <2> QED
    BY <2>1, <2>2, <2>3, <2>5, Zenon DEF ToldInv, Knows
<1>6. CASE Crash
  <2>1. InQueue' = {} /\ InReply' = {}
    BY <1>6, SMTT(30) DEF Crash, InQueue, InReply
  <2>2. ASSUME NEW k \in Keys \ missed' PROVE told'[k] = records'[k]
    <3>1. /\ k \notin missed /\ k \notin KeysIn(messages) /\ k \notin KeysIn(reply)
          /\ records'[k] = records[k] /\ told' = told
      BY <1>6, <2>2, Zenon DEF Crash
    <3>2. ~Unannounced(k)
      BY <1>6, <2>2, Zenon DEF Crash, Unannounced, ListConstants
    <3>3. ~OnTheWay(k)
      <4>1. \A n \in InQueue \cup InReply : n.key # k
        BY <1>0, <3>1, Zenon DEF InQueue, InReply
      <4> QED
        BY <4>1, Zenon DEF OnTheWay, ToldInv, Knows
    <3> QED
      BY <3>1, <3>2, <3>3, Zenon DEF ToldInv, Kept
  <2>3. nextID' = 0 /\ \A k \in Keys : latest'[k] = 0
    BY <1>6, Zenon DEF Crash
  <2> QED
    BY <2>1, <2>2, <2>3 DEF ToldInv, Kept
<1>7. CASE UNCHANGED listVars
  <2>1. UNCHANGED <<InQueue, InReply, records, pending, nextID, latest, told, missed>>
    BY <1>7, Zenon DEF listVars, InQueue, InReply
  <2>2. \A k : Unannounced(k)' = Unannounced(k) /\ OnTheWay(k)' = OnTheWay(k)
    BY <2>1, Zenon DEF Unannounced, OnTheWay
  <2> QED
    BY <2>1, <2>2, Zenon DEF ToldInv, Knows, Kept
<1> QED
  BY <1>1, <1>2, <1>3, <1>4, <1>5, <1>6, <1>7, Zenon DEF ListNext

LEMMA ListInvHolds ==
  ASSUME ListConstants
  PROVE  ListSpec => []ListInv
<1>1. ListInit => ListInv
  <2> SUFFICES ASSUME ListInit PROVE ListInv
    BY Zenon
  <2>1. ListType
    <3>1. lastPersistErr \in BOOLEAN
      BY Zenon DEF ListInit
    <3> QED
      BY <3>1, RecordTypes DEF ListInit, ListType
  <2>2. InQueue = {} /\ InReply = {}
    BY DEF ListInit, InQueue, InReply
  <2>3. QueueInv /\ PendingInv /\ FileHoldsList
    BY DEF ListInit, QueueInv, PendingInv, FileHoldsList, ListConstants
  <2>4. ToldInv
    BY <2>2 DEF ListInit, ToldInv, Kept
  <2> QED
    BY <2>1, <2>3, <2>4, Zenon DEF ListInv
<1>2. ListInv /\ [ListNext]_listVars => ListInv'
  BY TypeStep, QueueStep, PendingStep, ToldStep, FileStep, Zenon DEF ListInv
<1> QED
  BY <1>1, <1>2, PTL DEF ListSpec

(* Unless the store knows that its last attempt to save failed, the file holds the
   list, whatever is raised, cleared and counted and however often the agent dies
   (persistLocked). *)
THEOREM ListIsSaved ==
  ASSUME ListConstants
  PROVE  ListSpec => []FileHoldsList
<1>1. ListInv => FileHoldsList
  BY Zenon DEF ListInv
<1> QED
  BY <1>1, ListInvHolds, PTL

(* Once nothing is on its way, the NETCONF server knows the present state of every
   alarm whose latest change was not lost, for any number of services and alarms
   and any capacity of the queue: the changes of an alarm are never told in the
   wrong order (Manager.Raise, NotificationStore). *)
THEOREM ServerIsToldTheList ==
  ASSUME ListConstants
  PROVE  ListSpec => []ToldWhatIsListed
<1>1. ListInv => ToldWhatIsListed
  <2> SUFFICES ASSUME ListInv, Settled, NEW k \in Keys \ missed
               PROVE  told[k] = records[k]
    BY Zenon DEF ToldWhatIsListed
  <2>1. InQueue = {} /\ InReply = {}
    BY DEF Settled, InQueue, InReply
  <2>2. ~Unannounced(k)
    BY Zenon DEF Settled, Unannounced, ListConstants
  <2> QED
    BY <2>1, <2>2, Zenon DEF ListInv, ToldInv, Kept, OnTheWay
<1> QED
  BY <1>1, ListInvHolds, PTL

(* The list is known to its file and, as far as nothing was lost, to the NETCONF
   server, for any alarms and any capacity of the queue (persistLocked, Manager.Raise,
   NotificationStore). *)
THEOREM ListIsWellKnown ==
  ASSUME ListConstants
  PROVE  ListSpec => []ListIsKnown
<1>1. FileHoldsList /\ ToldWhatIsListed => ListIsKnown
  BY Zenon DEF ListIsKnown
<1> QED
  BY <1>1, ListIsSaved, ServerIsToldTheList, PTL

LEMMA NoNumbers == Numbers(<<>>) = {} /\ Len(<<>>) = 0
<1>1. DOMAIN <<>> = {} /\ Len(<<>>) = 0
  OBVIOUS
<1> QED
  BY <1>1, Zenon DEF Numbers

(* A step of the list is a step of the feed *)
LEMMA FeedStep ==
  ASSUME ListConstants, ListInv, ListInv', [ListNext]_listVars
  PROVE  [Abstract!FeedNext]_(Abstract!feed)
<1> USE DEF Abstract!FeedNext, Abstract!feed
<1>0. /\ Len(messages) \in Nat /\ nextID \in Nat /\ Cap \in Nat \ {0}
      /\ Len(messages) <= Cap /\ Len(messages) <= nextID
      /\ Numbers(reply) = {reply[i].id : i \in 1..Len(reply)}
      /\ reply' \in Seq(Notes)
      /\ Numbers(reply') = {reply'[i].id : i \in 1..Len(reply')}
  <2>1. messages \in Seq(Notes) /\ reply \in Seq(Notes) /\ reply' \in Seq(Notes)
    BY Zenon DEF ListInv, ListType
  <2>2. nextID \in Nat /\ Cap \in Nat \ {0} /\ Len(messages) <= Cap /\ Len(messages) <= nextID
    BY Zenon DEF ListInv, ListType, ListConstants, QueueInv
  <2>3. Len(messages) \in Nat
    BY <2>1
  <2> QED
    BY <2>1, <2>2, <2>3, KeysFacts, Zenon
<1>1. CASE UNCHANGED <<messages, reply, nextID>>
  BY <1>1, Zenon DEF Numbers
<1>2. ASSUME NEW c \in Components, Announce(c)
      PROVE  Abstract!Issue
  <2>1. PICK e \in Entries, n \in Notes : Announced(c, e, n)
    BY <1>2, AnnounceFacts, Zenon DEF ListInv
  <2>2. nextID' = nextID + 1 /\ reply' = reply /\ messages' = Appended(n)
    BY <2>1, Zenon DEF Announced
  <2>3. Len(messages') = IF Len(messages) < Cap THEN Len(messages) + 1 ELSE Len(messages)
    BY <1>0, <2>2, AppendedFacts DEF ListInv
  <2> QED
    BY <1>0, <2>2, <2>3 DEF Abstract!Issue
<1>3. CASE Drain
  <2>1. PICK n \in 1..Len(messages) :
           /\ reply' \in Seq(Notes) /\ Len(reply') = n
           /\ \A i \in 1..n : reply'[i] = messages[i]
           /\ messages' \in Seq(Notes) /\ Len(messages') = Len(messages) - n
           /\ \A i \in 1..(Len(messages) - n) : messages'[i] = messages[i + n]
    BY <1>3, DrainFacts, Zenon DEF ListInv
  <2> DEFINE h == nextID - Len(messages)
  <2>2. reply = <<>> /\ nextID' = nextID /\ Numbers(reply) = {}
    BY <1>3, NoNumbers, Zenon DEF Drain
  <2>3. \A i \in 1..n : reply'[i].id = h + i
    <3>1. \A i \in 1..Len(messages) : messages[i].id = h + i
      BY Zenon DEF ListInv, QueueInv
    <3>2. ASSUME NEW i \in 1..n PROVE i \in 1..Len(messages) /\ reply'[i] = messages[i]
      BY <1>0, <2>1
    <3> QED
      BY <3>1, <3>2, Zenon
  <2>4. Numbers(reply') = (h + 1)..(h + n)
    <3>1. \A i \in 1..n : reply'[i].id \in (h + 1)..(h + n)
      BY <1>0, <2>3
    <3>2. ASSUME NEW x \in (h + 1)..(h + n) PROVE x \in Numbers(reply')
      <4>1. x - h \in 1..n /\ h + (x - h) = x
        BY <1>0
      <4> QED
        BY <1>0, <2>1, <2>3, <4>1, ZenonT(60)
    <3>3. Numbers(reply') \subseteq (h + 1)..(h + n)
      BY <1>0, <2>1, <3>1, Zenon
    <3> QED
      BY <3>2, <3>3, Zenon
  <2>5. Abstract!Take
    BY <1>0, <2>1, <2>2, <2>4 DEF Abstract!Take
  <2> QED
    BY <2>5, Zenon
<1>4. CASE Deliver \/ LoseReply
  <2>1. reply # <<>> /\ reply' = <<>> /\ UNCHANGED <<messages, nextID>>
    BY <1>4, Zenon DEF Deliver, LoseReply
  <2>2. Numbers(reply') = {} /\ Numbers(reply) # {}
    <3>1. 1 \in 1..Len(reply)
      BY <2>1 DEF ListInv, ListType
    <3>2. reply[1].id \in Numbers(reply)
      BY <1>0, <3>1, Zenon
    <3> QED
      BY <2>1, <3>2, NoNumbers, Zenon
  <2> QED
    BY <2>1, <2>2, Zenon DEF Abstract!Answer
<1>5. CASE Crash
  <2>1. nextID' = 0 /\ messages' = <<>> /\ reply' = <<>>
    BY <1>5, Zenon DEF Crash
  <2>2. Numbers(reply') = {} /\ nextID' = 0 /\ Len(messages') = 0
    BY <2>1, NoNumbers, Zenon
  <2>3. nextID' - Len(messages') = 0
    BY <2>2, SMTT(30)
  <2> QED
    BY <2>1, <2>2, <2>3, Zenon DEF Abstract!Restart
<1>6. CASE Change \/ \E c \in Components : ClearComponent(c)
  BY <1>1, <1>6, ListChange, Zenon DEF ListInv, Reported, queue
<1> QED
  BY <1>1, <1>2, <1>3, <1>4, <1>5, <1>6, Zenon DEF ListNext, listVars

(* The queue with its capacity, its replies and its losses is the feed that the
   NETCONF server may rely on: numbers in order, no number twice, none skipped
   but those discarded (NotificationStore). *)
THEOREM QueueIsFeed ==
  ASSUME ListConstants
  PROVE  ListSpec => ImplementsFeed
<1>1. ListInit => Abstract!FeedInit
  <2> SUFFICES ASSUME ListInit PROVE Abstract!FeedInit
    BY Zenon
  <2>1. nextID = 0 /\ messages = <<>> /\ reply = <<>>
    BY Zenon DEF ListInit
  <2>2. Numbers(reply) = {} /\ nextID = 0 /\ Len(messages) = 0
    BY <2>1, NoNumbers, Zenon
  <2>3. nextID - Len(messages) = 0
    BY <2>2
  <2> QED
    BY <2>1, <2>2, <2>3, Zenon DEF Abstract!FeedInit
<1>2. ListInv /\ ListInv' /\ [ListNext]_listVars => [Abstract!FeedNext]_(Abstract!feed)
  BY FeedStep, Zenon
<1> QED
  BY <1>1, <1>2, ListInvHolds, PTL DEF ListSpec, ImplementsFeed, Abstract!Feed
=============================================================================
