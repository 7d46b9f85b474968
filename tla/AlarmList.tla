------------------------------ MODULE AlarmList ------------------------------
(***************************************************************************)
(* The list of active alarms with its file and the queue of notifications  *)
(* (internal/ems/fcaps/alarms).  A service that reports for a component    *)
(* changes the list and saves it under the store's mutex, and hands the    *)
(* change to the queue after it has released it; the NETCONF server drains *)
(* the queue through the control API.  The agent may die at any time: the  *)
(* list is read from its file again, the queue is lost.                    *)
(***************************************************************************)
EXTENDS Integers, Sequences, FiniteSets

CONSTANTS
  Keys,       \* the alarms: pairs of a component and a code
  Components, \* the components, each reported by one service
  Of,         \* Of[k]: the component of an alarm
  Severities, \* what else of an alarm can change
  Cap,        \* the capacity of the queue (1024)
  MaxDrain,   \* the most notifications in a reply (100)
  MaxID       \* bound: notifications in one life of the agent

VARIABLES
  records,        \* the list: a status and a severity for each key
  file,           \* the list as it was last saved
  lastPersistErr, \* the last attempt to save failed
  pending,        \* per component, the changes not yet handed to the queue
  messages,       \* the queue
  nextID,         \* the last number given to a notification
  reply,          \* the notifications on their way to the NETCONF server
  latest,         \* history: per key, the number of its last notification
  told,           \* history: per key, the last record the server was told
  missed          \* history: keys whose latest change was discarded by the
                  \* full queue or lost with a reply or in a crash

listVars == <<records, file, lastPersistErr, pending, messages, nextID, reply, latest, told, missed>>

Active(sev) == [status |-> "active", severity |-> sev]
Cleared == [status |-> "cleared", severity |-> "CLEARED"]
NoRecord == [status |-> "none", severity |-> "CLEARED"]

Records == {Active(sev) : sev \in Severities} \cup {Cleared, NoRecord}

KeysIn(ns) == {ns[i].key : i \in DOMAIN ns}
Numbers(ns) == {ns[i].id : i \in DOMAIN ns}

(* Fault: an error of the write is not remembered *)
PersistSilently(rs) ==
  \/ file' = rs /\ lastPersistErr' = FALSE
  \/ UNCHANGED <<file, lastPersistErr>>

(* persistLocked: the whole list replaces the file, or the file stays *)
Persist(rs) ==
  \/ file' = rs /\ lastPersistErr' = FALSE
  \/ UNCHANGED file /\ lastPersistErr' = TRUE
-----------------------------------------------------------------------------
(* what Upsert counts as a change of the record *)
Changed(k, sev) == records[k] # Active(sev)

(* Fault: the change is handed to the queue in a goroutine of its own *)
RaiseAsync(k, sev) ==
  /\ records' = [records EXCEPT ![k] = Active(sev)]
  /\ Persist(records')
  /\ pending' = [pending EXCEPT ![Of[k]] =
                   @ \cup IF Changed(k, sev) THEN {[key |-> k, rec |-> Active(sev)]} ELSE {}]
  /\ UNCHANGED <<messages, nextID, reply, latest, told, missed>>

(* Manager.Raise: Upsert, which saves even if nothing changed *)
Raise(k, sev) ==
  /\ pending[Of[k]] = {}
  /\ records' = [records EXCEPT ![k] = Active(sev)]
  /\ Persist(records')
  /\ pending' = [pending EXCEPT ![Of[k]] =
                   IF Changed(k, sev) THEN {[key |-> k, rec |-> Active(sev)]} ELSE {}]
  /\ UNCHANGED <<messages, nextID, reply, latest, told, missed>>

Clearing(ks) ==
  /\ records' = [k \in Keys |-> IF k \in ks THEN Cleared ELSE records[k]]
  /\ Persist(records')
  /\ UNCHANGED <<messages, nextID, reply, latest, told, missed>>

(* Manager.Clear of one active alarm *)
Clear(k) ==
  /\ pending[Of[k]] = {}
  /\ records[k].status = "active"
  /\ Clearing({k})
  /\ pending' = [pending EXCEPT ![Of[k]] = {[key |-> k, rec |-> Cleared]}]

(* Manager.ClearComponent: the changes go to the queue in any order *)
ClearComponent(c) ==
  LET ks == {k \in Keys : Of[k] = c /\ records[k].status = "active"} IN
  /\ pending[c] = {}
  /\ ks # {}
  /\ Clearing(ks)
  /\ pending' = [pending EXCEPT ![c] = {[key |-> k, rec |-> Cleared] : k \in ks}]

(* Store.Touch counts one more occurrence, which is saved and not announced *)
Touch(k) ==
  /\ pending[Of[k]] = {}
  /\ records[k].status = "active"
  /\ Persist(records)
  /\ UNCHANGED <<records, pending, messages, nextID, reply, latest, told, missed>>
-----------------------------------------------------------------------------
(* Append: beyond its capacity the queue keeps the newest *)
Appended(n) ==
  LET all == Append(messages, n) IN
  IF Len(all) > Cap THEN SubSeq(all, Len(all) - Cap + 1, Len(all)) ELSE all

(* OnEvent: AppendAlarmEvent for one change *)
Announce(c) ==
  /\ nextID < MaxID
  /\ \E e \in pending[c] :
       /\ pending' = [pending EXCEPT ![c] = @ \ {e}]
       /\ nextID' = nextID + 1
       /\ messages' = Appended([id |-> nextID + 1, key |-> e.key, rec |-> e.rec])
       /\ latest' = [latest EXCEPT ![e.key] = nextID + 1]
       /\ missed' = IF Len(messages) < Cap THEN missed
                    ELSE missed \cup {messages[1].key}
  /\ UNCHANGED <<records, file, lastPersistErr, reply, told>>

(* Fault: Drain leaves the last notification of a reply in the queue *)
DrainedKeepingLast(n) == SubSeq(messages, n, Len(messages))

(* what Drain leaves in the queue *)
Drained(n) == SubSeq(messages, n + 1, Len(messages))

(* handleNotifications: Drain, before the response is written *)
Drain ==
  /\ reply = <<>>
  /\ messages # <<>>
  /\ LET n == IF MaxDrain > Len(messages) THEN Len(messages) ELSE MaxDrain IN
       /\ reply' = SubSeq(messages, 1, n)
       /\ messages' = Drained(n)
  /\ UNCHANGED <<records, file, lastPersistErr, pending, nextID, latest, told, missed>>

(* the reply reaches the NETCONF server *)
Deliver ==
  /\ reply # <<>>
  /\ told' = [k \in Keys |->
                IF k \in KeysIn(reply)
                THEN LET last == CHOOSE i \in DOMAIN reply :
                           /\ reply[i].key = k
                           /\ \A j \in DOMAIN reply : reply[j].key = k => j <= i
                     IN reply[last].rec
                ELSE told[k]]
  /\ missed' = missed \ {k \in Keys : latest[k] \in Numbers(reply)}
  /\ reply' = <<>>
  /\ UNCHANGED <<records, file, lastPersistErr, pending, messages, nextID, latest>>

(* it does not: the server gave up waiting, or is gone *)
LoseReply ==
  /\ reply # <<>>
  /\ missed' = missed \cup KeysIn(reply)
  /\ reply' = <<>>
  /\ UNCHANGED <<records, file, lastPersistErr, pending, messages, nextID, latest, told>>

(* the agent dies and is started again: NewPersistentStore *)
Crash ==
  /\ records' = file
  /\ lastPersistErr' = FALSE
  /\ pending' = [c \in Components |-> {}]
  /\ messages' = <<>>
  /\ nextID' = 0
  /\ reply' = <<>>
  /\ latest' = [k \in Keys |-> 0]
  /\ missed' = missed \cup KeysIn(messages) \cup KeysIn(reply)
                 \cup {e.key : e \in UNION {pending[c] : c \in Components}}
                 \cup {k \in Keys : records[k] # file[k]}
  /\ UNCHANGED <<file, told>>
-----------------------------------------------------------------------------
ListInit ==
  /\ records = [k \in Keys |-> NoRecord]
  /\ file = records
  /\ lastPersistErr = FALSE
  /\ pending = [c \in Components |-> {}]
  /\ messages = <<>>
  /\ nextID = 0
  /\ reply = <<>>
  /\ latest = [k \in Keys |-> 0]
  /\ told = records
  /\ missed = {}

Change == \E k \in Keys : (\E sev \in Severities : Raise(k, sev)) \/ Clear(k) \/ Touch(k)

ListNext ==
  \/ Change
  \/ \E c \in Components : ClearComponent(c) \/ Announce(c)
  \/ Drain \/ Deliver \/ LoseReply \/ Crash

ListSpec == ListInit /\ [][ListNext]_listVars
-----------------------------------------------------------------------------
(* The list can be trusted to survive: unless the store knows that its last
   attempt to save failed, the file holds the list. *)
FileHoldsList == ~lastPersistErr => file = records

Settled ==
  /\ messages = <<>>
  /\ reply = <<>>
  /\ \A c \in Components : pending[c] = {}

(* Once everything on its way has arrived, the NETCONF server knows the status
   and severity of every alarm, except of those whose latest change the full
   queue discarded or that was lost with a reply or in a crash.  The changes of one alarm are
   never told in the wrong order, although list and queue are changed
   separately and by several services. *)
ToldWhatIsListed ==
  Settled => \A k \in Keys \ missed : told[k] = records[k]

(* The list is known where it has to be: to its file and, as far as nothing was lost,
   to the NETCONF server (Store.persist, Manager.Raise, Store.Drain). *)
ListIsKnown == FileHoldsList /\ ToldWhatIsListed

(* The queue, whose messages carry their numbers, is the feed of AlarmFeed. *)
Abstract == INSTANCE AlarmFeed WITH
              issued <- nextID,
              head <- nextID - Len(messages),
              reply <- Numbers(reply)

ImplementsFeed == Abstract!Feed
=============================================================================
