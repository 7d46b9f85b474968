---------------------------- MODULE NetconfServer ----------------------------
(***************************************************************************)
(* The NETCONF server process, cmd/netconf-server/server.c, with the lock  *)
(* manager of the EMS behind its control API (module LockManager).  One    *)
(* thread accepts a session, serves one request or the end of a session,   *)
(* asks for notifications, and reports the tracked sessions as alive when  *)
(* it is time to; while it waits for an answer it does nothing else.  Time *)
(* passes in every one of these waits, and a request may take any time (a  *)
(* commit that restarts the eNB is waited for up to 180 s, six leases).    *)
(* A control request may be lost, of which the server takes no notice.     *)
(* The process may end at any time and is started again; libnetconf2       *)
(* counts session ids from 1 in each process.                              *)
(***************************************************************************)
EXTENDS Integers, FiniteSets

CONSTANTS
  Slots,        \* MAX_TRACKED_SESSIONS
  MaxSessions,  \* bound: the sessions of one process
  Targets,      \* the datastores that are locked
  Anon, None,   \* of LockManager
  TTL,          \* DefaultLockTTL, in units of time
  Period,       \* SESSION_KEEPALIVE_SEC
  Wait,         \* how long the answer to a keepalive is waited for
  MaxTurn,      \* ConnectedKeepsLock: how long a turn of the loop may take,
  MaxMissed     \*   and how many keepalives in a row may be lost

ASSUME ServerAssumption ==
  /\ Slots \in Nat \ {0} /\ TTL \in Nat \ {0} /\ Period \in Nat \ {0}
  /\ {MaxSessions, MaxTurn, MaxMissed} \subseteq Nat
  /\ Wait \in 0..Period
  /\ Targets \subseteq {"candidate", "running"}

Ids == 1..MaxSessions

ASSUME IdAssumption == Anon \notin Ids /\ None \notin Ids \cup {Anon}

VARIABLES
  locks, lockAge, sessions, sessAge,   \* of LockManager
  phase,    \* where the thread is: "down", "accept", "poll", "notify", and "send"
            \* and "sent" before and after a keepalive arrives or is lost
  turn,     \* how long this turn of the loop has taken, at most MaxTurn + 1
  conns,    \* the sessions that are connected
  next,     \* the id of the next session
  slots,    \* g_sessions: the session, or 0
  idle,     \* the time since last_keepalive, at most Period
  missed,   \* the keepalives lost since the last that arrived
  clean,    \* whether the reset at the start arrived
  asked,    \* <<ds, id>>: the locks a session of this process got
  firm      \* those of tracked sessions that were not given back, since the last
            \* turn longer than MaxTurn and the last time that more than MaxMissed
            \* keepalives in a row were lost

lockVars == <<locks, lockAge, sessions, sessAge>>
table == <<conns, next, slots>>
alive == <<idle, missed>>
ghosts == <<clean, asked, firm>>
vars == <<lockVars, phase, turn, table, alive, ghosts>>

LM == INSTANCE LockManager WITH Sessions <- Ids, MaxLag <- 0

Free == 0
Tracked == {slots[i] : i \in 1..Slots} \ {0}
-----------------------------------------------------------------------------
(* track_session: the first free slot, if there is one *)
Track(s) ==
  LET free == {i \in 1..Slots : slots[i] = 0}
  IN IF s \in Tracked \/ free = {} THEN slots
     ELSE [slots EXCEPT ![CHOOSE i \in free : \A j \in free : i <= j] = s]

(* Fault: the slot is kept *)
StaysTracked(s) == slots

(* untrack_session *)
Untrack(s) == [i \in 1..Slots |-> IF slots[i] = s THEN Free ELSE slots[i]]

(* Fault: the last slot is left out *)
AllButLast == {slots[i] : i \in 1..(Slots - 1)} \ {0}

(* Fault: a keepalive names every session that was accepted, ended ones too *)
AllSoFar == 1..(next - 1)

(* the sessions of a keepalive; its buffer has room for all slots *)
Reported == Tracked
-----------------------------------------------------------------------------
(* Fault: the sessions of the last process are not reset *)
StartOver ==
  /\ phase = "down"
  /\ phase' = "accept"
  /\ next' = 1
  /\ clean' = TRUE
  /\ idle' = Period
  /\ missed' = 0
  /\ UNCHANGED <<lockVars, turn, conns, slots, asked, firm>>

(* main up to its loop: reset_control_sessions; the first keepalive is due *)
Start ==
  /\ phase = "down"
  /\ phase' = "accept"
  /\ next' = 1
  /\ \/ LM!ResetAll /\ clean' = TRUE
     \/ UNCHANGED lockVars /\ clean' = FALSE
  /\ idle' = Period
  /\ missed' = 0
  /\ UNCHANGED <<turn, conns, slots, asked, firm>>

(* a signal or a crash: no session is reported as closed, and the memory of the
   process is gone *)
Stop ==
  /\ phase # "down"
  /\ phase' = "down"
  /\ turn' = 0
  /\ conns' = {}
  /\ slots' = [i \in 1..Slots |-> Free]
  /\ next' = 1
  /\ idle' = Period
  /\ missed' = 0
  /\ clean' = TRUE
  /\ asked' = {}
  /\ firm' = {}
  /\ UNCHANGED lockVars

(* nc_accept: a new session or none *)
Accept ==
  /\ phase = "accept"
  /\ phase' = "poll"
  /\ \/ /\ next \in Ids
        /\ conns' = conns \cup {next}
        /\ slots' = Track(next)
        /\ next' = next + 1
     \/ UNCHANGED table
  /\ UNCHANGED <<lockVars, turn, alive, ghosts>>

(* nc_ps_poll without an event *)
NoEvent ==
  /\ phase = "poll"
  /\ phase' = "notify"
  /\ UNCHANGED <<lockVars, turn, table, alive, ghosts>>

(* the end of a session, by close-session or the loss of its connection:
   notify_session_close once or twice, which may be lost, then untrack_session *)
EndSession(s) ==
  /\ phase = "poll"
  /\ s \in conns
  /\ phase' = "notify"
  /\ LM!ReleaseSession(s) \/ UNCHANGED lockVars
  /\ conns' = conns \ {s}
  /\ slots' = Untrack(s)
  /\ asked' = {h \in asked : h[2] # s}
  /\ firm' = {h \in firm : h[2] # s}
  /\ UNCHANGED <<turn, next, alive, clean>>

(* handle_lock_like_rpc, and the requests that need the lock *)
RpcLock(s, ds) ==
  /\ phase = "poll"
  /\ s \in conns
  /\ phase' = "notify"
  /\ LM!Lock(ds, s)
  /\ asked' = IF locks'[ds] = s THEN asked \cup {<<ds, s>>} ELSE asked
  /\ firm' = IF locks'[ds] = s /\ s \in Tracked THEN firm \cup {<<ds, s>>} ELSE firm
  /\ UNCHANGED <<turn, table, alive, clean>>

RpcUnlock(s, ds) ==
  /\ phase = "poll"
  /\ s \in conns
  /\ phase' = "notify"
  /\ LM!Unlock(ds, s)
  /\ asked' = asked \ {<<ds, s>>}
  /\ firm' = firm \ {<<ds, s>>}
  /\ UNCHANGED <<turn, table, alive, clean>>

RpcUse(s, ds) ==
  /\ phase = "poll"
  /\ s \in conns
  /\ phase' = "notify"
  /\ LM!Ensure(ds, s)
  /\ UNCHANGED <<turn, table, alive, ghosts>>

(* a request that is answered without the control API, or lost on the way to it *)
RpcOther(s) ==
  /\ phase = "poll"
  /\ s \in conns
  /\ phase' = "notify"
  /\ UNCHANGED <<lockVars, turn, table, alive, ghosts>>

(* handle_create_subscription_rpc tracks the session if there is room by now, and
   refuses it otherwise *)
RpcSubscribe(s) ==
  /\ phase = "poll"
  /\ s \in conns
  /\ phase' = "notify"
  /\ slots' = Track(s)
  /\ UNCHANGED <<lockVars, turn, conns, next, alive, ghosts>>

(* poll_and_dispatch_notifications is over, and the clock is read: it is not yet
   time for a keepalive, or send_session_keepalive is called *)
NotYet ==
  /\ phase = "notify"
  /\ idle < Period
  /\ phase' = "accept"
  /\ turn' = 0
  /\ UNCHANGED <<lockVars, table, alive, ghosts>>

SendKeepAlive ==
  /\ phase = "notify"
  /\ idle >= Period
  /\ phase' = "send"
  /\ turn' = 0
  /\ idle' = 0
  /\ UNCHANGED <<lockVars, table, missed, ghosts>>

KeepAliveArrives ==
  /\ phase = "send"
  /\ phase' = "sent"
  /\ LM!KeepAlive(Reported, 0)
  /\ missed' = 0
  /\ UNCHANGED <<turn, table, idle, ghosts>>

KeepAliveIsLost ==
  /\ phase = "send"
  /\ phase' = "sent"
  /\ \/ missed < MaxMissed /\ missed' = missed + 1 /\ UNCHANGED firm
     \/ missed = MaxMissed /\ UNCHANGED missed /\ firm' = {}
  /\ UNCHANGED <<lockVars, turn, table, idle, clean, asked>>

(* the answer, or the timeout of control_post_system *)
KeepAliveDone ==
  /\ phase = "sent"
  /\ phase' = "accept"
  /\ UNCHANGED <<lockVars, turn, table, alive, ghosts>>

(* Time passes while the thread waits: for a session, for a request and its answer,
   for notifications and their subscribers (no bound), for the answer to a keepalive
   (Wait), and while the process is down. *)
Tick ==
  /\ \/ phase = "down" /\ UNCHANGED <<turn, idle, firm>>
     \/ /\ phase \in {"accept", "poll", "notify"}
        /\ turn' = IF turn <= MaxTurn THEN turn + 1 ELSE turn
        /\ idle' = IF idle < Period THEN idle + 1 ELSE idle
        /\ firm' = IF turn < MaxTurn THEN firm ELSE {}
     \/ /\ phase \in {"send", "sent"} /\ idle < Wait
        /\ idle' = idle + 1
        /\ UNCHANGED <<turn, firm>>
  /\ LM!Tick
  /\ UNCHANGED <<phase, table, missed, clean, asked>>

(* NetconfSessionGC *)
Collect ==
  /\ LM!Collect
  /\ UNCHANGED <<phase, turn, table, alive, ghosts>>

Init ==
  /\ LM!Init
  /\ phase = "down"
  /\ turn = 0 /\ conns = {} /\ next = 1
  /\ slots = [i \in 1..Slots |-> Free]
  /\ idle = Period /\ missed = 0
  /\ clean = TRUE /\ asked = {} /\ firm = {}

Loop ==
  \/ Accept \/ NoEvent \/ NotYet
  \/ SendKeepAlive \/ KeepAliveArrives \/ KeepAliveIsLost \/ KeepAliveDone
  \/ \E s \in Ids : EndSession(s) \/ RpcOther(s) \/ RpcSubscribe(s)
  \/ \E s \in Ids, ds \in Targets : RpcLock(s, ds) \/ RpcUnlock(s, ds) \/ RpcUse(s, ds)

Next == Start \/ Stop \/ Loop \/ Tick \/ Collect

Spec == Init /\ [][Next]_vars
-----------------------------------------------------------------------------
(* A session that is in the table of the server keeps the lock it got until it
   gives it back or ends: the keepalives (server.c:1515) come often enough for the
   lease (locks.go:188), although the loop waits for sessions, requests,
   notifications and the keepalives themselves and some of these are lost.  Only a
   turn longer than MaxTurn, as with a commit that restarts the eNB, or more than
   MaxMissed lost keepalives in a row end this for the locks held at that time. *)
ConnectedKeepsLock == \A h \in firm : locks[h[1]] = h[2]

(* A lock that the manager says a connected session holds was taken by that session
   and not by one with the same id in an earlier process (server.c:522), if the
   reset at the start arrived. *)
LockIsOwn ==
  clean => \A ds \in Targets : locks[ds] \in conns => <<ds, locks[ds]>> \in asked

(* The table refers to connected sessions only, as the others have been freed, and
   to each of them once: what keepalives and notifications go through
   (server.c:500, 1220). *)
SlotsAreConnected ==
  /\ Tracked \subseteq conns
  /\ \A i, j \in 1..Slots : slots[i] = slots[j] /\ slots[i] # 0 => i = j

(* Nothing renews the lock of a session that has ended, also if its close was lost
   or the server ended (server.c:1508): it only grows older, and the collector takes
   it (AgingLeaseEnds of LockManager), unless a session of a later process has the
   same id. *)
EndedIsNotRenewed ==
  [][\A ds \in Targets, s \in Ids :
       locks[ds] = s /\ locks'[ds] = s /\ s \notin conns \cup conns' =>
         lockAge'[ds] >= lockAge[ds]]_vars
=============================================================================
