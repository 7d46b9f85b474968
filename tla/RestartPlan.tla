----------------------------- MODULE RestartPlan -----------------------------
(***************************************************************************)
(* TriggerRestart of internal/ems/worker/lifecycle.go: the restart of the  *)
(* eNB container and of the containers that depend on it, request by       *)
(* request to the Docker daemon, run by several callers at a time.  A      *)
(* restart request of the control API (handleRestart in                    *)
(* internal/ems/services/config_control.go) holds the server's mutex while *)
(* it runs; a commit (Manager.Commit in internal/ems/netconfcm/manager.go) *)
(* does not.                                                               *)
(*                                                                         *)
(* Containers are their positions in the plan: 1 is the primary, the rest  *)
(* its dependents.  Delays are steps; a request takes effect, if it does,  *)
(* before it is answered or given up.                                      *)
(***************************************************************************)
EXTENDS Integers

CONSTANTS
  Requests,    \* callers that are restart requests of the control API
  Commits,     \* callers that are commits
  N,           \* the number of containers of the plan
  MaxAttempts, \* how often startContainer tries (5 in the code)
  MaxPolls,    \* how often waitPrimaryReady asks before its deadline
  MayExit      \* whether a container may end by itself

ASSUME PlanAssumption ==
  /\ Requests \cap Commits = {}
  /\ N \in Nat \ {0}
  /\ MaxAttempts \in Nat \ {0}
  /\ MaxPolls \in Nat \ {0}
  /\ MayExit \in BOOLEAN

Callers == Requests \cup Commits
Containers == 1..N
Primary == 1

VARIABLES
  up,     \* the containers that run
  at,     \* where each caller is: "idle", "stop", "kill", "start", "ready",
          \* "delay", or "hung" in a request that is never answered
  pos,    \* the container it is working on
  tries,  \* the attempts or polls it has made
  mu,     \* the control server's mutex
  result, \* what its last restart returned, "ok" or "error"; "none" until it has
  old,    \* history: the containers not started since its restart began
  lost    \* history: the containers that ended by themselves, or that a restart
          \* stopped and then failed, and that were not started since

planVars == <<up, at, pos, tries, mu, result, old, lost>>

Went(p, where, to) ==
  /\ at' = [at EXCEPT ![p] = where]
  /\ pos' = [pos EXCEPT ![p] = to]
  /\ tries' = [tries EXCEPT ![p] = 0]

Stopped(c) ==
  /\ up' = up \ {c}
  /\ UNCHANGED <<old, lost>>

(* a container that already runs is not started again (304 Not Modified) *)
Started(c) ==
  /\ up' = up \cup {c}
  /\ old' = IF c \in up THEN old ELSE [p \in Callers |-> old[p] \ {c}]
  /\ lost' = lost \ {c}

NoEffect == UNCHANGED <<up, old, lost>>

(* TriggerRestart returns; handleRestart then unlocks the mutex *)
Return(p, r) ==
  /\ Went(p, "idle", Primary)
  /\ result' = [result EXCEPT ![p] = r]
  /\ mu' = IF p \in Requests THEN FALSE ELSE mu

(* The containers that p's plan has stopped, or may have, and not yet started *)
Owes(p) ==
  {c \in Containers :
     \/ at[p] = "stop" /\ c < pos[p]
     \/ at[p] = "kill" /\ c <= pos[p]
     \/ at[p] = "start" /\ pos[p] <= c
     \/ at[p] \in {"ready", "delay", "hung"} /\ c # Primary}

(* an error return leaves the containers as they are: what the plan owes stays
   down, unless another caller starts it *)
GiveUp(p) ==
  /\ Return(p, "error")
  /\ UNCHANGED <<up, old>>
  /\ lost' = lost \cup (Owes(p) \ up)
-----------------------------------------------------------------------------
(* Fault: handleRestart starts the plan without asking for the mutex *)
BeginUnlocked(p) ==
  /\ at[p] = "idle"
  /\ mu' = (mu \/ p \in Requests)
  /\ Went(p, "stop", Primary)
  /\ old' = [old EXCEPT ![p] = Containers]
  /\ result' = [result EXCEPT ![p] = "none"]
  /\ UNCHANGED <<up, lost>>

(* handleRestart takes the mutex with TryLock and refuses if it is held;
   Manager.Commit calls TriggerRestart as it is *)
Begin(p) ==
  /\ at[p] = "idle"
  /\ p \in Requests => ~mu
  /\ mu' = (mu \/ p \in Requests)
  /\ Went(p, "stop", Primary)
  /\ old' = [old EXCEPT ![p] = Containers]
  /\ result' = [result EXCEPT ![p] = "none"]
  /\ UNCHANGED <<up, lost>>

(* the loops of TriggerRestart: the next container to stop, or the first start *)
NextStop(p) ==
  IF pos[p] < N THEN Went(p, "stop", pos[p] + 1) ELSE Went(p, "start", Primary)

StopContainer(p) ==
  /\ at[p] = "stop"
  /\ Stopped(pos[p])
  /\ NextStop(p)
  /\ UNCHANGED <<mu, result>>

(* Fault: an error of the stop request is logged and the plan goes on *)
StopErrorIgnored(p) ==
  /\ at[p] = "stop"
  /\ NoEffect
  /\ NextStop(p)
  /\ UNCHANGED <<mu, result>>

(* an error or a timeout of the stop request, after which the container may be
   down all the same: stopContainer goes on to kill it *)
StopError(p) ==
  /\ at[p] = "stop"
  /\ Stopped(pos[p]) \/ NoEffect
  /\ Went(p, "kill", pos[p])
  /\ UNCHANGED <<mu, result>>

KillContainer(p) ==
  /\ at[p] = "kill"
  /\ Stopped(pos[p])
  /\ NextStop(p)
  /\ UNCHANGED <<mu, result>>

KillError(p) ==
  /\ at[p] = "kill"
  /\ \/ GiveUp(p)
     \/ /\ Return(p, "error")
        /\ up' = up \ {pos[p]}
        /\ UNCHANGED old
        /\ lost' = lost \cup (Owes(p) \ up')
-----------------------------------------------------------------------------
(* the primary is awaited; a dependent is followed by the next one *)
AfterStart(p) ==
  IF pos[p] = Primary THEN Went(p, "ready", Primary) /\ UNCHANGED <<mu, result>>
  ELSE IF pos[p] < N
  THEN Went(p, "start", pos[p] + 1) /\ UNCHANGED <<mu, result>>
  ELSE Return(p, "ok")

StartContainer(p) ==
  /\ at[p] = "start"
  /\ Started(pos[p])
  /\ AfterStart(p)

(* Fault: the count of attempts starts over, startContainer never gives up *)
RetryForever(p) ==
  /\ at[p] = "start"
  /\ NoEffect
  /\ tries' = [tries EXCEPT ![p] = (@ + 1) % MaxAttempts]
  /\ UNCHANGED <<at, pos, mu, result>>

(* an error or a timeout of the start request, which may have had its effect *)
StartRetry(p) ==
  /\ at[p] = "start"
  /\ tries[p] + 1 < MaxAttempts
  /\ Started(pos[p]) \/ NoEffect
  /\ tries' = [tries EXCEPT ![p] = @ + 1]
  /\ UNCHANGED <<at, pos, mu, result>>

StartError(p) ==
  /\ at[p] = "start"
  /\ tries[p] + 1 = MaxAttempts
  /\ \/ GiveUp(p)
     \/ /\ Return(p, "error")
        /\ up' = up \cup {pos[p]}
        /\ old' = IF pos[p] \in up THEN old
                  ELSE [q \in Callers |-> old[q] \ {pos[p]}]
        /\ lost' = (lost \cup (Owes(p) \ up)) \ {pos[p]}

(* isContainerRunning answers yes *)
Ready(p) ==
  /\ at[p] = "ready"
  /\ Primary \in up
  /\ Went(p, "delay", Primary)
  /\ UNCHANGED <<up, mu, result, old, lost>>

(* it answers no, or with an error *)
NotReady(p) ==
  /\ at[p] = "ready"
  /\ \/ /\ tries[p] + 1 < MaxPolls
        /\ tries' = [tries EXCEPT ![p] = @ + 1]
        /\ UNCHANGED <<up, at, pos, mu, result, old, lost>>
     \/ /\ tries[p] + 1 = MaxPolls
        /\ GiveUp(p)

(* The inspect request has no timeout of its own and the callers pass
   context.Background(): it may never be answered *)
Hang(p) ==
  /\ at[p] = "ready"
  /\ at' = [at EXCEPT ![p] = "hung"]
  /\ UNCHANGED <<up, pos, tries, mu, result, old, lost>>

(* Fault: the last dependent is not started again *)
DelayShort(p) ==
  /\ at[p] = "delay"
  /\ IF N > 2 THEN Went(p, "start", 2) /\ UNCHANGED <<mu, result>>
     ELSE Return(p, "ok")
  /\ UNCHANGED <<up, old, lost>>

(* waitAfterPrimaryStart, and the loop over the dependents if there are any *)
Delay(p) ==
  /\ at[p] = "delay"
  /\ IF N > 1 THEN Went(p, "start", 2) /\ UNCHANGED <<mu, result>>
     ELSE Return(p, "ok")
  /\ UNCHANGED <<up, old, lost>>

(* a container ends by itself *)
Exit ==
  /\ MayExit
  /\ \E c \in up : /\ up' = up \ {c}
                   /\ lost' = lost \cup {c}
  /\ UNCHANGED <<at, pos, tries, mu, result, old>>
-----------------------------------------------------------------------------
Step(p) ==
  \/ StopContainer(p) \/ StopError(p) \/ KillContainer(p) \/ KillError(p)
  \/ StartContainer(p) \/ StartRetry(p) \/ StartError(p)
  \/ Ready(p) \/ NotReady(p) \/ Hang(p) \/ Delay(p)

PlanInit ==
  /\ up = Containers
  /\ at = [p \in Callers |-> "idle"]
  /\ pos = [p \in Callers |-> Primary]
  /\ tries = [p \in Callers |-> 0]
  /\ mu = FALSE
  /\ result = [p \in Callers |-> "none"]
  /\ old = [p \in Callers |-> {}]
  /\ lost = {}

PlanNext == (\E p \in Callers : Begin(p) \/ Step(p)) \/ Exit

PlanSpec == PlanInit /\ [][PlanNext]_planVars

(* every request is answered or times out, except the inspect request, and the
   delays pass: a caller that can go on does *)
FairSpec == PlanSpec /\ \A p \in Callers : WF_planVars(Step(p))
-----------------------------------------------------------------------------
(* A plan is carried out whatever the others do.  A restart that returns without
   an error has restarted: every container of the plan was started after it began,
   whoever started it.  And a dependent is started only while the primary runs, the
   order the comment in TriggerRestart gives, unless the primary is lost or a
   commit, whom nothing keeps from stopping it, restarts at the same time. *)
PlanIsCarriedOut ==
  [][/\ \A p \in Callers :
          at[p] # "idle" /\ at'[p] = "idle" /\ result'[p] = "ok" => old'[p] = {}
     /\ \A c \in Containers \ {Primary} : c \in up' \ up =>
          Primary \in up \cup lost \/ \E k \in Commits : at[k] # "idle"]_planVars

(* When no restart is in progress every container runs, but for those that ended
   by themselves or that a failed restart had stopped itself: restarts that overlap
   do not leave the work of one undone by the other. *)
QuietMeansUp ==
  (\A p \in Callers : at[p] = "idle") => Containers \ up \subseteq lost

(* Every restart ends, and the control API takes restart requests again, unless
   the Docker daemon leaves an inspect request unanswered. *)
RestartsEnd ==
  \A p \in Callers : at[p] # "idle" ~> at[p] \in {"idle", "hung"}
=============================================================================
