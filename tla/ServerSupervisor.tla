-------------------------- MODULE ServerSupervisor --------------------------
(***************************************************************************)
(* The NETCONF server process under its supervisor: Supervisor.Run with    *)
(* its backoff (internal/ems/worker), ProcessServer.Run (internal/ems/     *)
(* netconf/process.go) as the worker, and the health that NetconfServer    *)
(* derives from them.  A process may fail to start, exit cleanly, crash    *)
(* early or after long, and ignore SIGTERM.                                *)
(***************************************************************************)
EXTENDS Integers, FiniteSetsExt

CONSTANTS
  Base,       \* the first delay
  MaxDelay,   \* the longest delay
  Jitter,     \* the greatest addition to a delay
  MaxCrashes  \* bound: early crashes in a row that are counted

ASSUME BackoffAssumption ==
  /\ {Base, MaxDelay} \subseteq Nat \ {0} /\ Base <= MaxDelay
  /\ {Jitter, MaxCrashes} \subseteq Nat

VARIABLES
  pc,         \* where Supervisor.Run and, within it, ProcessServer.Run are
  live,       \* the server processes that run
  done,       \* how the process ended, as cmd.Wait tells: "", "clean" or "crash"
  err,        \* the worker returned an error
  long,       \* the worker ran for ResetAfter
  cur,        \* ExponentialBackoff.cur
  delay,      \* the delay that is waited for
  cancelled,  \* the context is cancelled
  health,     \* the NETCONF component of the health tracker
  early,      \* history: early crashes in a row
  killed      \* SIGKILL was sent

supVars == <<pc, live, done, err, long, cur, delay, cancelled, health, early, killed>>

-----------------------------------------------------------------------------
(* OnStart: the component is up before its process is *)
OnStart ==
  /\ pc = "start"
  /\ pc' = "launch"
  /\ health' = "up"
  /\ UNCHANGED <<live, done, err, long, cur, delay, cancelled, early, killed>>

(* ProcessServer.Run up to the select: cmd.Start, or its failure *)
Launch ==
  /\ pc = "launch"
  /\ pc' = "run"
  /\ live' = live + 1
  /\ done' = ""
  /\ UNCHANGED <<err, long, cur, delay, cancelled, health, early, killed>>

LaunchFails ==
  /\ pc = "launch"
  /\ pc' = "exit"
  /\ err' = TRUE
  /\ long' = FALSE
  /\ UNCHANGED <<live, done, cur, delay, cancelled, health, early, killed>>

(* the process ends, on its own or of a signal *)
ProcessEnds(how) ==
  /\ live > 0
  /\ done = ""
  /\ live' = live - 1
  /\ done' = how
  /\ UNCHANGED <<pc, err, long, cur, delay, cancelled, health, early, killed>>

Dies ==
  /\ killed
  /\ ProcessEnds("crash")

(* Fault: the worker returns when the output of the process is closed *)
SeesOutputClosed ==
  /\ pc = "run"
  /\ pc' = "exit"
  /\ err' = (done # "clean")
  /\ long' \in BOOLEAN
  /\ UNCHANGED <<live, done, cur, delay, cancelled, health, early, killed>>

(* the select of ProcessServer.Run: the end of the process is wrapped, which
   makes no error of a clean one *)
SeesExit ==
  /\ pc = "run"
  /\ done # ""
  /\ pc' = "exit"
  /\ err' = (done = "crash")
  /\ long' \in BOOLEAN
  /\ UNCHANGED <<live, done, cur, delay, cancelled, health, early, killed>>

(* Fault: the process is left to react to SIGTERM *)
Abandons ==
  /\ pc = "run"
  /\ cancelled
  /\ pc' = "exit"
  /\ err' = FALSE
  /\ long' \in BOOLEAN
  /\ UNCHANGED <<live, done, cur, delay, cancelled, health, early, killed>>

(* SIGTERM, and the wait for the process of at most processKillTimeout *)
Terminate ==
  /\ pc = "run"
  /\ cancelled
  /\ pc' = "stop"
  /\ UNCHANGED <<live, done, err, long, cur, delay, cancelled, health, early, killed>>

Stopped ==
  /\ pc = "stop"
  /\ \/ done # "" /\ UNCHANGED killed
     \/ killed' = TRUE
  /\ pc' = "exit"
  /\ err' = FALSE
  /\ long' \in BOOLEAN
  /\ UNCHANGED <<live, done, cur, delay, cancelled, health, early>>

(* Fault: the component goes down only when the supervisor gives up *)
OnExitQuiet ==
  /\ pc = "exit"
  /\ pc' = IF cancelled \/ ~err THEN "returned" ELSE "crashed"
  /\ UNCHANGED <<live, done, err, long, cur, delay, cancelled, health, early, killed>>

(* OnExit, then the returns of Supervisor.Run *)
OnExit ==
  /\ pc = "exit"
  /\ health' = IF err /\ ~cancelled THEN "down" ELSE health
  /\ pc' = IF cancelled \/ ~err THEN "returned" ELSE "crashed"
  /\ UNCHANGED <<live, done, err, long, cur, delay, cancelled, early, killed>>

(* Fault: any uptime resets the delay *)
NextDelayReset(c) == Base

(* ExponentialBackoff.Next *)
NextDelay(c) == IF long \/ c = 0 THEN Base ELSE Min({2 * c, MaxDelay})

Backoff ==
  /\ pc = "crashed"
  /\ pc' = "wait"
  /\ cur' = NextDelay(cur)
  /\ delay' \in cur'..(cur' + Jitter)
  /\ early' = IF long THEN 1 ELSE Min({early + 1, MaxCrashes})
  /\ UNCHANGED <<live, done, err, long, cancelled, health, killed>>

(* Fault: a worker that crashes for the MaxCrashes-th time in a row is given up *)
AgainOrGiveUp ==
  /\ pc = "wait"
  /\ pc' = IF early = MaxCrashes THEN "returned" ELSE "start"
  /\ UNCHANGED <<live, done, err, long, cur, delay, cancelled, health, early, killed>>

Again ==
  /\ pc = "wait"
  /\ pc' = "start"
  /\ UNCHANGED <<live, done, err, long, cur, delay, cancelled, health, early, killed>>

StopsWaiting ==
  /\ pc = "wait"
  /\ cancelled
  /\ pc' = "returned"
  /\ UNCHANGED <<live, done, err, long, cur, delay, cancelled, health, early, killed>>

Cancel ==
  /\ ~cancelled
  /\ cancelled' = TRUE
  /\ UNCHANGED <<pc, live, done, err, long, cur, delay, health, early, killed>>

SupInit ==
  /\ pc = "start"
  /\ live = 0
  /\ done = ""
  /\ err = FALSE
  /\ long = FALSE
  /\ cur = 0
  /\ delay = 0
  /\ cancelled = FALSE
  /\ health = "unknown"
  /\ early = 0
  /\ killed = FALSE

Supervise == OnStart \/ Launch \/ LaunchFails \/ SeesExit \/ Terminate \/ Stopped
               \/ OnExit \/ Backoff \/ Again \/ StopsWaiting
Process == Dies \/ \E how \in {"clean", "crash"} : ProcessEnds(how)

SupNext == Supervise \/ Process \/ Cancel

(* The supervisor runs, and a killed process dies; nothing else makes a process
   end, and the context need not be cancelled. *)
SupSpec == SupInit /\ [][SupNext]_supVars /\ WF_supVars(Supervise) /\ WF_supVars(Dies)
-----------------------------------------------------------------------------
(* There is never a second server process: a new one is started only after the
   last one ended (ProcessServer.Run returns with the process or for good). *)
OneServer == live <= 1 /\ (pc \in {"start", "launch", "crashed", "wait"} => live = 0)

(* What CrashIsRestarted says of the delays.  A server that crashes again and again is restarted less and less often, up
   to the limit: after n early crashes in a row the delay has doubled n - 1
   times (ExponentialBackoff.Next). *)
CrashLoopSlows ==
  pc = "wait" => /\ delay >= Min({Base * 2^(early - 1), MaxDelay})
                 /\ delay <= MaxDelay + Jitter

(* The component is shown up only while the server runs, is being started, or
   has just ended; after that only if it ended cleanly or of the shutdown. *)
UpMeansServing ==
  health = "up" /\ live = 0 /\ pc \notin {"launch", "run", "exit"} =>
    cancelled \/ (pc = "returned" /\ done = "clean")

(* A server that crashed is tried again, unless the agent shuts down, and one that
   crashes in a loop is tried less and less often (ProcessServer's supervision,
   ExponentialBackoff.Next). *)
CrashIsRestarted ==
  /\ []CrashLoopSlows
  /\ (pc = "crashed") ~> (pc = "launch" \/ cancelled)

(* After the context is cancelled Run returns, and no server process outlives it
   for good, not even one that ignores SIGTERM. *)
ShutdownEndsServer == cancelled ~> (pc = "returned" /\ live = 0)
=============================================================================
