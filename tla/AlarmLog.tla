------------------------------ MODULE AlarmLog ------------------------------
(***************************************************************************)
(* The reader of the eNB's alarm log (internal/ems/services/               *)
(* alarm_log_reader.go).  The eNB appends lines, each in two writes; the   *)
(* log may be truncated; the reader polls it from an offset it keeps in    *)
(* memory, takes what it finds as lines, the last one whole or not, and    *)
(* raises or clears alarms.  The alarm list outlives a restart of the      *)
(* agent, the offset does not.                                             *)
(***************************************************************************)
EXTENDS Integers, Sequences

CONSTANTS
  Words,       \* what half a line may say: of "s1", "error", "clear", "plain", "huge"
  MaxWrites,   \* bound: the writes to the log
  Truncations, \* bound: how often the log is truncated
  Restarts     \* bound: how often the agent restarts

VARIABLES
  log,         \* the log: its halves of lines, of which every second ends a line
  start,       \* whether the log begins with the second half of a line
  offset,      \* where the reader goes on
  active,      \* the alarms it raised that are active
  wrote,       \* the writes so far
  truncated,   \* the truncations so far
  restarted,   \* the restarts so far
  truth,       \* history: the alarms by the whole lines of the log
  current,     \* history: nothing was written since the last poll
  torn,        \* history: a poll ended within a line
  lost,        \* history: something was truncated, or skipped, unread
  handled      \* history: the halves read in this run since the last truncation

logVars == <<log, start, offset, active, wrote, truncated, restarted, truth, current, torn, lost, handled>>

-----------------------------------------------------------------------------
(* mapSrsENBAlarmLine: what a line says if it holds these words *)
Says(words) ==
  CASE "clear" \in words -> "clear"
    [] "clear" \notin words /\ "s1" \in words -> "s1"
    [] words \cap {"clear", "s1"} = {} /\ "error" \in words -> "error"
    [] OTHER -> "plain"

(* what readNewLines makes of it *)
AfterLine(alarms, says) ==
  CASE says = "clear" -> {}
    [] says \in {"s1", "error"} -> alarms \cup {says}
    [] OTHER -> alarms

(* whether a line ends with the i-th half of the log *)
EndsLine(i) == (i + start) % 2 = 0

(* The scanner from position from + 1 on: a token ends with its line or with the
   log, and begins after the one before it. *)
EndsToken(i) == EndsLine(i) \/ i = Len(log)
TokenAt(from, i) == {log[i]} \cup (IF i > from + 1 /\ ~EndsLine(i - 1) THEN {log[i - 1]} ELSE {})

(* where it meets a token that is too long for it *)
TooLong(from) == {i \in (from + 1)..Len(log) : EndsToken(i) /\ "huge" \in TokenAt(from, i)}

(* the alarms after the tokens up to position to *)
Scanned(from, to) ==
  LET after[i \in from..to] ==
        IF i = from THEN active
        ELSE IF EndsToken(i) THEN AfterLine(after[i - 1], Says(TokenAt(from, i)))
        ELSE after[i - 1]
  IN after[to]

(* Fault: what is new in a log that has become shorter is not read *)
FromEnd == IF Len(log) < offset THEN Len(log) ELSE offset

(* the position readNewLines reads from *)
From == IF Len(log) < offset THEN 0 ELSE offset
-----------------------------------------------------------------------------
Write(w) ==
  /\ wrote < MaxWrites
  /\ wrote' = wrote + 1
  /\ log' = Append(log, w)
  /\ truth' = IF EndsLine(Len(log) + 1)
              THEN AfterLine(truth, Says({w} \cup (IF log = <<>> THEN {} ELSE {log[Len(log)]})))
              ELSE truth
  /\ current' = FALSE
  /\ lost' = (lost \/ (wrote % 2 = 1 /\ log = <<>>))
  /\ UNCHANGED <<start, offset, active, truncated, restarted, torn, handled>>

Truncate ==
  /\ truncated < Truncations
  /\ log # <<>>
  /\ truncated' = truncated + 1
  /\ log' = <<>>
  /\ start' = wrote % 2
  /\ lost' = (lost \/ ~current)
  /\ handled' = 0
  /\ UNCHANGED <<offset, active, wrote, restarted, truth, current, torn>>

(* Fault: the offset goes on only when the last half of a line is not plain *)
PollKeepingOffset(from) ==
  /\ TooLong(from) = {}
  /\ active' = Scanned(from, Len(log))
  /\ offset' = IF Len(log) > from /\ log[Len(log)] = "plain" THEN offset ELSE Len(log)
  /\ handled' = handled + (Len(log) - from)
  /\ current' = TRUE

(* a poll that reads to the end of the log *)
PollAll(from) ==
  /\ TooLong(from) = {}
  /\ active' = Scanned(from, Len(log))
  /\ offset' = Len(log)
  /\ handled' = handled + (Len(log) - from)
  /\ current' = TRUE

(* a poll that fails at a line that is too long: what is before it has been handled,
   and the offset stays *)
PollFails(from) ==
  /\ \E i \in TooLong(from) : /\ \A j \in TooLong(from) : i <= j
                              /\ active' = Scanned(from, i - 1)
  /\ UNCHANGED <<offset, handled, current>>

Poll ==
  /\ PollAll(From) \/ PollFails(From)
  /\ torn' = (torn \/ (log # <<>> /\ ~EndsLine(Len(log))))
  /\ lost' = (lost \/ (Len(log) >= offset /\ handled < offset))
  /\ UNCHANGED <<log, start, wrote, truncated, restarted, truth>>

Restart ==
  /\ restarted < Restarts
  /\ restarted' = restarted + 1
  /\ offset' = 0
  /\ handled' = 0
  /\ current' = FALSE
  /\ UNCHANGED <<log, start, active, wrote, truncated, truth, torn, lost>>

LogInit ==
  /\ log = <<>>
  /\ start = 0
  /\ offset = 0
  /\ active = {}
  /\ wrote = 0
  /\ truncated = 0
  /\ restarted = 0
  /\ truth = {}
  /\ current = TRUE
  /\ torn = FALSE
  /\ lost = FALSE
  /\ handled = 0

LogNext == (\E w \in Words : Write(w)) \/ Truncate \/ Poll \/ Restart

LogSpec == LogInit /\ [][LogNext]_logVars
-----------------------------------------------------------------------------
(* After a poll the alarms are those of the whole lines of the log, although it
   was truncated and although a restarted agent reads it all again; unless a
   poll found half a line, or something was truncated before it was read
   (readNewLines). *)
AlarmsFollowLog == current /\ ~torn /\ ~lost => active = truth

(* Within a run of the agent no line is handled twice, as long as the log is
   only appended to or truncated and no line is too long for the scanner. *)
HandledOnce == handled <= Len(log)
=============================================================================
