------------------------------ MODULE AlarmFeed ------------------------------
(***************************************************************************)
(* What the notification queue promises its reader, the NETCONF server:    *)
(* notifications are numbered in the order they are issued, and each reply *)
(* holds the next ones in that order, so that a reader sees every number   *)
(* at most once and only ever misses numbers the queue had to discard.     *)
(* Numbers start again when the agent does.                                *)
(***************************************************************************)
EXTENDS Integers

CONSTANT Cap   \* how many notifications are kept

VARIABLES
  issued, \* the last number given out
  head,   \* the last number that is no longer kept
  reply   \* the numbers in the reply on its way to the reader

feed == <<issued, head, reply>>

FeedInit == issued = 0 /\ head = 0 /\ reply = {}

(* a notification is issued, and the oldest one discarded if there is no room *)
Issue ==
  /\ issued' = issued + 1
  /\ head' = IF issued - head < Cap THEN head ELSE head + 1
  /\ UNCHANGED reply

(* a reply takes the oldest notifications *)
Take ==
  /\ reply = {}
  /\ \E n \in 1..(issued - head) :
       /\ head' = head + n
       /\ reply' = (head + 1)..(head + n)
  /\ UNCHANGED issued

(* the reply arrives, or does not *)
Answer ==
  /\ reply # {}
  /\ reply' = {}
  /\ UNCHANGED <<issued, head>>

Restart == issued' = 0 /\ head' = 0 /\ reply' = {}

FeedNext == Issue \/ Take \/ Answer \/ Restart

Feed == FeedInit /\ [][FeedNext]_feed
=============================================================================
