-------------------------- MODULE CandidateDatastore --------------------------
(***************************************************************************)
(* What the configuration store promises a NETCONF client, whatever it     *)
(* does with files, locks and restarts: a running and a candidate          *)
(* configuration, both always valid; the candidate changes by an edit or   *)
(* by being reset to the running one; the running one changes only by      *)
(* becoming the candidate, or by being read again when the agent restarts. *)
(***************************************************************************)
CONSTANT ValidConfigs   \* the configurations that validate accepts

VARIABLES running, cand

datastoreVars == <<running, cand>>

Edit == cand' \in ValidConfigs /\ UNCHANGED running

Discard == cand' = running /\ UNCHANGED running

Commit == running' = cand /\ UNCHANGED cand

Reload == running' \in ValidConfigs /\ cand' = running'

DatastoreInit == running \in ValidConfigs /\ cand = running

DatastoreNext == Edit \/ Discard \/ Commit \/ Reload

DatastoreSpec == DatastoreInit /\ [][DatastoreNext]_datastoreVars

(* As long as the agent does not restart, there is no Reload *)
SteadyNext == Edit \/ Discard \/ Commit

SteadySpec == DatastoreInit /\ [][SteadyNext]_datastoreVars
=============================================================================
