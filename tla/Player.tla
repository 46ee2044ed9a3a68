------------------------------- MODULE Player --------------------------------
(***************************************************************************)
(* The two conversations of a player: it asks the gateway for its queue,   *)
(* and reports what it does to Django.  They have no state in common, and  *)
(* their composition is the conjunction of their specifications.           *)
(***************************************************************************)
EXTENDS PlayerQueue, DeviceTelemetry

\* The variables of both modules hold what the messages and columns can hold.
PlayerTypesOK == QueueTypeOK /\ TelemetryTypeOK
=============================================================================
