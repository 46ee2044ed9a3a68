------------------------------ MODULE MCPlayer ------------------------------
(* The queue a player is given and the events it reports: two conversations with no state
   in common, explored one or the other. *)
EXTENDS Player

VARIABLE part

playerVars == <<part, queueVars, telemetryVars>>

PlayerInit == part \in {"queue", "telemetry"} /\ QueueInit /\ TelemetryInit

PlayerNext ==
    /\ UNCHANGED part
    /\ \/ part = "queue" /\ QueueNext /\ UNCHANGED telemetryVars
       \/ part = "telemetry" /\ TelemetryNext /\ UNCHANGED queueVars

PlayerSpec == PlayerInit /\ [][PlayerNext]_playerVars

\* Three items of one playlist, their positions against the order of their ids, and one of
\* another that comes first and is active from time 1 on.
MCTrack == [i \in Items |-> [playlist |-> IF i <= 3 THEN 1 ELSE 2, position |-> 4 - (i % 4), duration |-> i]]
MCPriorityOf == <<1, 2>>
MCActiveTimes == <<0..20, 1..20>>
\* A channel block, a block of the first playlist, silence; and again the next day.
MCProgramme == [t \in 0..3 |-> <<0, 0, 1, 9>>[t + 1]]
MCScore == [v \in 1..MaxBuilds, d \in 0..1 |-> [i \in Items |-> (i * (v + d)) % 5]]
=============================================================================
