-------------------------- MODULE DeviceTelemetry --------------------------
(***************************************************************************)
(* The events a player reports and the DeviceState made of them            *)
(* (apps/devices/services.py record_device_telemetry, handlers.go          *)
(* playerTelemetry).                                                       *)
(*                                                                         *)
(* The player numbers its events, keeps those whose reception it has not   *)
(* been told of and sends them in batches as it likes; a batch is lost,    *)
(* repeated, delayed, overtaken.  So any of the events it has made may     *)
(* arrive at any time, in any batch and order.  The device's row is locked *)
(* while a batch is recorded, so a batch is one action; it is recorded     *)
(* whole or, one event being too old or of the future, not at all.         *)
(*                                                                         *)
(* What an event reports is the event: of each field the state holds the   *)
(* event that wrote it.  Whether a manifest or asset is the zone's is left *)
(* open; a batch with one that is not is refused and changes nothing.      *)
(***************************************************************************)
EXTENDS Naturals, Sequences, FiniteSets, Functions

CONSTANTS
    Fields,       \* of the state: position, volume, connectivity ...
    MaxAge, Skew, \* how old an event may be, and how far ahead the player's clock
    BatchSize,    \* at most so many events in a batch
    LastTick,     \* bounds of the exploration: Django's clock,
    MaxEvents,    \* the events the player makes
    MaxRestarts   \* and how often it starts its numbering again

VARIABLES
    clock,
    made,        \* the events the player has made
    counter, restarts,
    log,         \* DeviceEvent, the numbers in "made" of the events recorded
    state,       \* DeviceState, by field the number of the event that wrote it
    lastSequence

telemetryVars == <<clock, made, counter, restarts, log, state, lastSequence>>

Ticks == 0..LastTick
Events == [sequence : 1..MaxEvents, occurred : 0..LastTick + Skew, reports : SUBSET Fields]
Numbered == 1..MaxEvents

ASSUME TelemetryAssumption ==
    /\ MaxAge \in Nat /\ Skew \in Nat /\ LastTick \in Nat /\ MaxEvents \in Nat
    /\ BatchSize \in Nat /\ MaxRestarts \in Nat

TelemetryTypeOK ==
    /\ clock \in Ticks
    /\ made \in Seq(Events) /\ Len(made) <= MaxEvents
    /\ counter \in 0..MaxEvents /\ restarts \in 0..MaxRestarts
    /\ log \in Seq(DOMAIN made) /\ IsInjective(log)
    /\ state \in [Fields -> {0} \cup Range(log)]
    /\ lastSequence \in 0..MaxEvents

TelemetryInit ==
    /\ clock = 0
    /\ made = <<>> /\ counter = 0 /\ restarts = 0
    /\ log = <<>>
    /\ state = [f \in Fields |-> 0]
    /\ lastSequence = 0

----------------------------------------------------------------------------
(* The player *)

Happen(occurred, reports) ==
    /\ Len(made) < MaxEvents
    /\ made' = Append(made, [sequence |-> counter + 1, occurred |-> occurred, reports |-> reports])
    /\ counter' = counter + 1
    /\ UNCHANGED <<clock, restarts, log, state, lastSequence>>

\* A player that has lost its storage numbers from 1 again.
RestartPlayer ==
    /\ restarts < MaxRestarts /\ counter > 0
    /\ restarts' = restarts + 1
    /\ counter' = 0
    /\ UNCHANGED <<clock, made, log, state, lastSequence>>

Pass ==
    /\ clock < LastTick
    /\ clock' = clock + 1
    /\ UNCHANGED <<made, counter, restarts, log, state, lastSequence>>

----------------------------------------------------------------------------
(* Django *)

Batches == UNION {[1..n -> DOMAIN made] : n \in 1..BatchSize}

InRange(n) == clock <= made[n].occurred + MaxAge /\ made[n].occurred <= clock + Skew

\* The mistake of taking what arrives last for the newest.
Overtaken_Never(s, n) == FALSE

\* One event of a batch: known, it counts as a duplicate; overtaken, it is recorded and no
\* more; otherwise it is the newest and what it reports replaces what was there.
Overtaken(s, n) == made[n].sequence <= s.last

Write(s, n) ==
    [log |-> Append(s.log, n),
     state |-> IF Overtaken(s, n) THEN s.state
               ELSE [f \in Fields |-> IF f \in made[n].reports THEN n ELSE s.state[f]],
     last |-> IF Overtaken(s, n) THEN s.last ELSE made[n].sequence]

\* The mistake of recording an event each time it is received.
Take_Again(s, n) == Write(s, n)

Take(s, n) == IF n \in Range(s.log) THEN s ELSE Write(s, n)

\* What is recorded after each event of a batch.
Recorded(batch) ==
    LET taken[n \in 0..Len(batch)] ==
            IF n = 0 THEN [log |-> log, state |-> state, last |-> lastSequence]
            ELSE Take(taken[n - 1], batch[n])
    IN  taken

RecordBatch(batch) ==
    /\ \A n \in Range(batch) : InRange(n)
    /\ LET end == Recorded(batch)[Len(batch)]
       IN  log' = end.log /\ state' = end.state /\ lastSequence' = end.last
    /\ UNCHANGED <<clock, made, counter, restarts>>

TelemetryNext ==
    \/ \E occurred \in 0..clock + Skew, reports \in SUBSET Fields : Happen(occurred, reports)
    \/ RestartPlayer \/ Pass
    \/ \E batch \in Batches : RecordBatch(batch)

TelemetrySpec == TelemetryInit /\ [][TelemetryNext]_telemetryVars

----------------------------------------------------------------------------
(* Properties *)

\* When it came in as the i-th of the log l, the event had a higher number than all before it.
Leads(l, i) == \A j \in 1..i - 1 : made[l[j]].sequence < made[l[i]].sequence

\* The places in l of the events that were the newest when they came and report f.
Shown(l, f) == {i \in DOMAIN l : Leads(l, i) /\ f \in made[l[i]].reports}

\* A field shows the last event to report it among those that were newer, when they came,
\* than all that had come before; an event that came behind a newer one shows nowhere, what
\* the newer one does not report included.  So whatever is repeated, split, delayed and
\* reordered, no event is undone by an older one, and the newest shows in full
\* (record_device_telemetry, last_sequence).
StateIsNewest ==
    /\ \A f \in Fields :
        \/ state[f] = 0 /\ Shown(log, f) = {}
        \/ \E i \in Shown(log, f) : state[f] = log[i] /\ \A j \in Shown(log, f) : j <= i
    /\ \A n \in Range(log) : made[n].sequence <= lastSequence
=============================================================================
