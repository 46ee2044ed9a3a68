--------------------------- MODULE DeviceCommands --------------------------
(***************************************************************************)
(* Remote commands: the panel queues them (create_device_command), a       *)
(* player's poll takes the oldest ones (deliver_device_commands) and the   *)
(* player answers each (acknowledge_device_command).  The gateway passes   *)
(* polls and answers through (internal/player/service.go 404-416).         *)
(*                                                                         *)
(* Creating looks for the idempotency key before it locks the device, so   *)
(* it is two actions.  Delivering and answering lock the command rows they *)
(* write and are one each.  A poll's answer may be lost on its way to the  *)
(* player, and the player may send, repeat and delay any answer to a       *)
(* command it holds.  Only a device in service can poll or answer.         *)
(*                                                                         *)
(* Payloads, results and error texts are left out; expires_at is           *)
(* abstracted to the moment it is passed, and created_at to the order in   *)
(* which the device's lock lets the rows in.                               *)
(***************************************************************************)
EXTENDS Naturals, FiniteSets

CONSTANTS
    Devices, Commands, Keys,
    Operators,   \* panel requests that can be under way together
    NoKey,       \* a request without idempotency_key
    Nobody,      \* no device
    Types,       \* the command types the panel asks for
    Results,     \* the outcomes a command may have on the player
    BatchSize    \* BM_PLAYER_COMMAND_BATCH_SIZE

ApprovedTypes ==
    {"SET_VOLUME", "MUTE", "UNMUTE", "RESTART_PLAYBACK", "FORCE_SYNC", "ENABLE", "DISABLE"}

ASSUME CommandAssumption ==
    /\ NoKey \notin Keys
    /\ Nobody \notin Devices
    /\ Types \subseteq ApprovedTypes
    /\ Results \subseteq {"EXECUTED", "FAILED"}
    /\ BatchSize \in Nat \ {0}
    /\ IsFiniteSet(Commands)

VARIABLES
    device,      \* DeviceCommand.device, Nobody before the row exists
    type,        \* DeviceCommand.command_type
    key,         \* DeviceCommand.idempotency_key
    issued,      \* rank of created_at
    status,      \* DeviceCommand.status
    expired,     \* commands past their expires_at
    asked,       \* per operator, the creation past the look-up of its key
    inTransit,   \* commands on their way to a player that does not hold them yet
    held,        \* commands that reached the player
    outcome,     \* what became of a command on the player
    inService    \* devices whose requests pass authentication

rowVars == <<device, type, key, issued, status>>
playerVars == <<inTransit, held, outcome>>
vars == <<rowVars, expired, asked, playerVars, inService>>

Terminal == {"EXECUTED", "FAILED"}
StatusValues == {"PENDING", "DELIVERED", "ACKNOWLEDGED", "EXPIRED", "CANCELLED"} \cup Terminal

Exists(c) == device[c] # Nobody

Requests == [device : Devices, type : Types, key : Keys \cup {NoKey}]
NoRequest == [device |-> Nobody, type |-> "NONE", key |-> NoKey]

TypeOK ==
    /\ device \in [Commands -> Devices \cup {Nobody}]
    /\ type \in [Commands -> Types \cup {"NONE"}]
    /\ key \in [Commands -> Keys \cup {NoKey}]
    /\ issued \in [Commands -> Nat]
    /\ status \in [Commands -> StatusValues]
    /\ expired \subseteq Commands
    /\ asked \in [Operators -> Requests \cup {NoRequest}]
    /\ inTransit \subseteq Commands
    /\ held \subseteq Commands
    /\ outcome \in [Commands -> Terminal \cup {"NONE"}]
    /\ inService \subseteq Devices
    /\ \A c \in Commands : Exists(c) => type[c] # "NONE"

Init ==
    /\ device = [c \in Commands |-> Nobody]
    /\ type = [c \in Commands |-> "NONE"]
    /\ key = [c \in Commands |-> NoKey]
    /\ issued = [c \in Commands |-> 0]
    /\ status = [c \in Commands |-> "PENDING"]
    /\ expired = {}
    /\ asked = [o \in Operators |-> NoRequest]
    /\ inTransit = {}
    /\ held = {}
    /\ outcome = [c \in Commands |-> "NONE"]
    /\ inService = Devices

----------------------------------------------------------------------------
(* The panel *)

\* The types that make each other obsolete while they wait.
Family(t) ==
    CASE t \in {"SET_VOLUME", "MUTE", "UNMUTE"} -> {"SET_VOLUME", "MUTE", "UNMUTE"}
      [] t \in {"ENABLE", "DISABLE"}            -> {"ENABLE", "DISABLE"}
      [] OTHER                                  -> {}

KeyTaken_Unchecked(k) == FALSE
KeyTaken(k) == k # NoKey /\ \E c \in Commands : Exists(c) /\ key[c] = k

Issued(d) == {c \in Commands : device[c] = d}

\* The waiting commands that a new one cancels.
Superseded_None(d, t) == {}
Superseded_Delivered(d, t) ==
    {c \in Issued(d) : type[c] \in Family(t) /\ status[c] \in {"PENDING", "DELIVERED"}}
Superseded(d, t) == {c \in Issued(d) : type[c] \in Family(t) /\ status[c] = "PENDING"}

\* create_device_command up to the device lock, for a request with a key.  A key
\* that is known is answered with its command, whatever device and type are asked.
AskCommand(o, request) ==
    /\ request.key # NoKey
    /\ asked[o] = NoRequest
    /\ ~KeyTaken(request.key)
    /\ asked' = [asked EXCEPT ![o] = request]
    /\ UNCHANGED <<rowVars, expired, playerVars, inService>>

\* With the device locked.  The status of the device is not looked at.
Insert(request, c) ==
    /\ ~KeyTaken(request.key)
    /\ ~Exists(c)
    /\ device' = [device EXCEPT ![c] = request.device]
    /\ type' = [type EXCEPT ![c] = request.type]
    /\ key' = [key EXCEPT ![c] = request.key]
    /\ issued' = [issued EXCEPT ![c] = Cardinality({b \in Commands : Exists(b)}) + 1]
    /\ status' = [b \in Commands |->
                    IF b \in Superseded(request.device, request.type)
                    THEN "CANCELLED" ELSE status[b]]
    /\ UNCHANGED <<expired, playerVars, inService>>

CreateKeyedCommand(o, c) ==
    /\ asked[o] # NoRequest
    /\ Insert(asked[o], c)
    /\ asked' = [asked EXCEPT ![o] = NoRequest]

\* Without a key there is nothing to look up.
CreateCommand(d, t, c) ==
    /\ Insert([device |-> d, type |-> t, key |-> NoKey], c)
    /\ UNCHANGED asked

\* Somebody has used the key since the look-up: the insertion breaks the unique
\* constraint, in full_clean or in the database, and nothing is written.
RefuseCreation(o) ==
    /\ asked[o] # NoRequest
    /\ KeyTaken(asked[o].key)
    /\ asked' = [asked EXCEPT ![o] = NoRequest]
    /\ UNCHANGED <<rowVars, expired, playerVars, inService>>

----------------------------------------------------------------------------
(* The player's poll *)

\* What the first UPDATE of deliver_device_commands expires.
Overdue_Pending(d) == {c \in Issued(d) : status[c] = "PENDING" /\ c \in expired}
Overdue(d) == {c \in Issued(d) : status[c] \in {"PENDING", "DELIVERED"} /\ c \in expired}

Deliverable(d) ==
    {c \in Issued(d) : status[c] \in {"PENDING", "DELIVERED"} /\ c \notin expired}

\* The oldest BatchSize of them, delivered before or not.
Batch_Newest(d) ==
    {c \in Deliverable(d) :
        Cardinality({b \in Deliverable(d) : issued[b] > issued[c]}) < BatchSize}
Batch(d) ==
    {c \in Deliverable(d) :
        Cardinality({b \in Deliverable(d) : issued[b] < issued[c]}) < BatchSize}

DeliverCommands(d) ==
    /\ d \in inService
    /\ status' = [c \in Commands |-> CASE c \in Overdue(d) -> "EXPIRED"
                                       [] c \in Batch(d)   -> "DELIVERED"
                                       [] OTHER            -> status[c]]
    /\ inTransit' = inTransit \cup (Batch(d) \ held)
    /\ UNCHANGED <<device, type, key, issued, expired, asked, held, outcome, inService>>

----------------------------------------------------------------------------
(* The player and the network *)

Receive(c) ==
    /\ c \in inTransit
    /\ inTransit' = inTransit \ {c}
    /\ held' = held \cup {c}
    /\ UNCHANGED <<rowVars, expired, asked, outcome, inService>>

LoseAnswer(c) ==
    /\ c \in inTransit
    /\ inTransit' = inTransit \ {c}
    /\ UNCHANGED <<rowVars, expired, asked, held, outcome, inService>>

\* The player carries a command out, once.
Execute(c, result) ==
    /\ c \in held
    /\ outcome[c] = "NONE"
    /\ outcome' = [outcome EXCEPT ![c] = result]
    /\ UNCHANGED <<rowVars, expired, asked, inTransit, held, inService>>

----------------------------------------------------------------------------
(* The player's answers *)

\* The answers the player may send now, for the first time or again; any other
\* word is refused by PlayerCommandAckSerializer.
Answers_AnyWord(c) == {"ACKNOWLEDGED", outcome[c]}
Answers(c) == {"ACKNOWLEDGED"} \cup ({outcome[c]} \ {"NONE"})

\* acknowledge_device_command looks at the time first; the EXPIRED it writes on
\* this path is rolled back by the exception that follows.
Refused_Never(c, answer) == FALSE
Refused(c, answer) ==
    \/ c \in expired
    \/ status[c] \in Terminal /\ status[c] # answer

AcknowledgeCommand(c, answer) ==
    /\ c \in held
    /\ device[c] \in inService
    /\ ~Refused(c, answer)
    /\ status' = [status EXCEPT ![c] = answer]
    /\ UNCHANGED <<device, type, key, issued, expired, asked, playerVars, inService>>

----------------------------------------------------------------------------
(* The environment *)

Expire(c) ==
    /\ Exists(c)
    /\ c \notin expired
    /\ expired' = expired \cup {c}
    /\ UNCHANGED <<rowVars, asked, playerVars, inService>>

\* The device is suspended, archived or revoked; or its session is back.
LoseService(d) ==
    /\ inService' = inService \ {d}
    /\ UNCHANGED <<rowVars, expired, asked, playerVars>>

RegainService(d) ==
    /\ inService' = inService \cup {d}
    /\ UNCHANGED <<rowVars, expired, asked, playerVars>>

----------------------------------------------------------------------------

Next ==
    \/ \E d \in Devices :
        \/ \E t \in Types, c \in Commands : CreateCommand(d, t, c)
        \/ DeliverCommands(d)
        \/ LoseService(d)
        \/ RegainService(d)
    \/ \E o \in Operators :
        \/ \E request \in Requests : AskCommand(o, request)
        \/ \E c \in Commands : CreateKeyedCommand(o, c)
        \/ RefuseCreation(o)
    \/ \E c \in Commands :
        \/ Receive(c)
        \/ LoseAnswer(c)
        \/ \E result \in Results : Execute(c, result)
        \/ \E answer \in Answers(c) : AcknowledgeCommand(c, answer)
        \/ Expire(c)

Spec == Init /\ [][Next]_vars

\* A device in service polls (the player's timer), and every command's five
\* minutes come to an end.
Fairness ==
    /\ \A d \in Devices : WF_vars(DeliverCommands(d))
    /\ \A c \in Commands : WF_vars(Expire(c))

FairSpec == Spec /\ Fairness

----------------------------------------------------------------------------
(* Properties *)

\* While two commands of a family wait, only the newer one does, and the newest
\* is never cancelled: the player ends up with the operator's last wish
\* (services.py 430-435), also when two operators press at once.
LastWishStands ==
    \A b, c \in Commands :
        /\ Exists(b) /\ device[b] = device[c] /\ type[b] \in Family(type[c])
        /\ issued[b] < issued[c]
        => /\ status[b] # "PENDING"
           /\ status[c] = "CANCELLED" =>
                \E e \in Issued(device[c]) :
                    issued[e] > issued[c] /\ type[e] \in Family(type[c])

\* What has been handed to the player is not withdrawn behind its back: only
\* commands that never left are cancelled.
HandedOverNotCancelled ==
    \A c \in inTransit \cup held : status[c] # "CANCELLED"

\* The poll takes commands in the order they were given: none overtakes an older
\* one that could have been delivered in its place (services.py 557).
NoOvertaking ==
    \A b, c \in Commands :
        /\ Exists(b) /\ device[b] = device[c] /\ issued[b] < issued[c]
        /\ c \in inTransit \cup held
        => status[b] # "PENDING" \/ b \in expired

\* A key names one command of the company, however many requests carry it at once.
OneCommandPerKey ==
    \A b, c \in Commands :
        Exists(b) /\ Exists(c) /\ key[b] # NoKey /\ key[b] = key[c] => b = c

\* The first definitive result stays: repeated, delayed and out-of-order answers
\* and later polls leave it alone (services.py 575-580).
ResultIsFinal ==
    [][\A c \in Commands : status[c] \in Terminal => status'[c] = status[c]]_vars

\* A device that comes back into service and stays clears its queue: every
\* command is answered or expires, also when the player never answers.
QueueDrains ==
    \A d \in Devices :
        <>[](d \in inService) =>
            \A c \in Commands :
                (device[c] = d /\ status[c] \in {"PENDING", "DELIVERED"})
                    ~> status[c] \notin {"PENDING", "DELIVERED"}

\* CLAIM (FASE4 contract line 400): answering is idempotent, so repeating the
\* answer that a command already has is not refused.
AcknowledgementIsIdempotent ==
    \A c \in held : status[c] \in Terminal => ~Refused(c, status[c])
=============================================================================
