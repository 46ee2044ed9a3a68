------------------------ MODULE DeviceCommandsProofs -----------------------
(***************************************************************************)
(* For any devices, commands, keys, operators and batch size: the queue    *)
(* keeps the operator's last wish, its order and its keys, and withdraws   *)
(* nothing it has handed over.                                             *)
(*                                                                         *)
(* Two things make it inductive.  Ranks grow: a new command is after all   *)
(* that exist (RanksGrow), so it can only cancel older ones.  And what has *)
(* left for the player has been taken out of PENDING for good (HandedOver), *)
(* and PENDING is all that is ever cancelled.                              *)
(***************************************************************************)
EXTENDS DeviceCommands, FiniteSetTheorems, TLAPS

Existing == {c \in Commands : Exists(c)}

RanksGrow ==
    /\ \A c \in Existing : issued[c] <= Cardinality(Existing)
    /\ \A c \in Commands \ Existing : status[c] = "PENDING"

HandedOver ==
    /\ inTransit \cup held \subseteq Existing
    /\ \A c \in inTransit \cup held : status[c] \notin {"PENDING", "CANCELLED"}

\* Of a family nothing waits but the newest, ...
NewestWaits ==
    \A b, c \in Existing :
        device[b] = device[c] /\ type[b] \in Family(type[c]) /\ issued[b] < issued[c]
            => status[b] # "PENDING"

\* ... and what was cancelled has a newer one of its family.
CancelledForNewer ==
    \A c \in Commands : status[c] = "CANCELLED" =>
        \E e \in Issued(device[c]) : issued[e] > issued[c] /\ type[e] \in Family(type[c])

IInv ==
    /\ TypeOK /\ RanksGrow /\ HandedOver /\ NewestWaits /\ CancelledForNewer
    /\ NoOvertaking /\ OneCommandPerKey

\* What ResultIsFinal says of a step.
ResultsStay == \A c \in Commands : status[c] \in Terminal => status'[c] = status[c]

Kept == IInv' /\ ResultsStay

----------------------------------------------------------------------------
(* Lemmas *)

\* The types of a family make each other obsolete.
LEMMA FamilyIsMutual ==
    ASSUME NEW t, NEW u, t \in Family(u)
    PROVE  u \in Family(t)
BY DEF Family

LEMMA ExistingCounted ==
    /\ IsFiniteSet(Existing) /\ Cardinality(Existing) \in Nat
    /\ \A c : /\ IsFiniteSet(Existing \cup {c})
              /\ c \notin Existing => Cardinality(Existing \cup {c}) = Cardinality(Existing) + 1
<1>1. Existing \in SUBSET Commands
  BY DEF Existing
<1>2. IsFiniteSet(Existing)
  BY <1>1, CommandAssumption, FS_Subset
<1>3. QED
  BY <1>2, FS_CardinalityType, FS_AddElement

\* Steps in which no row is made, and rows change at most from a status that is not
\* definitive to one that is neither PENDING nor CANCELLED.
LEMMA RowsStay ==
    ASSUME IInv, UNCHANGED <<device, type, key, issued>>,
           status' \in [Commands -> StatusValues],
           \A c \in Commands : status'[c] # status[c] =>
                Exists(c) /\ status[c] \notin Terminal /\ status'[c] \notin {"PENDING", "CANCELLED"},
           expired \subseteq expired', expired' \subseteq Commands,
           asked' \in [Operators -> Requests \cup {NoRequest}],
           outcome' \in [Commands -> Terminal \cup {"NONE"}], inService' \subseteq Devices,
           inTransit' \subseteq Commands, held' \subseteq Commands,
           \A c \in (inTransit' \cup held') \ (inTransit \cup held) :
                /\ Exists(c) /\ status'[c] \notin {"PENDING", "CANCELLED"}
                /\ \A b \in Existing : device[b] = device[c] /\ issued[b] < issued[c] =>
                        status'[b] # "PENDING" \/ b \in expired
    PROVE  Kept
<1>1. Existing' = Existing /\ \A c \in Commands : Exists(c)' <=> Exists(c)
  BY DEF Existing, Exists
<1>2. TypeOK'
  BY <1>1 DEF IInv, TypeOK
<1>3. RanksGrow'
  BY <1>1 DEF IInv, RanksGrow, Existing
<1>4. HandedOver'
  BY <1>1 DEF IInv, HandedOver, Existing
<1>5. NewestWaits' /\ CancelledForNewer'
  BY <1>1 DEF IInv, NewestWaits, CancelledForNewer, Issued, Existing
<1>6. NoOvertaking'
  <2> SUFFICES ASSUME NEW b \in Commands, NEW c \in Commands,
                      Exists(b), device[b] = device[c], issued[b] < issued[c], c \in inTransit' \cup held',
                      status'[b] = "PENDING"
               PROVE  b \in expired'
    BY <1>1 DEF NoOvertaking
  <2>1. status[b] = "PENDING"
    OBVIOUS
  <2>2. CASE c \in inTransit \cup held
    BY <2>1, <2>2 DEF IInv, NoOvertaking
  <2>3. CASE c \notin inTransit \cup held
    BY <2>3 DEF Existing
  <2>4. QED
    BY <2>2, <2>3
<1>7. OneCommandPerKey'
  BY <1>1 DEF IInv, OneCommandPerKey
<1>8. ResultsStay
  BY DEF ResultsStay
<1>9. QED
  BY <1>2, <1>3, <1>4, <1>5, <1>6, <1>7, <1>8 DEF IInv, Kept

----------------------------------------------------------------------------
(* Steps *)

LEMMA Insertion ==
    ASSUME IInv, NEW request \in Requests, NEW new \in Commands, Insert(request, new),
           asked' \in [Operators -> Requests \cup {NoRequest}]
    PROVE  Kept
<1> DEFINE n == Cardinality(Existing)
           old == Superseded(request.device, request.type)
<1>1. /\ request.device \in Devices /\ request.type \in Types /\ request.key \in Keys \cup {NoKey}
      /\ request.type # "NONE" /\ request.device # Nobody
  BY CommandAssumption DEF Requests, ApprovedTypes
<1>2. /\ ~KeyTaken(request.key) /\ new \notin Existing
      /\ device' = [device EXCEPT ![new] = request.device]
      /\ type' = [type EXCEPT ![new] = request.type]
      /\ key' = [key EXCEPT ![new] = request.key]
      /\ issued' = [issued EXCEPT ![new] = n + 1]
      /\ status' = [b \in Commands |-> IF b \in old THEN "CANCELLED" ELSE status[b]]
      /\ UNCHANGED <<expired, inTransit, held, outcome, inService>>
  BY DEF Insert, Existing, playerVars
<1>3. n \in Nat
  BY ExistingCounted
<1>4. old \subseteq Existing /\ \A b \in old : /\ status[b] = "PENDING" /\ device[b] = request.device
                                               /\ type[b] \in Family(request.type)
  BY <1>1 DEF Superseded, Issued, Existing, Exists
<1> HIDE DEF n, old
<1>5. TypeOK'
  <2>1. /\ device' \in [Commands -> Devices \cup {Nobody}] /\ type' \in [Commands -> Types \cup {"NONE"}]
        /\ key' \in [Commands -> Keys \cup {NoKey}] /\ issued' \in [Commands -> Nat]
        /\ status' \in [Commands -> StatusValues]
    BY <1>1, <1>2, <1>3 DEF IInv, TypeOK, StatusValues
  <2>2. \A c \in Commands : Exists(c)' => type'[c] # "NONE"
    BY <1>1, <1>2 DEF IInv, TypeOK, Exists
  <2>3. QED
    BY <1>2, <2>1, <2>2 DEF IInv, TypeOK
<1>6. /\ device'[new] = request.device /\ type'[new] = request.type
      /\ key'[new] = request.key /\ issued'[new] = n + 1
      /\ \A c \in Commands : c # new => /\ device'[c] = device[c] /\ type'[c] = type[c]
                                        /\ key'[c] = key[c] /\ issued'[c] = issued[c]
      /\ \A c \in Commands : status'[c] = IF c \in old THEN "CANCELLED" ELSE status[c]
  BY <1>2 DEF IInv, TypeOK
<1>7. Existing' = Existing \cup {new} /\ new \notin Existing
  BY <1>1, <1>2, <1>6 DEF Existing, Exists
<1>8. \A c \in Existing : issued[c] \in Nat /\ issued[c] <= n
  BY DEF IInv, TypeOK, RanksGrow, Existing, n
<1>9. RanksGrow'
  <2>1. Cardinality(Existing') = n + 1
    BY <1>7, ExistingCounted DEF n
  <2>2. \A c \in Existing' : issued'[c] <= n + 1
    BY <1>3, <1>6, <1>7, <1>8 DEF Existing
  <2>3. \A c \in Commands \ Existing' : status'[c] = "PENDING"
    BY <1>4, <1>6, <1>7 DEF IInv, RanksGrow
  <2>4. QED
    BY <2>1, <2>2, <2>3 DEF RanksGrow
<1>10. HandedOver'
  BY <1>2, <1>4, <1>6, <1>7 DEF IInv, HandedOver, Existing
<1>11. NewestWaits'
  <2> SUFFICES ASSUME NEW b \in Existing', NEW c \in Existing', device'[b] = device'[c],
                      type'[b] \in Family(type'[c]), issued'[b] < issued'[c], status'[b] = "PENDING"
               PROVE  FALSE
    BY DEF NewestWaits, Family
  <2>1. b \in Commands /\ c \in Commands
    BY DEF Existing
  <2>2. CASE b = new
    BY <1>3, <1>6, <1>7, <1>8, <2>1, <2>2
  <2>3. CASE b # new /\ c = new
    <3>1. b \in Existing /\ status[b] = "PENDING" /\ device[b] = request.device /\ type[b] \in Family(request.type)
      BY <1>6, <1>7, <2>1, <2>3
    <3>2. b \in old
      BY <3>1 DEF old, Superseded, Issued, Existing
    <3>3. QED
      BY <1>6, <2>1, <3>2
  <2>4. CASE b # new /\ c # new
    BY <1>6, <1>7, <2>1, <2>4 DEF IInv, NewestWaits
  <2>5. QED
    BY <2>2, <2>3, <2>4
<1>12. CancelledForNewer'
  <2> SUFFICES ASSUME NEW c \in Commands, status'[c] = "CANCELLED"
               PROVE  \E e \in Issued(device[c])' : issued'[e] > issued'[c] /\ type'[e] \in Family(type'[c])
    BY DEF CancelledForNewer, Issued, Family
  <2>1. CASE c \in old
    <3>1. c \in Existing /\ c # new /\ request.type \in Family(type[c])
      BY <1>4, <1>7, <2>1, FamilyIsMutual
    <3>2. new \in Issued(device[c])'
      BY <1>4, <1>6, <2>1, <3>1 DEF Issued
    <3>3. issued'[new] > issued'[c] /\ type'[new] \in Family(type'[c])
      BY <1>3, <1>6, <1>8, <3>1
    <3>4. QED
      BY <3>2, <3>3
  <2>2. CASE c \notin old
    <3>1. status[c] = "CANCELLED" /\ c # new
      BY <1>6, <1>7, <2>2 DEF IInv, RanksGrow
    <3>2. PICK e \in Issued(device[c]) : issued[e] > issued[c] /\ type[e] \in Family(type[c])
      BY <3>1 DEF IInv, CancelledForNewer
    <3>3. e \in Existing
      <4>1. c \in Existing
        BY <3>1 DEF IInv, RanksGrow
      <4>2. QED
        BY <4>1 DEF Issued, Existing, Exists
    <3>4. e # new /\ e \in Commands
      BY <1>7, <3>3 DEF Existing
    <3>5. e \in Issued(device[c])'
      BY <1>6, <3>1, <3>4 DEF Issued
    <3>6. QED
      BY <1>6, <3>1, <3>2, <3>4, <3>5
  <2>3. QED
    BY <2>1, <2>2
<1>13. NoOvertaking'
  <2> SUFFICES ASSUME NEW b \in Commands, NEW c \in Commands, Exists(b)', device'[b] = device'[c],
                      issued'[b] < issued'[c], c \in inTransit \cup held
               PROVE  status'[b] # "PENDING" \/ b \in expired
    BY <1>2 DEF NoOvertaking
  <2>1. c \in Existing /\ c # new
    BY <1>7 DEF IInv, HandedOver
  <2>2. b # new
    BY <1>3, <1>6, <1>8, <2>1
  <2>3. Exists(b)
    BY <1>6, <2>2 DEF Exists
  <2>4. QED
    BY <1>6, <2>1, <2>2, <2>3 DEF IInv, NoOvertaking
<1>14. OneCommandPerKey'
  <2> SUFFICES ASSUME NEW b \in Commands, NEW c \in Commands, Exists(b)', Exists(c)',
                      key'[b] # NoKey, key'[b] = key'[c]
               PROVE  b = c
    BY DEF OneCommandPerKey
  <2>1. \A e \in Commands : e # new /\ Exists(e)' => Exists(e)
    BY <1>6 DEF Exists
  <2>2. CASE b # new /\ c # new
    BY <1>6, <2>1, <2>2 DEF IInv, OneCommandPerKey
  <2>3. CASE b = new \/ c = new
    BY <1>2, <1>6, <2>1, <2>3 DEF KeyTaken
  <2>4. QED
    BY <2>2, <2>3
<1>15. ResultsStay
  BY <1>4, <1>6 DEF ResultsStay, Terminal
<1>16. QED
  BY <1>5, <1>9, <1>10, <1>11, <1>12, <1>13, <1>14, <1>15 DEF IInv, Kept

\* What can be delivered and is older than a command of the batch is in the batch.
LEMMA BatchTakesTheOldest ==
    ASSUME TypeOK, NEW d \in Devices, NEW c \in Batch(d), NEW b \in Deliverable(d), issued[b] < issued[c]
    PROVE  b \in Batch(d)
<1> DEFINE Older(x) == {a \in Deliverable(d) : issued[a] < issued[x]}
<1>1. \A a \in Deliverable(d) : a \in Commands /\ issued[a] \in Nat
  BY DEF Deliverable, Issued, TypeOK
<1>2. c \in Deliverable(d) /\ Cardinality(Older(c)) < BatchSize
  BY DEF Batch
<1>3. Older(b) \in SUBSET Older(c)
  BY <1>1, <1>2
<1>4. Older(c) \in SUBSET Commands
  BY <1>1
<1> HIDE DEF Older
<1>5. IsFiniteSet(Older(c)) /\ Cardinality(Older(c)) \in Nat
  BY <1>4, CommandAssumption, FS_Subset, FS_CardinalityType
<1>6. Cardinality(Older(b)) <= Cardinality(Older(c)) /\ Cardinality(Older(b)) \in Nat
  BY <1>3, <1>5, FS_Subset, FS_CardinalityType
<1>7. Cardinality(Older(b)) < BatchSize
  BY <1>2, <1>5, <1>6, CommandAssumption
<1>8. QED
  BY <1>7 DEF Batch, Older

LEMMA Delivery ==
    ASSUME IInv, NEW d \in Devices, DeliverCommands(d)
    PROVE  Kept
<1>1. /\ status' = [c \in Commands |-> CASE c \in Overdue(d) -> "EXPIRED"
                                         [] c \in Batch(d)   -> "DELIVERED"
                                         [] OTHER            -> status[c]]
      /\ inTransit' = inTransit \cup (Batch(d) \ held)
      /\ UNCHANGED <<device, type, key, issued, expired, asked, held, outcome, inService>>
  BY DEF DeliverCommands
<1>2. \A c \in Overdue(d) : Exists(c) /\ device[c] = d /\ status[c] \in {"PENDING", "DELIVERED"} /\ c \in expired
  BY CommandAssumption DEF Overdue, Issued, Exists
<1>3. \A c \in Batch(d) : /\ c \in Deliverable(d) /\ c \in Commands /\ Exists(c) /\ device[c] = d
                          /\ status[c] \in {"PENDING", "DELIVERED"} /\ c \notin expired
  BY CommandAssumption DEF Batch, Deliverable, Issued, Exists
<1>4. \A c \in Commands : status'[c] = IF c \in Overdue(d) THEN "EXPIRED"
                                       ELSE IF c \in Batch(d) THEN "DELIVERED" ELSE status[c]
  <2> TAKE c \in Commands
  <2>1. ~(c \in Overdue(d) /\ c \in Batch(d))
    BY <1>2, <1>3
  <2>2. status'[c] = CASE c \in Overdue(d) -> "EXPIRED"
                       [] c \in Batch(d)   -> "DELIVERED"
                       [] OTHER            -> status[c]
    BY <1>1
  <2>3. CASE c \in Overdue(d)
    BY <2>1, <2>2, <2>3
  <2>4. CASE c \in Batch(d)
    BY <2>1, <2>2, <2>4
  <2>5. CASE c \notin Overdue(d) /\ c \notin Batch(d)
    BY <2>2, <2>5
  <2>6. QED
    BY <2>3, <2>4, <2>5
<1>5. status' \in [Commands -> StatusValues]
  BY <1>1 DEF StatusValues, IInv, TypeOK
<1>6. \A c \in Commands : status'[c] # status[c] =>
        Exists(c) /\ status[c] \notin Terminal /\ status'[c] \notin {"PENDING", "CANCELLED"}
  BY <1>2, <1>3, <1>4 DEF Terminal
<1>7. ASSUME NEW c \in (inTransit' \cup held') \ (inTransit \cup held)
      PROVE  /\ Exists(c) /\ status'[c] \notin {"PENDING", "CANCELLED"}
             /\ \A b \in Existing : device[b] = device[c] /\ issued[b] < issued[c] =>
                    status'[b] # "PENDING" \/ b \in expired
  <2>1. c \in Batch(d)
    BY <1>1
  <2>2. status'[c] = "DELIVERED"
    BY <1>2, <1>3, <1>4, <2>1
  <2>3. ASSUME NEW b \in Existing, device[b] = device[c], issued[b] < issued[c],
               status'[b] = "PENDING", b \notin expired
        PROVE  FALSE
    <3>1. b \in Commands /\ status[b] = "PENDING"
      BY <1>6, <2>3 DEF Existing
    <3>2. b \in Deliverable(d)
      BY <1>3, <2>1, <2>3, <3>1 DEF Deliverable, Issued
    <3>3. b \in Batch(d)
      BY <2>1, <2>3, <3>2, BatchTakesTheOldest DEF IInv
    <3>4. QED
      BY <1>4, <2>3, <3>1, <3>3
  <2>4. QED
    BY <1>3, <2>1, <2>2, <2>3
<1>8. inTransit' \subseteq Commands
  BY <1>1, <1>3 DEF IInv, TypeOK
<1>9. QED
  BY <1>1, <1>5, <1>6, <1>7, <1>8, RowsStay DEF IInv, TypeOK

LEMMA Acknowledgement ==
    ASSUME IInv, NEW c \in Commands, NEW answer \in Answers(c), AcknowledgeCommand(c, answer)
    PROVE  Kept
<1>1. /\ status' = [status EXCEPT ![c] = answer] /\ c \in held /\ ~Refused(c, answer)
      /\ UNCHANGED <<device, type, key, issued, expired, asked, inTransit, held, outcome, inService>>
  BY DEF AcknowledgeCommand, playerVars
<1>2. answer \in {"ACKNOWLEDGED"} \cup Terminal
  BY DEF Answers, IInv, TypeOK
<1>3. Exists(c)
  BY <1>1 DEF IInv, HandedOver, Existing
<1>4. status' \in [Commands -> StatusValues]
  BY <1>1, <1>2 DEF IInv, TypeOK, StatusValues
<1>5. \A b \in Commands : status'[b] # status[b] =>
        Exists(b) /\ status[b] \notin Terminal /\ status'[b] \notin {"PENDING", "CANCELLED"}
  BY <1>1, <1>2, <1>3 DEF Refused, Terminal, IInv, TypeOK
<1>6. QED
  BY <1>1, <1>4, <1>5, RowsStay DEF IInv, TypeOK

\* What changes no status.
LEMMA Others ==
    ASSUME IInv,
           \/ \E o \in Operators : RefuseCreation(o) \/ \E request \in Requests : AskCommand(o, request)
           \/ \E c \in Commands : \/ Receive(c) \/ LoseAnswer(c) \/ Expire(c)
                                  \/ \E result \in Results : Execute(c, result)
           \/ \E d \in Devices : LoseService(d) \/ RegainService(d)
           \/ UNCHANGED vars
    PROVE  Kept
<1>1. ASSUME UNCHANGED rowVars, expired \subseteq expired', expired' \subseteq Commands,
             asked' \in [Operators -> Requests \cup {NoRequest}],
             outcome' \in [Commands -> Terminal \cup {"NONE"}], inService' \subseteq Devices,
             inTransit' \cup held' \subseteq inTransit \cup held
      PROVE  Kept
  BY <1>1, RowsStay DEF rowVars, IInv, TypeOK
<1>2. TypeOK
  BY DEF IInv
<1>3. ASSUME NEW o \in Operators, RefuseCreation(o) \/ \E request \in Requests : AskCommand(o, request)
      PROVE  Kept
  BY <1>1, <1>2, <1>3 DEF RefuseCreation, AskCommand, playerVars, TypeOK
<1>4. ASSUME NEW c \in Commands, Receive(c) \/ LoseAnswer(c) \/ Expire(c)
      PROVE  Kept
  BY <1>1, <1>2, <1>4 DEF Receive, LoseAnswer, Expire, playerVars, TypeOK
<1>5. ASSUME NEW c \in Commands, NEW result \in Results, Execute(c, result)
      PROVE  Kept
  BY <1>1, <1>2, <1>5, CommandAssumption DEF Execute, Terminal, TypeOK
<1>6. ASSUME NEW d \in Devices, LoseService(d) \/ RegainService(d)
      PROVE  Kept
  BY <1>1, <1>2, <1>6 DEF LoseService, RegainService, playerVars, TypeOK
<1>7. CASE UNCHANGED vars
  BY <1>1, <1>2, <1>7 DEF vars, playerVars, TypeOK
<1>8. QED
  BY <1>3, <1>4, <1>5, <1>6, <1>7

----------------------------------------------------------------------------
(* The invariant and the theorems *)

LEMMA InitInvariant == Init => IInv
<1> SUFFICES ASSUME Init PROVE IInv
  OBVIOUS
<1>1. \A c \in Commands : ~Exists(c)
  BY DEF Init, Exists
<1>2. TypeOK
  BY <1>1, CommandAssumption DEF Init, TypeOK, StatusValues, Terminal
<1>3. RanksGrow /\ HandedOver /\ NewestWaits /\ CancelledForNewer
  BY <1>1 DEF Init, RanksGrow, HandedOver, NewestWaits, CancelledForNewer, Existing
<1>4. NoOvertaking /\ OneCommandPerKey
  BY <1>1 DEF Init, NoOvertaking, OneCommandPerKey
<1>5. QED
  BY <1>2, <1>3, <1>4 DEF IInv

LEMMA NextKeeps == IInv /\ [Next]_vars => Kept
<1> SUFFICES ASSUME IInv, [Next]_vars PROVE Kept
  OBVIOUS
<1>1. asked \in [Operators -> Requests \cup {NoRequest}]
  BY DEF IInv, TypeOK
<1>2. ASSUME NEW d \in Devices, NEW t \in Types, NEW c \in Commands, CreateCommand(d, t, c) PROVE Kept
  <2>1. [device |-> d, type |-> t, key |-> NoKey] \in Requests
    BY DEF Requests
  <2>2. QED
    BY <1>1, <1>2, <2>1, Insertion DEF CreateCommand
<1>3. ASSUME NEW o \in Operators, NEW c \in Commands, CreateKeyedCommand(o, c) PROVE Kept
  <2>1. asked[o] \in Requests /\ Insert(asked[o], c)
    BY <1>1, <1>3 DEF CreateKeyedCommand
  <2>2. asked' \in [Operators -> Requests \cup {NoRequest}]
    BY <1>1, <1>3 DEF CreateKeyedCommand
  <2>3. QED
    BY <2>1, <2>2, Insertion
<1>4. CASE \E d \in Devices : DeliverCommands(d)
  BY <1>4, Delivery
<1>5. CASE \E c \in Commands : \E answer \in Answers(c) : AcknowledgeCommand(c, answer)
  BY <1>5, Acknowledgement
<1>6. CASE \/ \E o \in Operators : RefuseCreation(o) \/ \E request \in Requests : AskCommand(o, request)
           \/ \E c \in Commands : \/ Receive(c) \/ LoseAnswer(c) \/ Expire(c)
                                  \/ \E result \in Results : Execute(c, result)
           \/ \E d \in Devices : LoseService(d) \/ RegainService(d)
           \/ UNCHANGED vars
  BY <1>6, Others
<1>7. QED
  BY <1>2, <1>3, <1>4, <1>5, <1>6 DEF Next

\* Ranks grow with the rows, and what has been handed over is out of PENDING for good.
THEOREM CommandsInvariant == Spec => []IInv
<1>1. IInv /\ [Next]_vars => IInv'
  BY NextKeeps DEF Kept
<1>2. QED
  BY <1>1, InitInvariant, PTL DEF Spec

\* Every column keeps its type (apps/devices/models.py).
THEOREM CommandsTypeCorrect == Spec => []TypeOK
<1>1. IInv => TypeOK
  BY DEF IInv
<1>2. QED
  BY <1>1, CommandsInvariant, PTL

\* However many operators press at once, of the commands that replace each other the newest
\* is the one that waits or was handed over (create_device_command).
THEOREM LastWishKept == Spec => []LastWishStands
<1>1. IInv => LastWishStands
  <2> SUFFICES ASSUME IInv, NEW b \in Commands, NEW c \in Commands,
                      Exists(b), device[b] = device[c], type[b] \in Family(type[c]), issued[b] < issued[c]
               PROVE  /\ status[b] # "PENDING"
                      /\ status[c] = "CANCELLED" =>
                            \E e \in Issued(device[c]) :
                                issued[e] > issued[c] /\ type[e] \in Family(type[c])
    BY DEF LastWishStands
  <2>1. b \in Existing /\ c \in Existing
    BY DEF Existing, Exists
  <2>2. QED
    BY <2>1 DEF IInv, NewestWaits, CancelledForNewer
<1>2. QED
  BY <1>1, CommandsInvariant, PTL

\* A command that left for the player is never withdrawn (create_device_command cancels
\* what is PENDING only).
THEOREM NothingWithdrawn == Spec => []HandedOverNotCancelled
<1>1. IInv => HandedOverNotCancelled
  BY DEF IInv, HandedOver, HandedOverNotCancelled
<1>2. QED
  BY <1>1, CommandsInvariant, PTL

\* Whatever the size of the batch, no command overtakes an older one (deliver_device_commands).
THEOREM OrderKept == Spec => []NoOvertaking
<1>1. IInv => NoOvertaking
  BY DEF IInv
<1>2. QED
  BY <1>1, CommandsInvariant, PTL

\* Requests with one key, looked up before any lock, make one command (create_device_command).
THEOREM KeysAreUnique == Spec => []OneCommandPerKey
<1>1. IInv => OneCommandPerKey
  BY DEF IInv
<1>2. QED
  BY <1>1, CommandsInvariant, PTL

\* A definitive result is never overwritten (acknowledge_device_command).
THEOREM ResultsAreFinal == Spec => ResultIsFinal
<1>1. IInv /\ [Next]_vars => [ResultsStay]_vars
  BY NextKeeps DEF Kept
<1>2. ResultIsFinal <=> [][ResultsStay]_vars
  BY PTL DEF ResultIsFinal, ResultsStay
<1>3. QED
  BY <1>1, <1>2, CommandsInvariant, PTL DEF Spec
=============================================================================
