---------------------- MODULE DeviceTransactionsProofs ----------------------
(***************************************************************************)
(* For any devices, codes, credentials and sessions: the transactions,     *)
(* taken apart into statements and row locks, go through the steps of      *)
(* DeviceLifecycle, and no invalidation misses a row.                      *)
(*                                                                         *)
(* A step of one session leaves every other session what it relies on,     *)
(* because that is locked (Undisturbed); so each session keeps what it has *)
(* found out until it commits (SessionOK): the row it presented is live,   *)
(* what it has checked of its device holds, what it has invalidated is     *)
(* still to be invalidated, and after a scan nothing was added to what the *)
(* scan had found.                                                         *)
(***************************************************************************)
EXTENDS DeviceTransactions, TLAPS

Invalidations == {"REVOKE", "ARCHIVE"}

\* The statements of a service.
Stages(op) ==
    CASE op = "COMPLETE" -> {"lock device", "scan creds", "update creds", "commit"}
      [] op = "ROTATE" -> {"commit"}
      [] op = "GENERATE" -> {"scan codes", "update codes", "commit"}
      [] OTHER -> {"scan creds", "update creds", "scan codes", "update codes", "commit"}

LocksExclusive == \A s, t \in Sessions : s # t => tx[s].locks \cap tx[t].locks = {}

\* A service is at one of its statements and has locked what it is about.
Placed(x) ==
    /\ x.op \in Operations /\ x.device \in Devices /\ x.at \in Stages(x.op)
    /\ x.op \in Invalidations \cup {"GENERATE"} => x.device \in x.locks
    /\ x.op = "COMPLETE" => x.row \in Codes \cap x.locks
    /\ x.op = "COMPLETE" /\ x.at # "lock device" => x.device \in x.locks
    /\ x.op = "ROTATE" => x.row \in Creds \cap x.locks

\* What it has checked holds.
Checked(x) ==
    /\ x.op = "COMPLETE" => x.row \in DL!OpenCodes(x.device)
    /\ x.op = "ROTATE" => x.row \in DL!ActiveCreds(x.device)
    /\ x.op \in Invalidations => DL!Exists(x.device) /\ DL!RevisionMatches(x.device)
    /\ x.op = "GENERATE" => DL!Serviceable(x.device)

\* What it has invalidated is locked; the rows it has locked are live, ...
Written(x) ==
    /\ x.written \subseteq x.locks \cap (Codes \cup Creds)
    /\ x.locks \subseteq {x.device} \cup DL!ActiveCreds(x.device) \cup DL!OpenCodes(x.device)
    /\ x.op = "COMPLETE" => x.written \subseteq Creds
    /\ x.op = "GENERATE" => x.written \subseteq Codes

\* ... and what has been read by an UPDATE, or written, is all there is.
Scanned(x) ==
    /\ x.at = "update creds" => x.scanned \subseteq Creds /\ DL!ActiveCreds(x.device) \subseteq x.scanned
    /\ x.at = "update codes" => x.scanned \subseteq Codes /\ DL!OpenCodes(x.device) \subseteq x.scanned
    /\ \/ x.op \in Invalidations /\ x.at \in {"scan codes", "update codes", "commit"}
       \/ x.op = "COMPLETE" /\ x.at = "commit"
       => DL!ActiveCreds(x.device) \subseteq x.written
    /\ x.op \in Invalidations \cup {"GENERATE"} /\ x.at = "commit" =>
            DL!OpenCodes(x.device) \subseteq x.written

Open(x) == Placed(x) /\ Checked(x) /\ Written(x) /\ Scanned(x)
SessionOK(s) == tx[s] = Idle \/ Open(tx[s])

IInv == TypeOK /\ LocksExclusive /\ \A s \in Sessions : SessionOK(s)

----------------------------------------------------------------------------
(* What a step leaves alone *)

\* What a session relies on is as it was: its locked rows, ...
RowsKept(x) ==
    /\ \A c \in Codes \cap x.locks :
            codeDevice'[c] = codeDevice[c] /\ (c \in consumed' <=> c \in consumed)
                                           /\ (c \in voided' <=> c \in voided)
    /\ \A k \in Creds \cap x.locks :
            credDevice'[k] = credDevice[k] /\ credStatus'[k] = credStatus[k]

\* ... and the device, to which nothing was added, if that is locked.
DeviceKept(x) ==
    x.device \in x.locks =>
        /\ DL!Exists(x.device) => admin'[x.device] = admin[x.device]
        /\ activation'[x.device] = activation[x.device]
        /\ revision'[x.device] = revision[x.device]
        /\ seen'[x.device].revision \in {seen[x.device].revision, revision[x.device]}
        /\ DL!ActiveCreds(x.device)' \subseteq DL!ActiveCreds(x.device)
        /\ DL!OpenCodes(x.device)' \subseteq DL!OpenCodes(x.device)

Undisturbed(t) == tx'[t] = tx[t] /\ RowsKept(tx[t]) /\ DeviceKept(tx[t])

\* Seen from the session, which does nothing meanwhile.
LEMMA KeptOpen ==
    ASSUME NEW x, Open(x), RowsKept(x), DeviceKept(x)
    PROVE  Open(x)'
<1> USE DEF Open
<1>1. Placed(x)'
  BY DEF Placed
<1>2. Checked(x)'
  <2>1. x.op = "COMPLETE" => (x.row \in DL!OpenCodes(x.device))'
    BY DEF Placed, Checked, RowsKept, DL!OpenCodes
  <2>2. x.op = "ROTATE" => (x.row \in DL!ActiveCreds(x.device))'
    BY DEF Placed, Checked, RowsKept, DL!ActiveCreds
  <2>3. x.op \in Invalidations =>
            DL!Exists(x.device)' /\ DL!RevisionMatches(x.device)'
    BY DEF Placed, Checked, DeviceKept, DL!Exists, DL!RevisionMatches
  <2>4. x.op = "GENERATE" => DL!Serviceable(x.device)'
    BY DEF Placed, Checked, DeviceKept, DL!Serviceable, DL!Exists
  <2>5. QED
    BY <2>1, <2>2, <2>3, <2>4 DEF Checked
<1>3. Written(x)'
  <2>1. (x.locks \subseteq
            {x.device} \cup DL!ActiveCreds(x.device) \cup DL!OpenCodes(x.device))'
    BY DEF Written, RowsKept, DL!OpenCodes, DL!ActiveCreds
  <2>2. QED
    BY <2>1 DEF Written
<1>4. Scanned(x)'
  <2>1. CASE x.device \in x.locks
    BY <2>1 DEF Scanned, DeviceKept
  <2>2. CASE x.device \notin x.locks
    BY <2>2 DEF Placed, Scanned, Stages, Invalidations, Operations
  <2>3. QED
    BY <2>1, <2>2
<1>5. QED
  BY <1>1, <1>2, <1>3, <1>4

LEMMA UndisturbedKeeps ==
    ASSUME NEW t \in Sessions, SessionOK(t), Undisturbed(t)
    PROVE  SessionOK(t)'
<1>1. CASE tx[t] = Idle
  BY <1>1 DEF Undisturbed, SessionOK, Idle
<1>2. CASE Open(tx[t])
  <2>1. PICK x : x = tx[t]
    OBVIOUS
  <2>2. Open(x) /\ RowsKept(x) /\ DeviceKept(x)
    BY <1>2, <2>1 DEF Undisturbed
  <2>3. Open(x)'
    BY <2>2, KeptOpen
  <2>4. tx'[t] = x
    BY <2>1 DEF Undisturbed
  <2>5. Open(tx[t])'
    BY <2>3, <2>4
  <2>6. QED
    BY <2>5 DEF SessionOK
<1>3. QED
  BY <1>1, <1>2 DEF SessionOK

\* The rows of the database are as they were.
Quiet == UNCHANGED <<admin, activation, status, connectivity, revision, zone, seen, rowVars>>

LEMMA QuietUndisturbs ==
    ASSUME NEW t \in Sessions, Quiet, tx'[t] = tx[t]
    PROVE  Undisturbed(t)
BY DEF Quiet, rowVars, Undisturbed, RowsKept, DeviceKept, DL!Exists, DL!ActiveCreds,
       DL!OpenCodes

\* The rows that two sessions lock are different rows.
LEMMA Exclusive ==
    ASSUME IInv, NEW s \in Sessions, NEW t \in Sessions, s # t, NEW row,
           row \in tx[s].locks
    PROVE  row \notin tx[t].locks
BY DEF IInv, LocksExclusive

----------------------------------------------------------------------------
(* Steps of a session that leave the database alone *)

LEMMA BeginCompleteStep ==
    ASSUME IInv, NEW s \in Sessions, NEW d \in Devices, NEW c \in Codes,
           BeginComplete(s, d, c)
    PROVE  SessionOK(s)' /\ \A t \in Sessions \ {s} : Undisturbed(t)
<1> DEFINE x == [op |-> "COMPLETE", at |-> "lock device", device |-> d, row |-> c,
                 scanned |-> {}, locks |-> {c}, written |-> {}]
<1>1. tx' = [tx EXCEPT ![s] = x] /\ Quiet
  BY DEF BeginComplete, Begin, Idle, Quiet
<1>2. tx'[s] = x /\ \A t \in Sessions \ {s} : tx'[t] = tx[t]
  BY <1>1 DEF IInv, TypeOK
<1>3. Open(x)'
  <2>1. c \in DL!OpenCodes(d)'
    BY <1>1 DEF BeginComplete, Quiet, rowVars, DL!OpenCodes
  <2>2. QED
    BY <2>1, TransactionsAssumption DEF Open, Placed, Checked, Written, Scanned, Operations,
       Stages, Invalidations
<1>4. SessionOK(s)'
  BY <1>2, <1>3 DEF SessionOK
<1>5. QED
  BY <1>1, <1>2, <1>4, QuietUndisturbs


LEMMA BeginRotateStep ==
    ASSUME IInv, NEW s \in Sessions, NEW d \in Devices, NEW k \in Creds,
           BeginRotate(s, d, k)
    PROVE  SessionOK(s)' /\ \A t \in Sessions \ {s} : Undisturbed(t)
<1> DEFINE x == [op |-> "ROTATE", at |-> "commit", device |-> d, row |-> k,
                 scanned |-> {}, locks |-> {k}, written |-> {}]
<1>1. tx' = [tx EXCEPT ![s] = x] /\ Quiet
  BY DEF BeginRotate, Begin, Quiet
<1>2. tx'[s] = x /\ \A t \in Sessions \ {s} : tx'[t] = tx[t]
  BY <1>1 DEF IInv, TypeOK
<1>3. Open(x)'
  <2>1. k \in DL!ActiveCreds(d)'
    BY <1>1 DEF BeginRotate, Quiet, rowVars, DL!ActiveCreds
  <2>2. QED
    BY <2>1, TransactionsAssumption DEF Open, Placed, Checked, Written, Scanned, Operations,
       Stages, Invalidations
<1>4. SessionOK(s)'
  BY <1>2, <1>3 DEF SessionOK
<1>5. QED
  BY <1>1, <1>2, <1>4, QuietUndisturbs

LEMMA BeginInvalidationStep ==
    ASSUME IInv, NEW s \in Sessions, NEW d \in Devices, NEW op \in Invalidations,
           BeginInvalidation(s, op, d)
    PROVE  SessionOK(s)' /\ \A t \in Sessions \ {s} : Undisturbed(t)
<1> DEFINE x == [op |-> op, at |-> "scan creds", device |-> d, row |-> Nobody,
                 scanned |-> {}, locks |-> {d}, written |-> {}]
<1>1. tx' = [tx EXCEPT ![s] = x] /\ Quiet
  BY DEF BeginInvalidation, Begin, Quiet
<1>2. tx'[s] = x /\ \A t \in Sessions \ {s} : tx'[t] = tx[t]
  BY <1>1 DEF IInv, TypeOK
<1>3. Open(x)'
  <2>1. DL!Exists(d)' /\ DL!RevisionMatches(d)'
    BY <1>1 DEF BeginInvalidation, Quiet, DL!Exists, DL!RevisionMatches
  <2>2. QED
    BY <2>1 DEF Open, Placed, Checked, Written, Scanned, Operations, Stages, Invalidations
<1>4. SessionOK(s)'
  BY <1>2, <1>3 DEF SessionOK
<1>5. QED
  BY <1>1, <1>2, <1>4, QuietUndisturbs

LEMMA BeginGenerateStep ==
    ASSUME IInv, NEW s \in Sessions, NEW d \in Devices, BeginGenerate(s, d)
    PROVE  SessionOK(s)' /\ \A t \in Sessions \ {s} : Undisturbed(t)
<1> DEFINE x == [op |-> "GENERATE", at |-> "scan codes", device |-> d, row |-> Nobody,
                 scanned |-> {}, locks |-> {d}, written |-> {}]
<1>1. tx' = [tx EXCEPT ![s] = x] /\ Quiet
  BY DEF BeginGenerate, Begin, Quiet
<1>2. tx'[s] = x /\ \A t \in Sessions \ {s} : tx'[t] = tx[t]
  BY <1>1 DEF IInv, TypeOK
<1>3. Open(x)'
  <2>1. DL!Serviceable(d)'
    BY <1>1 DEF BeginGenerate, Quiet, DL!Serviceable
  <2>2. QED
    BY <2>1 DEF Open, Placed, Checked, Written, Scanned, Operations, Stages, Invalidations
<1>4. SessionOK(s)'
  BY <1>2, <1>3 DEF SessionOK
<1>5. QED
  BY <1>1, <1>2, <1>4, QuietUndisturbs

\* A session past its first statement is open.
LEMMA PastBegin ==
    ASSUME IInv, NEW s \in Sessions, tx[s].at # "begin"
    PROVE  Open(tx[s])
BY DEF IInv, SessionOK, Idle

LEMMA LockDeviceStep ==
    ASSUME IInv, NEW s \in Sessions, LockDevice(s)
    PROVE  SessionOK(s)' /\ \A t \in Sessions \ {s} : Undisturbed(t)
<1> DEFINE x == tx[s]  y == tx'[s]
<1>1. /\ y.at = "scan creds" /\ y.locks = x.locks \cup {x.device}
      /\ y.op = x.op /\ y.device = x.device /\ y.row = x.row
      /\ y.scanned = x.scanned /\ y.written = x.written
      /\ \A t \in Sessions \ {s} : tx'[t] = tx[t]
  BY DEF LockDevice, IInv, TypeOK
<1>2. Quiet
  BY DEF LockDevice, Quiet
<1>3. Open(x) /\ x.at = "lock device"
  BY PastBegin DEF LockDevice
<1>4. x.op = "COMPLETE"
  BY <1>3 DEF Open, Placed, Stages, Operations
<1>5. Open(tx[s])'
  <2>1. Placed(tx[s])'
    BY <1>1, <1>3, <1>4 DEF Open, Placed, Stages, Operations, Invalidations
  <2>2. Checked(tx[s])'
    BY <1>1, <1>2, <1>3, <1>4 DEF Open, Checked, Invalidations, Quiet, rowVars, DL!OpenCodes
  <2>3. Written(tx[s])'
    BY <1>1, <1>2, <1>3, <1>4 DEF Open, Written, Quiet, rowVars, DL!OpenCodes, DL!ActiveCreds
  <2>4. Scanned(tx[s])'
    BY <1>1, <1>4 DEF Scanned, Invalidations
  <2>5. QED
    BY <2>1, <2>2, <2>3, <2>4 DEF Open
<1>6. QED
  BY <1>1, <1>2, <1>5, QuietUndisturbs DEF SessionOK

LEMMA ScanStep ==
    ASSUME IInv, NEW s \in Sessions, Scan(s)
    PROVE  SessionOK(s)' /\ \A t \in Sessions \ {s} : Undisturbed(t)
<1> DEFINE x == tx[s]  y == tx'[s]
<1>1. /\ y.scanned = Matching(x.device, x.at)
      /\ y.at = IF x.at = "scan creds" THEN "update creds" ELSE "update codes"
      /\ y.op = x.op /\ y.device = x.device /\ y.row = x.row
      /\ y.locks = x.locks /\ y.written = x.written
      /\ \A t \in Sessions \ {s} : tx'[t] = tx[t]
  BY DEF Scan, IInv, TypeOK
<1>2. Quiet
  BY DEF Scan, Quiet
<1>3. Open(x) /\ x.at \in {"scan creds", "scan codes"}
  BY PastBegin DEF Scan
<1>4. Open(tx[s])'
  <2>1. Placed(tx[s])'
    BY <1>1, <1>3 DEF Open, Placed, Stages, Operations, Invalidations
  <2>2. Checked(tx[s])'
    BY <1>1, <1>2, <1>3 DEF Open, Checked, Invalidations, Quiet, rowVars, DL!OpenCodes,
       DL!ActiveCreds, DL!Exists, DL!RevisionMatches, DL!Serviceable
  <2>3. Written(tx[s])'
    BY <1>1, <1>2, <1>3 DEF Open, Written, Quiet, rowVars, DL!OpenCodes, DL!ActiveCreds
  <2>4. Scanned(tx[s])'
    <3>1. DL!ActiveCreds(x.device)' = DL!ActiveCreds(x.device)
      BY <1>1, <1>2 DEF Quiet, rowVars, DL!ActiveCreds
    <3>2. CASE x.at = "scan creds"
      BY <1>1, <1>2, <3>1, <3>2 DEF Matching, Scanned, Quiet, rowVars, DL!ActiveCreds
    <3>3. CASE x.at = "scan codes"
      BY <1>1, <1>2, <1>3, <3>1, <3>3 DEF Open, Matching, Scanned, Quiet, rowVars,
         DL!OpenCodes, DL!ActiveCreds, Invalidations
    <3>4. QED
      BY <1>3, <3>2, <3>3
  <2>5. QED
    BY <2>1, <2>2, <2>3, <2>4 DEF Open
<1>5. QED
  BY <1>1, <1>2, <1>4, QuietUndisturbs DEF SessionOK

LEMMA UpdateStep ==
    ASSUME IInv, NEW s \in Sessions, Update(s)
    PROVE  SessionOK(s)' /\ \A t \in Sessions \ {s} : Undisturbed(t)
<1> DEFINE x == tx[s]  y == tx'[s]
           still == x.scanned \cap (DL!ActiveCreds(x.device) \cup DL!OpenCodes(x.device))
<1>1. /\ y.scanned = {} /\ y.written = x.written \cup still /\ y.locks = x.locks \cup still
      /\ y.at = IF x.at = "update creds" /\ x.op # "COMPLETE" THEN "scan codes" ELSE "commit"
      /\ y.op = x.op /\ y.device = x.device /\ y.row = x.row
      /\ \A t \in Sessions \ {s} : tx'[t] = tx[t]
  BY DEF Update, IInv, TypeOK
<1>2. Quiet
  BY DEF Update, Quiet
<1>3. Open(x) /\ x.at \in {"update creds", "update codes"}
  BY PastBegin DEF Update
<1>4. /\ DL!ActiveCreds(x.device)' = DL!ActiveCreds(x.device)
      /\ DL!OpenCodes(x.device)' = DL!OpenCodes(x.device)
  BY <1>1, <1>2 DEF Quiet, rowVars, DL!ActiveCreds, DL!OpenCodes
<1>5. x.at = "update creds" => x.op \in Invalidations \cup {"COMPLETE"}
  BY <1>3 DEF Open, Placed, Stages, Operations, Invalidations
<1>6. x.at = "update codes" => x.op \in Invalidations \cup {"GENERATE"}
  BY <1>3 DEF Open, Placed, Stages, Operations, Invalidations
<1>7. Open(tx[s])'
  <2>1. Placed(tx[s])'
    BY <1>1, <1>3, <1>5, <1>6 DEF Open, Placed, Stages, Operations, Invalidations
  <2>2. Checked(tx[s])'
    BY <1>1, <1>2, <1>3 DEF Open, Checked, Invalidations, Quiet, rowVars, DL!OpenCodes,
       DL!ActiveCreds, DL!Exists, DL!RevisionMatches, DL!Serviceable
  <2>3. Written(tx[s])'
    <3>1. still \subseteq Codes \cup Creds
      BY DEF DL!ActiveCreds, DL!OpenCodes
    <3>2. x.op = "COMPLETE" => still \subseteq Creds
      BY <1>3, <1>6 DEF Open, Scanned, Invalidations
    <3>3. x.op = "GENERATE" => still \subseteq Codes
      BY <1>3, <1>5 DEF Open, Scanned, Invalidations
    <3>4. QED
      BY <1>1, <1>3, <1>4, <3>1, <3>2, <3>3 DEF Open, Written
  <2>4. Scanned(tx[s])'
    <3>1. CASE x.at = "update creds"
      BY <1>1, <1>3, <1>4, <1>5, <3>1 DEF Open, Scanned, Invalidations
    <3>2. CASE x.at = "update codes"
      BY <1>1, <1>3, <1>4, <1>6, <3>2 DEF Open, Scanned, Invalidations
    <3>3. QED
      BY <1>3, <3>1, <3>2
  <2>5. QED
    BY <2>1, <2>2, <2>3, <2>4 DEF Open
<1>8. QED
  BY <1>1, <1>2, <1>7, QuietUndisturbs DEF SessionOK

LEMMA RollBackStep ==
    ASSUME IInv, NEW s \in Sessions, RollBack(s)
    PROVE  SessionOK(s)' /\ \A t \in Sessions \ {s} : Undisturbed(t)
<1>1. tx'[s] = Idle /\ \A t \in Sessions \ {s} : tx'[t] = tx[t]
  BY DEF RollBack, IInv, TypeOK
<1>2. Quiet
  BY DEF RollBack, Quiet
<1>3. SessionOK(s)'
  BY <1>1 DEF SessionOK, Idle
<1>4. QED
  BY <1>1, <1>2, <1>3, QuietUndisturbs

----------------------------------------------------------------------------
(* Commits *)

\* The rows a session has locked are issued.
LEMMA LockedRows ==
    ASSUME IInv, NEW t \in Sessions
    PROVE  /\ \A c \in Codes \cap tx[t].locks : codeDevice[c] # Nobody
           /\ \A k \in Creds \cap tx[t].locks : credDevice[k] # Nobody
<1>1. CASE tx[t] = Idle
  BY <1>1 DEF Idle
<1>2. CASE Open(tx[t])
  BY <1>2, TransactionsAssumption DEF Open, Placed, Written, DL!ActiveCreds, DL!OpenCodes
<1>3. QED
  BY <1>1, <1>2 DEF IInv, SessionOK

\* A commit changes its own device and rows nobody else has locked.
Contained(s) ==
    LET d == tx[s].device
    IN  /\ \A c \in Codes \ tx[s].locks : codeDevice[c] # Nobody =>
                codeDevice'[c] = codeDevice[c] /\ (c \in consumed' <=> c \in consumed)
                                               /\ (c \in voided' <=> c \in voided)
        /\ \A k \in Creds \ tx[s].locks : credDevice[k] # Nobody =>
                credDevice'[k] = credDevice[k] /\ credStatus'[k] = credStatus[k]
        /\ \A e \in Devices \ {d} :
                /\ admin'[e] = admin[e] /\ activation'[e] = activation[e]
                /\ revision'[e] = revision[e] /\ seen'[e] = seen[e]
                /\ DL!ActiveCreds(e)' \subseteq DL!ActiveCreds(e)
                /\ DL!OpenCodes(e)' \subseteq DL!OpenCodes(e)

LEMMA ContainedUndisturbs ==
    ASSUME IInv, NEW s \in Sessions, NEW t \in Sessions \ {s}, tx'[t] = tx[t],
           Contained(s), tx[s].device \notin tx[t].locks
    PROVE  Undisturbed(t)
<1>1. tx[t].locks \cap tx[s].locks = {}
  BY DEF IInv, LocksExclusive
<1>2. RowsKept(tx[t])
  BY <1>1, LockedRows DEF Contained, RowsKept
<1>3. DeviceKept(tx[t])
  <2>1. SUFFICES ASSUME tx[t].device \in tx[t].locks PROVE DeviceKept(tx[t])
    BY DEF DeviceKept
  <2>2. tx[t] # Idle
    BY <2>1 DEF Idle
  <2>3. tx[t].device \in Devices \ {tx[s].device}
    BY <2>1, <2>2 DEF IInv, SessionOK, Open, Placed
  <2>4. PICK e \in Devices \ {tx[s].device} : e = tx[t].device
    BY <2>3
  <2>5. QED
    BY <2>4 DEF Contained, DeviceKept
<1>4. QED
  BY <1>2, <1>3 DEF Undisturbed

\* A transaction that is about to commit: it is open, and the commit ends it.
LEMMA CommittingSession ==
    ASSUME IInv, NEW s \in Sessions, NEW op, Committing(s, op)
    PROVE  /\ Open(tx[s]) /\ tx[s].op = op /\ tx[s].at = "commit"
           /\ tx'[s] = Idle /\ SessionOK(s)'
           /\ \A t \in Sessions \ {s} : tx'[t] = tx[t]
           /\ op # "ROTATE" =>
                \A t \in Sessions \ {s} : tx[s].device \notin tx[t].locks
<1>1. Open(tx[s]) /\ tx[s].op = op /\ tx[s].at = "commit"
  BY PastBegin DEF Committing
<1>2. tx'[s] = Idle /\ \A t \in Sessions \ {s} : tx'[t] = tx[t]
  BY DEF Committing, IInv, TypeOK
<1>3. SessionOK(s)'
  BY <1>2 DEF SessionOK, Idle
<1>4. op # "ROTATE" => tx[s].device \in tx[s].locks
  BY <1>1 DEF Open, Placed, Operations, Invalidations
<1>5. QED
  BY <1>1, <1>2, <1>3, <1>4, Exclusive

LEMMA CommitCompleteStep ==
    ASSUME IInv, NEW s \in Sessions, NEW k \in Creds, CommitComplete(s, k)
    PROVE  SessionOK(s)' /\ \A t \in Sessions \ {s} : Undisturbed(t)
<1> DEFINE d == tx[s].device
<1>1. Committing(s, "COMPLETE")
  BY DEF CommitComplete
<1>2. d \in Devices /\ tx[s].row \in Codes \cap tx[s].locks
  BY <1>1, CommittingSession DEF Open, Placed
<1>3. tx[s].written \subseteq tx[s].locks
  BY <1>1, CommittingSession DEF Open, Written
<1>4. Contained(s)
  <2>1. \A j \in Creds \ tx[s].locks : credDevice[j] # Nobody =>
            credDevice'[j] = credDevice[j] /\ credStatus'[j] = credStatus[j]
    BY <1>3 DEF CommitComplete, RevokedCreds, IInv, TypeOK, DL!TypeOK, DL!RowTypeOK
  <2>2. \A e \in Devices \ {d} : DL!ActiveCreds(e)' \subseteq DL!ActiveCreds(e)
    BY DEF CommitComplete, RevokedCreds, IInv, TypeOK, DL!TypeOK, DL!RowTypeOK, DL!ActiveCreds
  <2>3. \A e \in Devices \ {d} : DL!OpenCodes(e)' \subseteq DL!OpenCodes(e)
    BY DEF CommitComplete, DL!OpenCodes
  <2>4. QED
    BY <1>2, <2>1, <2>2, <2>3 DEF CommitComplete, Contained, IInv, TypeOK, DL!TypeOK,
       DL!DeviceTypeOK
<1>5. QED
  BY <1>1, <1>4, CommittingSession, ContainedUndisturbs

LEMMA CommitRotateStep ==
    ASSUME IInv, NEW s \in Sessions, NEW k \in Creds, CommitRotate(s, k)
    PROVE  SessionOK(s)' /\ \A t \in Sessions \ {s} : Undisturbed(t)
<1> DEFINE d == tx[s].device
<1>1. Committing(s, "ROTATE") /\ \A t \in Sessions \ {s} : d \notin tx[t].locks
  BY DEF CommitRotate, KeyShareFree, FreeFor
<1>2. d \in Devices /\ tx[s].row \in Creds \cap tx[s].locks
  BY <1>1, CommittingSession DEF Open, Placed
<1>3. Contained(s)
  <2>1. \A j \in Creds \ tx[s].locks : credDevice[j] # Nobody =>
            credDevice'[j] = credDevice[j] /\ credStatus'[j] = credStatus[j]
    BY <1>2 DEF CommitRotate, IInv, TypeOK, DL!TypeOK, DL!RowTypeOK
  <2>2. \A e \in Devices \ {d} : DL!ActiveCreds(e)' \subseteq DL!ActiveCreds(e)
    BY DEF CommitRotate, IInv, TypeOK, DL!TypeOK, DL!RowTypeOK, DL!ActiveCreds
  <2>3. \A e \in Devices \ {d} : DL!OpenCodes(e)' \subseteq DL!OpenCodes(e)
    BY DEF CommitRotate, DL!OpenCodes
  <2>4. QED
    BY <2>1, <2>2, <2>3 DEF CommitRotate, Contained
<1>4. QED
  BY <1>1, <1>3, CommittingSession, ContainedUndisturbs

\* Revoking and archiving, as far as rows are concerned.
LEMMA CommitInvalidationStep ==
    ASSUME IInv, NEW s \in Sessions, CommitRevoke(s) \/ CommitArchive(s)
    PROVE  SessionOK(s)' /\ \A t \in Sessions \ {s} : Undisturbed(t)
<1> DEFINE d == tx[s].device
<1>1. PICK op \in Invalidations : Committing(s, op)
  BY DEF CommitRevoke, CommitArchive, Invalidations
<1>2. d \in Devices
  BY <1>1, CommittingSession DEF Open, Placed
<1>3. tx[s].written \subseteq tx[s].locks
  BY <1>1, CommittingSession DEF Open, Written
<1>4. /\ voided' = voided \cup (tx[s].written \cap Codes)
      /\ credStatus' = RevokedCreds(tx[s].written)
      /\ UNCHANGED <<seen, codeDevice, consumed, credDevice>>
  BY DEF CommitRevoke, CommitArchive
<1>5. \A e \in Devices \ {d} : admin'[e] = admin[e] /\ activation'[e] = activation[e]
                               /\ revision'[e] = revision[e]
  BY <1>2 DEF CommitRevoke, CommitArchive, IInv, TypeOK, DL!TypeOK, DL!DeviceTypeOK
<1>6. Contained(s)
  <2>1. \A e \in Devices : DL!ActiveCreds(e)' \subseteq DL!ActiveCreds(e)
    BY <1>4 DEF RevokedCreds, DL!ActiveCreds
  <2>2. \A e \in Devices : DL!OpenCodes(e)' \subseteq DL!OpenCodes(e)
    BY <1>4 DEF DL!OpenCodes
  <2>3. QED
    BY <1>3, <1>4, <1>5, <2>1, <2>2 DEF Contained, RevokedCreds
<1>7. QED
  BY <1>1, <1>6, CommittingSession, ContainedUndisturbs DEF Invalidations

LEMMA CommitGenerateStep ==
    ASSUME IInv, NEW s \in Sessions, NEW c \in Codes, CommitGenerate(s, c)
    PROVE  SessionOK(s)' /\ \A t \in Sessions \ {s} : Undisturbed(t)
<1> DEFINE d == tx[s].device
<1>1. Committing(s, "GENERATE")
  BY DEF CommitGenerate
<1>2. d \in Devices
  BY <1>1, CommittingSession DEF Open, Placed
<1>3. tx[s].written \subseteq tx[s].locks
  BY <1>1, CommittingSession DEF Open, Written
<1>4. Contained(s)
  <2>1. \A b \in Codes \ tx[s].locks : codeDevice[b] # Nobody =>
            codeDevice'[b] = codeDevice[b] /\ (b \in consumed' <=> b \in consumed)
                                           /\ (b \in voided' <=> b \in voided)
    BY <1>3 DEF CommitGenerate, IInv, TypeOK, DL!TypeOK, DL!RowTypeOK
  <2>2. \A e \in Devices \ {d} : DL!ActiveCreds(e)' \subseteq DL!ActiveCreds(e)
    BY DEF CommitGenerate, DL!ActiveCreds
  <2>3. \A e \in Devices \ {d} : DL!OpenCodes(e)' \subseteq DL!OpenCodes(e)
    BY DEF CommitGenerate, DL!OpenCodes, IInv, TypeOK, DL!TypeOK, DL!RowTypeOK
  <2>4. QED
    BY <2>1, <2>2, <2>3 DEF CommitGenerate, Contained
<1>5. QED
  BY <1>1, <1>4, CommittingSession, ContainedUndisturbs

----------------------------------------------------------------------------
(* One statement each *)

LEMMA OneRowStep ==
    ASSUME IInv, NEW d \in Devices, OneRow(d), NEW t \in Sessions
    PROVE  Undisturbed(t)
<1>1. tx' = tx /\ UNCHANGED rowVars
  BY DEF OneRow, DL!PanelReads, DL!CreateDevice, DL!SuspendDevice, DL!ReactivateDevice,
     DL!codeVars, DL!credVars, rowVars
<1>2. RowsKept(tx[t])
  BY <1>1 DEF RowsKept, rowVars
<1>3. DeviceKept(tx[t])
  <2>1. SUFFICES ASSUME tx[t].device \in tx[t].locks PROVE DeviceKept(tx[t])
    BY DEF DeviceKept
  <2>2. PICK e \in Devices : e = tx[t].device
    <3>1. tx[t] # Idle
      BY <2>1 DEF Idle
    <3>2. QED
      BY <3>1 DEF IInv, SessionOK, Open, Placed
  <2>3. /\ DL!Exists(e) => admin'[e] = admin[e]
        /\ activation'[e] = activation[e] /\ revision'[e] = revision[e]
        /\ seen'[e].revision \in {seen[e].revision, revision[e]}
    <3>1. CASE DL!PanelReads(d)
      BY <3>1 DEF DL!PanelReads, DL!deviceVars, DL!Configuration, IInv, TypeOK, DL!TypeOK,
         DL!SessionTypeOK
    <3>2. CASE DL!CreateDevice(d, Zone)
      BY <3>2 DEF DL!CreateDevice, DL!Exists, IInv, TypeOK, DL!TypeOK, DL!DeviceTypeOK
    <3>3. CASE Free(d) /\ (DL!SuspendDevice(d) \/ DL!ReactivateDevice(d))
      <4>1. e # d
        BY <2>1, <2>2, <3>3 DEF Free
      <4>2. QED
        BY <3>3, <4>1 DEF DL!SuspendDevice, DL!ReactivateDevice, DL!NextRevision, IInv, TypeOK,
           DL!TypeOK, DL!DeviceTypeOK
    <3>4. QED
      BY <3>1, <3>2, <3>3 DEF OneRow
  <2>4. DL!ActiveCreds(tx[t].device)' = DL!ActiveCreds(tx[t].device)
        /\ DL!OpenCodes(tx[t].device)' = DL!OpenCodes(tx[t].device)
    BY <1>1 DEF rowVars, DL!ActiveCreds, DL!OpenCodes
  <2>5. QED
    BY <1>1, <2>2, <2>3, <2>4 DEF DeviceKept, DL!Exists
<1>4. QED
  BY <1>1, <1>2, <1>3 DEF Undisturbed

LEMMA LogoutStep ==
    ASSUME IInv, NEW k \in Creds, Logout(k), NEW t \in Sessions
    PROVE  Undisturbed(t)
<1>1. /\ tx' = tx /\ k \notin tx[t].locks
      /\ credStatus' = [credStatus EXCEPT ![k] = "REVOKED"]
      /\ UNCHANGED <<admin, activation, revision, seen, codeDevice, consumed, voided, credDevice>>
  BY DEF Logout, Free, DL!RevokeDeviceCredentialFromCookie, DL!deviceVars, DL!codeVars
<1>2. RowsKept(tx[t])
  BY <1>1 DEF RowsKept
<1>3. DeviceKept(tx[t])
  <2>1. \A e : DL!ActiveCreds(e)' \subseteq DL!ActiveCreds(e)
    BY <1>1 DEF DL!ActiveCreds, IInv, TypeOK, DL!TypeOK, DL!RowTypeOK
  <2>2. \A e : DL!OpenCodes(e)' \subseteq DL!OpenCodes(e)
    BY <1>1 DEF DL!OpenCodes
  <2>3. PICK e : e = tx[t].device
    OBVIOUS
  <2>4. QED
    BY <1>1, <2>1, <2>2, <2>3 DEF DeviceKept
<1>4. QED
  BY <1>1, <1>2, <1>3 DEF Undisturbed

----------------------------------------------------------------------------
(* The invariant *)

LEMMA SessionOKStep ==
    ASSUME IInv, [Next]_vars
    PROVE  \A t \in Sessions : SessionOK(t)'
<1>0. \A t \in Sessions : Undisturbed(t) => SessionOK(t)'
  BY UndisturbedKeeps DEF IInv
<1>1. CASE UNCHANGED vars
  <2>1. Quiet /\ tx' = tx
    BY <1>1 DEF vars, Quiet
  <2>2. QED
    BY <1>0, <2>1, QuietUndisturbs
<1>2. ASSUME NEW d \in Devices, OneRow(d) PROVE \A t \in Sessions : SessionOK(t)'
  BY <1>0, <1>2, OneRowStep
<1>3. ASSUME NEW k \in Creds, Logout(k) PROVE \A t \in Sessions : SessionOK(t)'
  BY <1>0, <1>3, LogoutStep
<1>4. ASSUME NEW s \in Sessions,
             SessionOK(s)' /\ \A t \in Sessions \ {s} : Undisturbed(t)
      PROVE  \A t \in Sessions : SessionOK(t)'
  BY <1>0, <1>4
<1>5. ASSUME NEW s \in Sessions, NEW d \in Devices,
             \/ \E c \in Codes : BeginComplete(s, d, c)
             \/ \E k \in Creds : BeginRotate(s, d, k)
             \/ \E op \in Invalidations : BeginInvalidation(s, op, d)
             \/ BeginGenerate(s, d)
      PROVE  \A t \in Sessions : SessionOK(t)'
  BY <1>4, <1>5, BeginCompleteStep, BeginRotateStep, BeginInvalidationStep, BeginGenerateStep
<1>6. ASSUME NEW s \in Sessions, LockDevice(s) \/ Scan(s) \/ Update(s) \/ RollBack(s)
      PROVE  \A t \in Sessions : SessionOK(t)'
  BY <1>4, <1>6, LockDeviceStep, ScanStep, UpdateStep, RollBackStep
<1>7. ASSUME NEW s \in Sessions,
             \/ \E k \in Creds : CommitComplete(s, k) \/ CommitRotate(s, k)
             \/ CommitRevoke(s) \/ CommitArchive(s)
             \/ \E c \in Codes : CommitGenerate(s, c)
      PROVE  \A t \in Sessions : SessionOK(t)'
  BY <1>4, <1>7, CommitCompleteStep, CommitRotateStep, CommitInvalidationStep,
     CommitGenerateStep
<1>8. QED
  BY <1>1, <1>2, <1>3, <1>5, <1>6, <1>7 DEF Next, Invalidations

\* A session takes a lock only where no other session holds it.
LEMMA LocksExclusiveStep == IInv /\ [Next]_vars => LocksExclusive'
<1> SUFFICES ASSUME IInv, [Next]_vars PROVE LocksExclusive'
  OBVIOUS
<1>1. CASE tx' = tx
  BY <1>1 DEF IInv, LocksExclusive
<1>2. ASSUME NEW s \in Sessions, NEW taken,
             \A t \in Sessions \ {s} : tx'[t] = tx[t],
             tx'[s].locks \subseteq tx[s].locks \cup taken,
             \A t \in Sessions \ {s} : tx[t].locks \cap taken = {}
      PROVE  LocksExclusive'
  BY <1>2 DEF IInv, LocksExclusive
<1>3. ASSUME NEW s \in Sessions, NEW op, NEW at, NEW d, NEW row, NEW lock,
             Begin(s, op, at, d, row, lock)
      PROVE  LocksExclusive'
  <2>1. tx'[s].locks = {lock} /\ \A t \in Sessions \ {s} : tx'[t] = tx[t]
    BY <1>3 DEF Begin, IInv, TypeOK
  <2>2. \A t \in Sessions \ {s} : tx[t].locks \cap {lock} = {}
    BY <1>3 DEF Begin, Free
  <2>3. QED
    BY <1>2, <2>1, <2>2
<1>4. ASSUME NEW s \in Sessions, LockDevice(s) PROVE LocksExclusive'
  <2>1. /\ tx'[s].locks = tx[s].locks \cup {tx[s].device}
        /\ \A t \in Sessions \ {s} : tx'[t] = tx[t]
    BY <1>4 DEF LockDevice, IInv, TypeOK
  <2>2. \A t \in Sessions \ {s} : tx[t].locks \cap {tx[s].device} = {}
    BY <1>4 DEF LockDevice, DeviceFree, FreeFor
  <2>3. QED
    BY <1>2, <2>1, <2>2
<1>5. ASSUME NEW s \in Sessions, Scan(s) PROVE LocksExclusive'
  <2>1. tx'[s].locks \subseteq tx[s].locks \cup {} /\ \A t \in Sessions \ {s} : tx'[t] = tx[t]
    BY <1>5 DEF Scan, IInv, TypeOK
  <2>2. \A t \in Sessions \ {s} : tx[t].locks \cap {} = {}
    OBVIOUS
  <2>3. QED
    BY <1>2, <2>1, <2>2
<1>6. ASSUME NEW s \in Sessions, Update(s) PROVE LocksExclusive'
  <2>1. /\ tx'[s].locks \subseteq tx[s].locks \cup tx[s].scanned
        /\ \A t \in Sessions \ {s} : tx'[t] = tx[t]
    BY <1>6 DEF Update, IInv, TypeOK
  <2>2. \A t \in Sessions \ {s} : tx[t].locks \cap tx[s].scanned = {}
    BY <1>6 DEF Update, FreeFor
  <2>3. QED
    BY <1>2, <2>1, <2>2
<1>7. ASSUME NEW s \in Sessions, tx' = [tx EXCEPT ![s] = Idle] PROVE LocksExclusive'
  <2>1. tx'[s].locks \subseteq tx[s].locks \cup {} /\ \A t \in Sessions \ {s} : tx'[t] = tx[t]
    BY <1>7 DEF Idle, IInv, TypeOK
  <2>2. \A t \in Sessions \ {s} : tx[t].locks \cap {} = {}
    OBVIOUS
  <2>3. QED
    BY <1>2, <2>1, <2>2
<1>8. QED
  BY <1>1, <1>3, <1>4, <1>5, <1>6, <1>7
  DEF Next, vars, BeginComplete, BeginRotate, BeginInvalidation, BeginGenerate,
      CommitComplete, CommitRotate, CommitRevoke, CommitArchive, CommitGenerate, Committing,
      RollBack, OneRow, Logout

\* The rows a session has presented.
Presented(x) == IF x.op \in {"COMPLETE", "ROTATE"} THEN {x.row} ELSE {}

LEMMA PresentedRows ==
    ASSUME IInv
    PROVE  /\ CheckedRows = UNION {Presented(tx[s]) : s \in Sessions}
           /\ \A row \in CheckedRows : \E s \in Sessions : row \in tx[s].locks
           /\ \A s \in Sessions : Presented(tx[s]) \subseteq tx[s].locks \cap (Codes \cup Creds)
           /\ \A s, t \in Sessions : s # t => Presented(tx[s]) \cap Presented(tx[t]) = {}
<1>1. CheckedRows = UNION {Presented(tx[s]) : s \in Sessions}
  BY DEF CheckedRows, Presented
<1>2. \A s \in Sessions : Presented(tx[s]) \subseteq tx[s].locks \cap (Codes \cup Creds)
  <2>1. TAKE s \in Sessions
  <2>2. CASE tx[s] = Idle
    BY <2>2 DEF Idle, Presented
  <2>3. CASE Open(tx[s])
    BY <2>3 DEF Open, Placed, Presented
  <2>4. QED
    BY <2>2, <2>3 DEF IInv, SessionOK
<1>3. QED
  BY <1>1, <1>2 DEF IInv, LocksExclusive

LEMMA IdlePresentsNothing == Presented(Idle) = {}
BY DEF Presented, Idle

\* A step of one session changes only what that session has presented.
LEMMA PresentedStep ==
    ASSUME IInv, NEW s \in Sessions, \A t \in Sessions \ {s} : tx'[t] = tx[t]
    PROVE  CheckedRows' = (CheckedRows \ Presented(tx[s])) \cup Presented(tx'[s])
<1>1. CheckedRows' = UNION {Presented(tx'[t]) : t \in Sessions}
  BY DEF CheckedRows, Presented
<1>2. \A t \in Sessions \ {s} : Presented(tx'[t]) = Presented(tx[t])
  BY DEF Presented
<1>3. QED
  BY <1>1, <1>2, PresentedRows

\* The rows keep their types.
LEMMA TypeStep == IInv /\ [Next]_vars => TypeOK'
<1> SUFFICES ASSUME IInv, [Next]_vars PROVE TypeOK'
  OBVIOUS
<1>1. DL!DeviceTypeOK'
  <2>0. DL!DeviceTypeOK
    BY DEF IInv, TypeOK, DL!TypeOK
  <2> USE <2>0 DEF DL!DeviceTypeOK, DL!AdminValues, DL!ActivationValues, DL!StatusValues,
          DL!ConnectivityValues
  <2>1. CASE UNCHANGED <<admin, activation, status, connectivity, revision, zone>>
    BY <2>1
  <2>2. ASSUME NEW d \in Devices, OneRow(d) PROVE DL!DeviceTypeOK'
    <3>1. CASE DL!PanelReads(d)
      BY <3>1 DEF DL!PanelReads, DL!deviceVars
    <3>2. CASE DL!CreateDevice(d, Zone)
      BY <3>2 DEF DL!CreateDevice
    <3>3. CASE DL!SuspendDevice(d)
      BY <3>3 DEF DL!SuspendDevice, DL!NextRevision
    <3>4. CASE DL!ReactivateDevice(d)
      BY <3>4 DEF DL!ReactivateDevice, DL!NextRevision
    <3>5. QED
      BY <2>2, <3>1, <3>2, <3>3, <3>4 DEF OneRow
  <2>3. ASSUME NEW s \in Sessions, NEW k \in Creds, CommitComplete(s, k)
        PROVE  DL!DeviceTypeOK'
    <3>1. tx[s].device \in Devices
      BY <2>3, CommittingSession DEF CommitComplete, Open, Placed
    <3>2. PICK d \in Devices : d = tx[s].device
      BY <3>1
    <3>3. revision[d] + 1 \in Nat
      OBVIOUS
    <3>4. QED
      BY <2>3, <3>2, <3>3 DEF CommitComplete
  <2>4. ASSUME NEW s \in Sessions, CommitRevoke(s) \/ CommitArchive(s)
        PROVE  DL!DeviceTypeOK'
    BY <2>4 DEF CommitRevoke, CommitArchive
  <2>5. QED
    BY <2>1, <2>2, <2>3, <2>4 DEF Next, vars, BeginComplete, BeginRotate, BeginInvalidation,
       BeginGenerate, LockDevice, Scan, Update, RollBack, CommitRotate, CommitGenerate, Logout,
       DL!RevokeDeviceCredentialFromCookie, DL!deviceVars
<1>2. DL!RowTypeOK'
  <2> USE DEF IInv, TypeOK, DL!TypeOK, DL!RowTypeOK
  <2>1. CASE UNCHANGED rowVars
    BY <2>1 DEF rowVars
  <2>2. ASSUME NEW k \in Creds, Logout(k) PROVE DL!RowTypeOK'
    BY <2>2 DEF Logout, DL!RevokeDeviceCredentialFromCookie, DL!codeVars
  <2>3. ASSUME NEW s \in Sessions, NEW k \in Creds, CommitComplete(s, k) PROVE DL!RowTypeOK'
    <3>1. tx[s].device \in Devices /\ tx[s].row \in Codes
      BY <2>3, CommittingSession DEF CommitComplete, Open, Placed
    <3>2. QED
      BY <2>3, <3>1 DEF CommitComplete, RevokedCreds
  <2>4. ASSUME NEW s \in Sessions, NEW k \in Creds, CommitRotate(s, k) PROVE DL!RowTypeOK'
    <3>1. tx[s].device \in Devices /\ tx[s].row \in Creds
      BY <2>4, CommittingSession DEF CommitRotate, Open, Placed
    <3>2. QED
      BY <2>4, <3>1 DEF CommitRotate
  <2>5. ASSUME NEW s \in Sessions, CommitRevoke(s) \/ CommitArchive(s) PROVE DL!RowTypeOK'
    BY <2>5 DEF CommitRevoke, CommitArchive, RevokedCreds
  <2>6. ASSUME NEW s \in Sessions, NEW c \in Codes, CommitGenerate(s, c) PROVE DL!RowTypeOK'
    <3>1. tx[s].device \in Devices /\ tx[s].written \subseteq Codes
      BY <2>6, CommittingSession DEF CommitGenerate, Open, Placed, Written
    <3>2. QED
      BY <2>6, <3>1 DEF CommitGenerate
  <2>7. ASSUME NEW d \in Devices, OneRow(d) PROVE DL!RowTypeOK'
    BY <2>7 DEF OneRow, DL!PanelReads, DL!CreateDevice, DL!SuspendDevice, DL!ReactivateDevice,
       DL!codeVars, DL!credVars
  <2>8. QED
    BY <2>1, <2>2, <2>3, <2>4, <2>5, <2>6, <2>7 DEF Next, vars, BeginComplete, BeginRotate,
       BeginInvalidation, BeginGenerate, LockDevice, Scan, Update, RollBack
<1>3. DL!SessionTypeOK'
  <2>1. seen' \in [Devices -> [admin : DL!AdminValues, activation : DL!ActivationValues,
                               zone : {Zone} \cup {Nobody}, revision : Nat]]
    <3> USE DEF IInv, TypeOK, DL!TypeOK, DL!SessionTypeOK
    <3>1. CASE seen' = seen
      BY <3>1
    <3>2. ASSUME NEW d \in Devices, DL!PanelReads(d)
          PROVE  seen' \in [Devices -> [admin : DL!AdminValues,
                                        activation : DL!ActivationValues,
                                        zone : {Zone} \cup {Nobody}, revision : Nat]]
      BY <3>2 DEF DL!PanelReads, DL!Configuration, DL!DeviceTypeOK
    <3>3. QED
      BY <3>1, <3>2 DEF Next, vars, BeginComplete, BeginRotate, BeginInvalidation,
         BeginGenerate, LockDevice, Scan, Update, RollBack, CommitComplete, CommitRotate,
         CommitRevoke, CommitArchive, CommitGenerate, OneRow, Logout, DL!CreateDevice,
         DL!SuspendDevice, DL!ReactivateDevice, DL!RevokeDeviceCredentialFromCookie
  <2>2. CheckedRows' \in SUBSET (Codes \cup Creds)
    <3>1. ASSUME NEW t \in Sessions, tx'[t].op \in {"COMPLETE", "ROTATE"}
          PROVE  tx'[t].row \in Codes \cup Creds
      <4>1. tx'[t] # Idle
        BY <3>1 DEF Idle
      <4>2. Placed(tx[t])'
        BY <4>1, SessionOKStep DEF SessionOK, Open
      <4>3. QED
        BY <3>1, <4>2 DEF Placed
    <3>2. QED
      BY <3>1 DEF CheckedRows
  <2>3. QED
    BY <2>1, <2>2 DEF DL!SessionTypeOK
<1>4. tx' \in [Sessions ->
                [op : Operations \cup {"NONE"},
                 at : {"begin", "lock device", "scan creds", "update creds", "scan codes",
                       "update codes", "commit"},
                 device : Devices \cup {Nobody}, row : Codes \cup Creds \cup {Nobody},
                 scanned : SUBSET (Codes \cup Creds),
                 locks : SUBSET (Devices \cup Codes \cup Creds),
                 written : SUBSET (Codes \cup Creds)]]
  <2> DEFINE R == [op : Operations \cup {"NONE"},
                   at : {"begin", "lock device", "scan creds", "update creds", "scan codes",
                         "update codes", "commit"},
                   device : Devices \cup {Nobody}, row : Codes \cup Creds \cup {Nobody},
                   scanned : SUBSET (Codes \cup Creds),
                   locks : SUBSET (Devices \cup Codes \cup Creds),
                   written : SUBSET (Codes \cup Creds)]
  <2>1. tx \in [Sessions -> R]
    BY DEF IInv, TypeOK
  <2>2. Idle \in R
    BY DEF Idle
  <2>3. CASE tx' = tx
    BY <2>1, <2>3
  <2>4. ASSUME NEW s \in Sessions, NEW op \in Operations, NEW d \in Devices,
               NEW at \in {"lock device", "scan creds", "scan codes", "commit"},
               NEW row \in Codes \cup Creds \cup {Nobody},
               NEW lock \in Devices \cup Codes \cup Creds, Begin(s, op, at, d, row, lock)
        PROVE  tx' \in [Sessions -> R]
    BY <2>1, <2>4 DEF Begin
  <2>5. ASSUME NEW s \in Sessions, LockDevice(s) PROVE tx' \in [Sessions -> R]
    <3>1. tx[s].device \in Devices
      BY <2>5, PastBegin DEF LockDevice, Open, Placed
    <3>2. [tx[s] EXCEPT !.at = "scan creds", !.locks = @ \cup {tx[s].device}] \in R
      BY <2>1, <3>1
    <3>3. tx' = [tx EXCEPT ![s] = [tx[s] EXCEPT !.at = "scan creds", !.locks = @ \cup {tx[s].device}]]
      BY <2>1, <2>5 DEF LockDevice
    <3>4. QED
      BY <2>1, <3>2, <3>3
  <2>6. ASSUME NEW s \in Sessions, Scan(s) PROVE tx' \in [Sessions -> R]
    <3>1. Matching(tx[s].device, tx[s].at) \subseteq Codes \cup Creds
      BY DEF Matching, DL!ActiveCreds, DL!OpenCodes
    <3>2. PICK at \in {"update creds", "update codes"} :
            tx' = [tx EXCEPT ![s] = [tx[s] EXCEPT !.scanned = Matching(tx[s].device, tx[s].at),
                                                  !.at = at]]
      BY <2>1, <2>6 DEF Scan
    <3>3. [tx[s] EXCEPT !.scanned = Matching(tx[s].device, tx[s].at), !.at = at] \in R
      BY <2>1, <3>1, <3>2
    <3>4. QED
      BY <2>1, <3>2, <3>3
  <2>7. ASSUME NEW s \in Sessions, Update(s) PROVE tx' \in [Sessions -> R]
    <3>1. PICK at \in {"scan codes", "commit"}, still \in SUBSET (Codes \cup Creds) :
            tx' = [tx EXCEPT ![s] = [tx[s] EXCEPT !.written = @ \cup still,
                                                  !.locks = @ \cup still,
                                                  !.scanned = {}, !.at = at]]
      BY <2>1, <2>7 DEF Update
    <3>2. [tx[s] EXCEPT !.written = @ \cup still, !.locks = @ \cup still, !.scanned = {},
                        !.at = at] \in R
      BY <2>1, <3>1
    <3>3. QED
      BY <2>1, <3>1, <3>2
  <2>8. ASSUME NEW s \in Sessions, tx' = [tx EXCEPT ![s] = Idle] PROVE tx' \in [Sessions -> R]
    BY <2>1, <2>2, <2>8
  <2>9. ASSUME NEW s \in Sessions, NEW d \in Devices,
               \/ \E c \in Codes : BeginComplete(s, d, c)
               \/ \E k \in Creds : BeginRotate(s, d, k)
               \/ \E op \in {"REVOKE", "ARCHIVE"} : BeginInvalidation(s, op, d)
               \/ BeginGenerate(s, d)
        PROVE  tx' \in [Sessions -> R]
    <3> USE DEF Operations
    <3>1. ASSUME NEW c \in Codes, BeginComplete(s, d, c) PROVE tx' \in [Sessions -> R]
      BY <2>4, <3>1 DEF BeginComplete
    <3>2. ASSUME NEW k \in Creds, BeginRotate(s, d, k) PROVE tx' \in [Sessions -> R]
      BY <2>4, <3>2 DEF BeginRotate
    <3>3. ASSUME NEW op \in {"REVOKE", "ARCHIVE"}, BeginInvalidation(s, op, d)
          PROVE  tx' \in [Sessions -> R]
      <4>1. Begin(s, op, "scan creds", d, Nobody, d) /\ op \in Operations
        BY <3>3 DEF BeginInvalidation
      <4>2. QED
        BY <2>4, <4>1, Zenon
    <3>4. CASE BeginGenerate(s, d)
      <4>1. Begin(s, "GENERATE", "scan codes", d, Nobody, d)
        BY <3>4 DEF BeginGenerate
      <4>2. QED
        BY <2>4, <4>1
    <3>5. QED
      BY <2>9, <3>1, <3>2, <3>3, <3>4
  <2>10. QED
    BY <2>3, <2>5, <2>6, <2>7, <2>8, <2>9 DEF Next, vars, CommitComplete, CommitRotate,
       CommitRevoke, CommitArchive, CommitGenerate, Committing, RollBack, OneRow, Logout
<1>5. QED
  BY <1>1, <1>2, <1>3, <1>4 DEF TypeOK, DL!TypeOK

LEMMA InitInvariant == Init => IInv
<1> SUFFICES ASSUME Init PROVE IInv
  OBVIOUS
<1>1. \A s \in Sessions : tx[s] = Idle
  BY DEF Init
<1>2. TypeOK
  <2>1. DL!DeviceTypeOK
    BY DEF Init, DL!Init, DL!DeviceTypeOK, DL!AdminValues, DL!ActivationValues,
       DL!StatusValues, DL!ConnectivityValues
  <2>2. DL!RowTypeOK
    BY DEF Init, DL!Init, DL!RowTypeOK
  <2>3. DL!SessionTypeOK
    BY DEF Init, DL!Init, DL!SessionTypeOK, DL!Configuration, DL!AdminValues,
       DL!ActivationValues
  <2>4. tx \in [Sessions ->
                  [op : Operations \cup {"NONE"},
                   at : {"begin", "lock device", "scan creds", "update creds", "scan codes",
                         "update codes", "commit"},
                   device : Devices \cup {Nobody}, row : Codes \cup Creds \cup {Nobody},
                   scanned : SUBSET (Codes \cup Creds),
                   locks : SUBSET (Devices \cup Codes \cup Creds),
                   written : SUBSET (Codes \cup Creds)]]
    BY DEF Init, Idle
  <2>5. QED
    BY <2>1, <2>2, <2>3, <2>4 DEF TypeOK, DL!TypeOK
<1>3. LocksExclusive /\ \A s \in Sessions : SessionOK(s)
  BY <1>1 DEF LocksExclusive, SessionOK, Idle
<1>4. QED
  BY <1>2, <1>3 DEF IInv

LEMMA Invariance == IInv /\ [Next]_vars => IInv'
BY SessionOKStep, LocksExclusiveStep, TypeStep DEF IInv

\* The transactions of DeviceTransactions never lose what they rely on: what each
\* has locked, checked, scanned and written stays as it found it.
THEOREM InvariantHolds == Spec => []IInv
BY InitInvariant, Invariance, PTL DEF Spec

\* NothingEscapes: for any number of concurrent sessions, whatever was issued while
\* a revocation, an archiving, an activation or a new code was under way, the rows
\* it has invalidated when it commits are all there are (services.py 220-260, 323).
THEOREM NothingIsMissed == Spec => []NothingEscapes
<1>1. IInv => NothingEscapes
  <2>1. SUFFICES ASSUME IInv, NEW s \in Sessions, tx[s].at = "commit"
                 PROVE  /\ tx[s].op \in {"COMPLETE", "REVOKE", "ARCHIVE"} =>
                            DL!ActiveCreds(tx[s].device) \subseteq tx[s].written
                        /\ tx[s].op \in {"GENERATE", "REVOKE", "ARCHIVE"} =>
                            DL!OpenCodes(tx[s].device) \subseteq tx[s].written
    BY DEF NothingEscapes
  <2>2. QED
    BY <2>1, PastBegin DEF Open, Scanned, Invalidations
<1>2. QED
  BY <1>1, InvariantHolds, PTL

----------------------------------------------------------------------------
(* The refinement: every step is a step of DeviceLifecycle, or none of its *)

\* The variables of DeviceLifecycle that the rows of this module stand for.
LEMMA QuietStutters ==
    ASSUME Quiet, CheckedRows' = CheckedRows
    PROVE  UNCHANGED DL!vars
BY DEF Quiet, rowVars, DL!vars, DL!deviceVars, DL!codeVars, DL!credVars

\* What a session has locked, no other has presented.
LEMMA LockedNotChecked ==
    ASSUME IInv, NEW s \in Sessions
    PROVE  tx[s].locks \cap CheckedRows \subseteq Presented(tx[s])
BY PresentedRows DEF IInv, LocksExclusive

LEMMA BeginCompleteRefines ==
    ASSUME IInv, NEW s \in Sessions, NEW d \in Devices, NEW c \in Codes,
           BeginComplete(s, d, c)
    PROVE  DL!CheckActivationCode(c)
<1>1. /\ tx[s] = Idle /\ Free(c) /\ Quiet
      /\ tx' = [tx EXCEPT ![s] =
                  [op |-> "COMPLETE", at |-> "lock device", device |-> d, row |-> c,
                   scanned |-> {}, locks |-> {c}, written |-> {}]]
  BY DEF BeginComplete, Begin, Quiet
<1>2. /\ tx'[s].op = "COMPLETE" /\ tx'[s].row = c
      /\ \A t \in Sessions \ {s} : tx'[t] = tx[t]
  BY <1>1 DEF IInv, TypeOK
<1>3. CheckedRows' = CheckedRows \cup {c}
  <2>1. Presented(tx[s]) = {}
    BY <1>1, IdlePresentsNothing
  <2>2. Presented(tx'[s]) = {c}
    BY <1>2 DEF Presented
  <2>3. QED
    BY <1>2, <2>1, <2>2, PresentedStep
<1>4. c \notin CheckedRows
  BY <1>1, PresentedRows DEF Free
<1>5. QED
  BY <1>1, <1>3, <1>4 DEF BeginComplete, Quiet, rowVars, DL!CheckActivationCode,
     DL!deviceVars, DL!codeVars, DL!credVars

LEMMA BeginRotateRefines ==
    ASSUME IInv, NEW s \in Sessions, NEW d \in Devices, NEW k \in Creds,
           BeginRotate(s, d, k)
    PROVE  DL!CheckCredential(k)
<1>1. /\ tx[s] = Idle /\ Free(k) /\ Quiet
      /\ tx' = [tx EXCEPT ![s] =
                  [op |-> "ROTATE", at |-> "commit", device |-> d, row |-> k,
                   scanned |-> {}, locks |-> {k}, written |-> {}]]
  BY DEF BeginRotate, Begin, Quiet
<1>2. /\ tx'[s].op = "ROTATE" /\ tx'[s].row = k
      /\ \A t \in Sessions \ {s} : tx'[t] = tx[t]
  BY <1>1 DEF IInv, TypeOK
<1>3. CheckedRows' = CheckedRows \cup {k}
  <2>1. Presented(tx[s]) = {}
    BY <1>1, IdlePresentsNothing
  <2>2. Presented(tx'[s]) = {k}
    BY <1>2 DEF Presented
  <2>3. QED
    BY <1>2, <2>1, <2>2, PresentedStep
<1>4. k \notin CheckedRows
  BY <1>1, PresentedRows DEF Free
<1>5. QED
  BY <1>1, <1>3, <1>4 DEF BeginRotate, Quiet, rowVars, DL!CheckCredential,
     DL!deviceVars, DL!codeVars, DL!credVars

\* Locking the device, scanning, updating, and the first statement of the services
\* of the panel cannot be seen in DeviceLifecycle.
LEMMA HiddenSteps ==
    ASSUME IInv, NEW s \in Sessions,
           \/ \E d \in Devices : \/ \E op \in Invalidations : BeginInvalidation(s, op, d)
                                 \/ BeginGenerate(s, d)
           \/ LockDevice(s) \/ Scan(s) \/ Update(s)
    PROVE  UNCHANGED DL!vars
<1>1. Quiet
  BY DEF BeginInvalidation, BeginGenerate, LockDevice, Scan, Update, Quiet
<1> DEFINE OnlyHidden == /\ \A t \in Sessions \ {s} : tx'[t] = tx[t]
                         /\ Presented(tx'[s]) = Presented(tx[s])
<1>2. OnlyHidden
  <2>1. ASSUME NEW d \in Devices, NEW op \in Invalidations, BeginInvalidation(s, op, d)
        PROVE  OnlyHidden
    <3>1. /\ tx'[s].op = op /\ tx[s] = Idle
          /\ \A t \in Sessions \ {s} : tx'[t] = tx[t]
      BY <2>1 DEF BeginInvalidation, Begin, IInv, TypeOK
    <3>2. QED
      BY <3>1 DEF Presented, Idle, Invalidations
  <2>2. ASSUME NEW d \in Devices, BeginGenerate(s, d) PROVE OnlyHidden
    <3>1. /\ tx'[s].op = "GENERATE" /\ tx[s] = Idle
          /\ \A t \in Sessions \ {s} : tx'[t] = tx[t]
      BY <2>2 DEF BeginGenerate, Begin, IInv, TypeOK
    <3>2. QED
      BY <3>1 DEF Presented, Idle
  <2>3. CASE LockDevice(s)
    BY <2>3 DEF LockDevice, Presented, IInv, TypeOK
  <2>4. CASE Scan(s)
    BY <2>4 DEF Scan, Presented, IInv, TypeOK
  <2>5. CASE Update(s)
    BY <2>5 DEF Update, Presented, IInv, TypeOK
  <2>6. QED
    BY <2>1, <2>2, <2>3, <2>4, <2>5
<1>3. CheckedRows' = CheckedRows
  <2>1. CheckedRows' = (CheckedRows \ Presented(tx[s])) \cup Presented(tx[s])
    BY <1>2, PresentedStep
  <2>2. Presented(tx[s]) \subseteq CheckedRows
    BY PresentedRows
  <2>3. QED
    BY <2>1, <2>2
<1>4. QED
  BY <1>1, <1>3, QuietStutters

LEMMA RollBackRefines ==
    ASSUME IInv, NEW s \in Sessions, RollBack(s)
    PROVE  UNCHANGED DL!vars \/ \E row \in Codes \cup Creds : DL!RollBack(row)
<1>1. tx'[s] = Idle /\ \A t \in Sessions \ {s} : tx'[t] = tx[t]
  BY DEF RollBack, IInv, TypeOK
<1>2. Quiet
  BY DEF RollBack, Quiet
<1>3. CheckedRows' = CheckedRows \ Presented(tx[s])
  BY <1>1, PresentedStep DEF Presented, Idle
<1>4. CASE Presented(tx[s]) = {}
  BY <1>2, <1>3, <1>4, QuietStutters
<1>5. CASE Presented(tx[s]) # {}
  <2>1. /\ Presented(tx[s]) = {tx[s].row} /\ tx[s].row \in CheckedRows
        /\ tx[s].row \in Codes \cup Creds
    BY <1>5, PresentedRows DEF Presented
  <2>2. DL!RollBack(tx[s].row)
    BY <1>2, <1>3, <2>1 DEF Quiet, rowVars, DL!RollBack, DL!deviceVars, DL!codeVars,
       DL!credVars
  <2>3. QED
    BY <2>1, <2>2
<1>6. QED
  BY <1>4, <1>5

\* At its commit, a transaction has written exactly what DeviceLifecycle changes,
\* and none of it is a row another transaction has presented.
LEMMA WrittenRows ==
    ASSUME IInv, NEW s \in Sessions, tx[s].at = "commit"
    PROVE  LET d == tx[s].device
           IN  /\ tx[s].op = "COMPLETE" => tx[s].written = DL!ActiveCreds(d)
               /\ tx[s].op \in Invalidations =>
                    tx[s].written = DL!ActiveCreds(d) \cup DL!OpenCodes(d)
               /\ tx[s].op = "GENERATE" => tx[s].written = DL!OpenCodes(d)
               /\ tx[s].written \cap CheckedRows \subseteq Presented(tx[s])
<1> DEFINE d == tx[s].device
<1>1. Open(tx[s])
  BY PastBegin
<1>2. tx[s].written \subseteq DL!ActiveCreds(d) \cup DL!OpenCodes(d)
  BY <1>1, TransactionsAssumption DEF Open, Placed, Written
<1>3. DL!ActiveCreds(d) \subseteq Creds /\ DL!OpenCodes(d) \subseteq Codes
  BY DEF DL!ActiveCreds, DL!OpenCodes
<1>4. tx[s].op = "COMPLETE" => tx[s].written = DL!ActiveCreds(d)
  BY <1>1, <1>2, <1>3, TransactionsAssumption DEF Open, Written, Scanned
<1>5. tx[s].op \in Invalidations => tx[s].written = DL!ActiveCreds(d) \cup DL!OpenCodes(d)
  BY <1>1, <1>2 DEF Open, Scanned, Invalidations
<1>6. tx[s].op = "GENERATE" => tx[s].written = DL!OpenCodes(d)
  BY <1>1, <1>2, <1>3, TransactionsAssumption DEF Open, Written, Scanned
<1>7. tx[s].written \cap CheckedRows \subseteq Presented(tx[s])
  BY <1>1, LockedNotChecked DEF Open, Written
<1>8. QED
  BY <1>4, <1>5, <1>6, <1>7

LEMMA CommitCompleteRefines ==
    ASSUME IInv, NEW s \in Sessions, NEW k \in Creds, CommitComplete(s, k)
    PROVE  \E d \in Devices, c \in Codes : DL!CompleteDeviceActivation(d, c, k)
<1>1. /\ Open(tx[s]) /\ tx[s].op = "COMPLETE" /\ tx[s].at = "commit"
      /\ tx'[s] = Idle /\ \A t \in Sessions \ {s} : tx'[t] = tx[t]
  BY CommittingSession DEF CommitComplete
<1>2. PICK d \in Devices, c \in Codes : d = tx[s].device /\ c = tx[s].row
  BY <1>1 DEF Open, Placed
<1>3. c \in DL!OpenCodes(d)
  BY <1>1, <1>2 DEF Open, Checked
<1>4. tx[s].written = DL!ActiveCreds(d) /\ Presented(tx[s]) = {c}
  BY <1>1, <1>2, WrittenRows DEF Presented
<1>5. c \in CheckedRows /\ CheckedRows' = CheckedRows \ {c}
  BY <1>1, <1>4, PresentedRows, PresentedStep, IdlePresentsNothing
<1>6. DL!ActiveCreds(d) \cap CheckedRows = {}
  <2>1. DL!ActiveCreds(d) \cap CheckedRows \subseteq {c}
    BY <1>1, <1>4, WrittenRows
  <2>2. c \notin DL!ActiveCreds(d)
    BY TransactionsAssumption DEF DL!ActiveCreds
  <2>3. QED
    BY <2>1, <2>2
<1>7. credStatus' = [DL!RevokedCreds(DL!CredsToRevoke(d)) EXCEPT ![k] = "ACTIVE"]
  BY <1>4 DEF CommitComplete, RevokedCreds, DL!RevokedCreds, DL!CredsToRevoke
<1>8. DL!CompleteDeviceActivation(d, c, k)
  BY <1>2, <1>3, <1>5, <1>6, <1>7 DEF CommitComplete, DL!CompleteDeviceActivation,
     DL!OpenCodes, DL!Consumed, DL!NextRevision
<1>9. QED
  BY <1>8

LEMMA CommitRotateRefines ==
    ASSUME IInv, NEW s \in Sessions, NEW new \in Creds, CommitRotate(s, new)
    PROVE  \E k \in Creds : DL!RotateDeviceCredential(k, new)
<1>1. /\ Open(tx[s]) /\ tx[s].op = "ROTATE"
      /\ tx'[s] = Idle /\ \A t \in Sessions \ {s} : tx'[t] = tx[t]
  BY CommittingSession DEF CommitRotate
<1>2. PICK k \in Creds : k = tx[s].row
  BY <1>1 DEF Open, Placed
<1>3. credDevice[k] = tx[s].device
  BY <1>1, <1>2 DEF Open, Checked, DL!ActiveCreds
<1>4. Presented(tx[s]) = {k}
  BY <1>1, <1>2 DEF Presented
<1>5. k \in CheckedRows /\ CheckedRows' = CheckedRows \ {k}
  BY <1>1, <1>4, PresentedRows, PresentedStep, IdlePresentsNothing
<1>6. DL!RotateDeviceCredential(k, new)
  BY <1>2, <1>3, <1>5 DEF CommitRotate, DL!RotateDeviceCredential, DL!Retired,
     DL!deviceVars, DL!codeVars
<1>7. QED
  BY <1>6

LEMMA CommitInvalidationRefines ==
    ASSUME IInv, NEW s \in Sessions, CommitRevoke(s) \/ CommitArchive(s)
    PROVE  \E d \in Devices : DL!RevokeDevice(d) \/ DL!ArchiveDevice(d)
<1>1. /\ Open(tx[s]) /\ tx[s].op \in Invalidations /\ tx[s].at = "commit"
      /\ tx'[s] = Idle /\ \A t \in Sessions \ {s} : tx'[t] = tx[t]
  BY CommittingSession DEF CommitRevoke, CommitArchive, Invalidations
<1>2. PICK d \in Devices : d = tx[s].device
  BY <1>1 DEF Open, Placed
<1>3. DL!Exists(d) /\ DL!RevisionMatches(d)
  BY <1>1, <1>2 DEF Open, Checked
<1>4. /\ tx[s].written = DL!ActiveCreds(d) \cup DL!OpenCodes(d)
      /\ Presented(tx[s]) = {}
  BY <1>1, <1>2, WrittenRows DEF Presented, Invalidations
<1>5. CheckedRows' = CheckedRows
  BY <1>1, <1>4, PresentedStep, IdlePresentsNothing
<1>6. DL!RowsFree(d)
  BY <1>1, <1>4, WrittenRows DEF DL!RowsFree
<1>7. DL!ActiveCreds(d) \subseteq Creds /\ DL!OpenCodes(d) \subseteq Codes
  BY DEF DL!ActiveCreds, DL!OpenCodes
<1>8. tx[s].written \cap Codes = DL!CodesToVoid(d)
  BY <1>4, <1>7, TransactionsAssumption DEF DL!CodesToVoid
<1>9. RevokedCreds(tx[s].written) = DL!RevokedCreds(DL!CredsToRevoke(d))
  BY <1>4, <1>7, TransactionsAssumption DEF RevokedCreds, DL!RevokedCreds, DL!CredsToRevoke
<1>10. CASE CommitRevoke(s)
  BY <1>2, <1>3, <1>5, <1>6, <1>8, <1>9, <1>10 DEF CommitRevoke, DL!RevokeDevice,
     DL!NextRevision
<1>11. CASE CommitArchive(s)
  BY <1>2, <1>3, <1>5, <1>6, <1>8, <1>9, <1>11 DEF CommitArchive, DL!ArchiveDevice,
     DL!NextRevision
<1>12. QED
  BY <1>10, <1>11

LEMMA CommitGenerateRefines ==
    ASSUME IInv, NEW s \in Sessions, NEW c \in Codes, CommitGenerate(s, c)
    PROVE  \E d \in Devices : DL!GenerateActivationCode(d, c)
<1>1. /\ Open(tx[s]) /\ tx[s].op = "GENERATE" /\ tx[s].at = "commit"
      /\ tx'[s] = Idle /\ \A t \in Sessions \ {s} : tx'[t] = tx[t]
  BY CommittingSession DEF CommitGenerate
<1>2. PICK d \in Devices : d = tx[s].device
  BY <1>1 DEF Open, Placed
<1>3. DL!Serviceable(d)
  BY <1>1, <1>2 DEF Open, Checked
<1>4. tx[s].written = DL!OpenCodes(d) /\ Presented(tx[s]) = {}
  BY <1>1, <1>2, WrittenRows DEF Presented
<1>5. CheckedRows' = CheckedRows
  BY <1>1, <1>4, PresentedStep, IdlePresentsNothing
<1>6. DL!OpenCodes(d) \cap CheckedRows = {}
  BY <1>1, <1>4, WrittenRows
<1>7. DL!GenerateActivationCode(d, c)
  BY <1>2, <1>3, <1>4, <1>5, <1>6 DEF CommitGenerate, DL!GenerateActivationCode,
     DL!CodesToVoid, DL!deviceVars, DL!credVars
<1>8. QED
  BY <1>7

\* Every step of DeviceTransactions is a step of DeviceLifecycle or changes nothing
\* that DeviceLifecycle sees.
LEMMA StepSimulation == IInv /\ [Next]_vars => [DL!Next]_DL!vars
<1> SUFFICES ASSUME IInv, [Next]_vars PROVE DL!Next \/ UNCHANGED DL!vars
  OBVIOUS
<1>1. CASE UNCHANGED vars
  BY <1>1, QuietStutters DEF vars, Quiet, CheckedRows
<1>2. ASSUME NEW s \in Sessions, NEW d \in Devices, NEW c \in Codes, BeginComplete(s, d, c)
      PROVE  DL!Next
  BY <1>2, BeginCompleteRefines DEF DL!Next
<1>3. ASSUME NEW s \in Sessions, NEW d \in Devices, NEW k \in Creds, BeginRotate(s, d, k)
      PROVE  DL!Next
  BY <1>3, BeginRotateRefines DEF DL!Next
<1>4. ASSUME NEW s \in Sessions,
             \/ \E d \in Devices :
                    \/ \E op \in {"REVOKE", "ARCHIVE"} : BeginInvalidation(s, op, d)
                    \/ BeginGenerate(s, d)
             \/ LockDevice(s) \/ Scan(s) \/ Update(s)
      PROVE  UNCHANGED DL!vars
  BY <1>4, HiddenSteps DEF Invalidations
<1>5. ASSUME NEW s \in Sessions, NEW k \in Creds, CommitComplete(s, k) PROVE DL!Next
  BY <1>5, CommitCompleteRefines DEF DL!Next
<1>6. ASSUME NEW s \in Sessions, NEW k \in Creds, CommitRotate(s, k) PROVE DL!Next
  BY <1>6, CommitRotateRefines DEF DL!Next
<1>7. ASSUME NEW s \in Sessions, CommitRevoke(s) \/ CommitArchive(s) PROVE DL!Next
  BY <1>7, CommitInvalidationRefines DEF DL!Next
<1>8. ASSUME NEW s \in Sessions, NEW c \in Codes, CommitGenerate(s, c) PROVE DL!Next
  BY <1>8, CommitGenerateRefines DEF DL!Next
<1>9. ASSUME NEW s \in Sessions, RollBack(s) PROVE DL!Next \/ UNCHANGED DL!vars
  BY <1>9, RollBackRefines DEF DL!Next
<1>10. ASSUME NEW d \in Devices, OneRow(d) PROVE DL!Next
  BY <1>10 DEF OneRow, DL!Next
<1>11. ASSUME NEW k \in Creds, Logout(k) PROVE DL!Next
  BY <1>11 DEF Logout, DL!Next
<1>12. QED
  BY <1>1, <1>2, <1>3, <1>4, <1>5, <1>6, <1>7, <1>8, <1>9, <1>10, <1>11 DEF Next

\* Lifecycle: the refinement.  Taken apart into statements and row locks, the
\* services still go through the steps of DeviceLifecycle, for any number of
\* sessions: the grain of that module is what READ COMMITTED and the locks of
\* services.py give.
THEOREM Refinement == Spec => Lifecycle
<1>1. Init => DL!Init
  BY DEF Init
<1>2. QED
  BY <1>1, InvariantHolds, StepSimulation, PTL DEF Spec, Lifecycle, DL!Spec

=============================================================================
