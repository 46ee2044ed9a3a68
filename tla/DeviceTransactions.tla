------------------------ MODULE DeviceTransactions -------------------------
(***************************************************************************)
(* DeviceLifecycle with its transactions taken apart into the statements   *)
(* PostgreSQL runs at READ COMMITTED, for the transactions that lock rows  *)
(* of more than one table:                                                 *)
(*   complete_device_activation    code, then device, then credentials     *)
(*   rotate_device_credential      credential, then device (see below)     *)
(*   revoke_device, archiving      device, then credentials, then codes    *)
(*   generate_device_activation_code   device, then codes                  *)
(* A row lock waits for the transaction that holds it; an UPDATE takes its *)
(* rows from the snapshot of its own start, waits for their locks and then *)
(* tests them again; writes are seen by others at commit.  The foreign key *)
(* of an inserted credential is deferred, so rotating takes its (KEY       *)
(* SHARE) lock on the device while it commits, and that lock is all that   *)
(* keeps a revocation from missing the credential being born.              *)
(*                                                                         *)
(* The orders above cross, so transactions can wait for each other in a    *)
(* ring; PostgreSQL then cancels one, which RollBack covers.  Operations   *)
(* that lock one row are left atomic; of those that lock the device alone, *)
(* the ones that change what the transactions above look at are kept.      *)
(* Lifetimes and zones are left to DeviceLifecycle.                        *)
(***************************************************************************)
EXTENDS Naturals, FiniteSets

CONSTANTS
    Devices, Codes, Creds, Nobody, MaxRevision,  \* as in DeviceLifecycle
    Zone,      \* the one zone of this module
    Sessions   \* database sessions

\* Rows of different tables are different.
ASSUME TransactionsAssumption ==
    /\ Nobody \notin Devices \cup Codes \cup Creds \cup {Zone}
    /\ Devices \cap (Codes \cup Creds) = {} /\ Codes \cap Creds = {}
    /\ MaxRevision \in Nat \ {0}

VARIABLES
    admin, activation, status, connectivity, revision, zone,  \* Device
    seen,                                                     \* the panel's copy
    codeDevice, consumed, voided,                             \* DeviceActivation
    credDevice, credStatus, origin,                           \* DeviceCredential
    tx                                                        \* the open transactions

\* The part of the database that a commit changes besides the device.
rowVars == <<codeDevice, consumed, voided, credDevice, credStatus, origin>>
vars == <<admin, activation, status, connectivity, revision, zone, seen, rowVars, tx>>

Operations == {"COMPLETE", "ROTATE", "REVOKE", "ARCHIVE", "GENERATE"}

\* op: the service; at: its next statement; device, row: the device it works on
\* and the code or credential presented; scanned: the rows its current UPDATE
\* found; locks: the rows it holds FOR UPDATE; written: the rows it invalidates.
Idle == [op |-> "NONE", at |-> "begin", device |-> Nobody, row |-> Nobody,
         scanned |-> {}, locks |-> {}, written |-> {}]

\* What DeviceLifecycle calls checked: the row each player transaction presented.
CheckedRows ==
    {tx[s].row : s \in {t \in Sessions : tx[t].op \in {"COMPLETE", "ROTATE"}}}

DL == INSTANCE DeviceLifecycle WITH
        Zones <- {Zone}, DeviceLimit <- Cardinality(Devices), online <- {}, lapsed <- {},
        authenticated <- {}, archivedZones <- {}, checked <- CheckedRows

TypeOK ==
    /\ DL!TypeOK
    /\ tx \in [Sessions ->
                [op : Operations \cup {"NONE"},
                 at : {"begin", "lock device", "scan creds", "update creds", "scan codes",
                       "update codes", "commit"},
                 device : Devices \cup {Nobody}, row : Codes \cup Creds \cup {Nobody},
                 scanned : SUBSET (Codes \cup Creds),
                 locks : SUBSET (Devices \cup Codes \cup Creds),
                 written : SUBSET (Codes \cup Creds)]]

Init == tx = [s \in Sessions |-> Idle] /\ DL!Init

----------------------------------------------------------------------------
(* Locks and statements *)

Free(row) == \A s \in Sessions : row \notin tx[s].locks

FreeFor(s, row) == \A t \in Sessions \ {s} : row \notin tx[t].locks

\* The KEY SHARE lock of the deferred foreign key: it waits for FOR UPDATE.
KeyShareFree_NotTaken(s, d) == TRUE
KeyShareFree(s, d) == FreeFor(s, d)

\* The first statement of a service: lock the row it is about.
Begin(s, op, at, d, row, lock) ==
    /\ tx[s] = Idle
    /\ Free(lock)
    /\ tx' = [tx EXCEPT ![s] =
                [op |-> op, at |-> at, device |-> d, row |-> row, scanned |-> {},
                 locks |-> {lock}, written |-> {}]]

\* The rows a bulk UPDATE reads from its snapshot, by the kind it invalidates.
Matching(d, at) == IF at = "scan creds" THEN DL!ActiveCreds(d) ELSE DL!OpenCodes(d)

----------------------------------------------------------------------------
(* The services *)

BeginComplete(s, d, c) ==
    /\ c \in DL!OpenCodes(d)
    /\ DL!Serviceable(d)
    /\ Begin(s, "COMPLETE", "lock device", d, c, c)
    /\ UNCHANGED <<admin, activation, status, connectivity, revision, zone, seen, rowVars>>

BeginRotate(s, d, k) ==
    /\ k \in DL!ActiveCreds(d)
    /\ DL!Serviceable(d)
    /\ Begin(s, "ROTATE", "commit", d, k, k)
    /\ UNCHANGED <<admin, activation, status, connectivity, revision, zone, seen, rowVars>>

BeginInvalidation(s, op, d) ==
    /\ op \in {"REVOKE", "ARCHIVE"}
    /\ DL!Exists(d)
    /\ DL!RevisionMatches(d)
    /\ Begin(s, op, "scan creds", d, Nobody, d)
    /\ UNCHANGED <<admin, activation, status, connectivity, revision, zone, seen, rowVars>>

BeginGenerate(s, d) ==
    /\ DL!Serviceable(d)
    /\ Begin(s, "GENERATE", "scan codes", d, Nobody, d)
    /\ UNCHANGED <<admin, activation, status, connectivity, revision, zone, seen, rowVars>>

DeviceFree_NotLocked(s) == TRUE
DeviceFree(s) == FreeFor(s, tx[s].device)

\* complete_device_activation locks the device it has already checked.
LockDevice(s) ==
    /\ tx[s].at = "lock device"
    /\ DeviceFree(s)
    /\ tx' = [tx EXCEPT ![s].at = "scan creds", ![s].locks = @ \cup {tx[s].device}]
    /\ UNCHANGED <<admin, activation, status, connectivity, revision, zone, seen, rowVars>>

\* A bulk UPDATE starts: its snapshot is what is committed now.
Scan(s) ==
    /\ tx[s].at \in {"scan creds", "scan codes"}
    /\ tx' = [tx EXCEPT
                ![s].scanned = Matching(tx[s].device, tx[s].at),
                ![s].at = IF @ = "scan creds" THEN "update creds" ELSE "update codes"]
    /\ UNCHANGED <<admin, activation, status, connectivity, revision, zone, seen, rowVars>>

\* It has the locks of the rows it found and writes those that still match.  Never
\* more than one row matches (SingleActiveCredential, SingleOpenCode), so the order
\* in which an UPDATE takes its locks does not matter.
Update(s) ==
    LET still == tx[s].scanned \cap
                 (DL!ActiveCreds(tx[s].device) \cup DL!OpenCodes(tx[s].device))
    IN  /\ tx[s].at \in {"update creds", "update codes"}
        /\ \A row \in tx[s].scanned : FreeFor(s, row)
        /\ tx' = [tx EXCEPT
                    ![s].written = @ \cup still,
                    ![s].locks = @ \cup still,
                    ![s].scanned = {},
                    ![s].at = IF @ = "update creds" /\ tx[s].op # "COMPLETE"
                              THEN "scan codes" ELSE "commit"]
        /\ UNCHANGED <<admin, activation, status, connectivity, revision, zone, seen, rowVars>>

\* The end of every transaction that commits: its locks are released.
Committing(s, op) ==
    /\ tx[s].op = op
    /\ tx[s].at = "commit"
    /\ tx' = [tx EXCEPT ![s] = Idle]

RevokedCreds(S) == [k \in Creds |-> IF k \in S THEN "REVOKED" ELSE credStatus[k]]

CommitComplete(s, k) ==
    LET d == tx[s].device
    IN  /\ Committing(s, "COMPLETE")
        /\ credDevice[k] = Nobody
        /\ revision[d] < MaxRevision
        /\ consumed' = consumed \cup {tx[s].row}
        /\ credStatus' = [RevokedCreds(tx[s].written) EXCEPT ![k] = "ACTIVE"]
        /\ credDevice' = [credDevice EXCEPT ![k] = d]
        /\ origin' = [origin EXCEPT ![k] = tx[s].row]
        /\ activation' = [activation EXCEPT ![d] = "ACTIVATED"]
        /\ connectivity' = [connectivity EXCEPT ![d] = "OFFLINE"]
        /\ status' = [status EXCEPT ![d] = "OFFLINE"]
        /\ revision' = [revision EXCEPT ![d] = @ + 1]
        /\ UNCHANGED <<admin, zone, seen, codeDevice, voided>>

CommitRotate(s, new) ==
    /\ KeyShareFree(s, tx[s].device)
    /\ Committing(s, "ROTATE")
    /\ credDevice[new] = Nobody
    /\ credStatus' = [credStatus EXCEPT ![tx[s].row] = "REVOKED", ![new] = "ACTIVE"]
    /\ credDevice' = [credDevice EXCEPT ![new] = tx[s].device]
    /\ origin' = [origin EXCEPT ![new] = tx[s].row]
    /\ UNCHANGED <<admin, activation, status, connectivity, revision, zone, seen,
                   codeDevice, consumed, voided>>

CommitRevoke(s) ==
    LET d == tx[s].device
    IN  /\ Committing(s, "REVOKE")
        /\ activation' = [activation EXCEPT ![d] = "REVOKED"]
        /\ status' = [status EXCEPT ![d] = "REVOKED"]
        /\ connectivity' = [connectivity EXCEPT ![d] = "OFFLINE"]
        /\ revision' = [revision EXCEPT ![d] = @ + 1]
        /\ voided' = voided \cup (tx[s].written \cap Codes)
        /\ credStatus' = RevokedCreds(tx[s].written)
        /\ UNCHANGED <<admin, zone, seen, codeDevice, consumed, credDevice, origin>>

CommitArchive(s) ==
    LET d == tx[s].device
    IN  /\ Committing(s, "ARCHIVE")
        /\ admin' = [admin EXCEPT ![d] = "ARCHIVED"]
        /\ status' = [status EXCEPT ![d] = "DISABLED"]
        /\ revision' = [revision EXCEPT ![d] = @ + 1]
        /\ voided' = voided \cup (tx[s].written \cap Codes)
        /\ credStatus' = RevokedCreds(tx[s].written)
        /\ UNCHANGED <<activation, connectivity, zone, seen, codeDevice, consumed,
                       credDevice, origin>>

CommitGenerate(s, c) ==
    /\ Committing(s, "GENERATE")
    /\ codeDevice[c] = Nobody
    /\ voided' = voided \cup tx[s].written
    /\ codeDevice' = [codeDevice EXCEPT ![c] = tx[s].device]
    /\ UNCHANGED <<admin, activation, status, connectivity, revision, zone, seen, consumed,
                   credDevice, credStatus, origin>>

\* A deadlock's victim, a lost connection, a crashed worker.
RollBack(s) ==
    /\ tx[s] # Idle
    /\ tx' = [tx EXCEPT ![s] = Idle]
    /\ UNCHANGED <<admin, activation, status, connectivity, revision, zone, seen, rowVars>>

\* One statement each: it waits for the lock of the only row it writes.
OneRow(d) ==
    /\ UNCHANGED tx
    /\ \/ DL!PanelReads(d)
       \/ DL!CreateDevice(d, Zone)
       \/ Free(d) /\ DL!SuspendDevice(d)
       \/ Free(d) /\ DL!ReactivateDevice(d)

Logout(k) ==
    /\ UNCHANGED tx
    /\ Free(k)
    /\ DL!RevokeDeviceCredentialFromCookie(k)

----------------------------------------------------------------------------

Next ==
    \/ \E s \in Sessions :
        \/ \E d \in Devices :
            \/ \E c \in Codes : BeginComplete(s, d, c)
            \/ \E k \in Creds : BeginRotate(s, d, k)
            \/ \E op \in {"REVOKE", "ARCHIVE"} : BeginInvalidation(s, op, d)
            \/ BeginGenerate(s, d)
        \/ LockDevice(s) \/ Scan(s) \/ Update(s)
        \/ \E k \in Creds : CommitComplete(s, k) \/ CommitRotate(s, k)
        \/ CommitRevoke(s) \/ CommitArchive(s)
        \/ \E c \in Codes : CommitGenerate(s, c)
        \/ RollBack(s)
    \/ \E d \in Devices : OneRow(d)
    \/ \E k \in Creds : Logout(k)

Spec == Init /\ [][Next]_vars

----------------------------------------------------------------------------
(* Properties *)

\* Statement by statement and lock by lock, the database still goes through the
\* steps of DeviceLifecycle: its grain is not an idealisation, and everything
\* proved of it holds here.
Lifecycle == DL!Spec

\* When a transaction is about to commit, the rows it has invalidated are all
\* there are: nothing was issued behind its snapshot.  For a new code this also
\* says that the index on open codes (models.py 160-166) never refuses it.
NothingEscapes ==
    \A s \in Sessions :
        LET d == tx[s].device
        IN  tx[s].at = "commit" =>
                /\ tx[s].op \in {"COMPLETE", "REVOKE", "ARCHIVE"} =>
                    DL!ActiveCreds(d) \subseteq tx[s].written
                /\ tx[s].op \in {"GENERATE", "REVOKE", "ARCHIVE"} =>
                    DL!OpenCodes(d) \subseteq tx[s].written
=============================================================================
