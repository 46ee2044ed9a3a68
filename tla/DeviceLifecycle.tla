-------------------------- MODULE DeviceLifecycle --------------------------
(***************************************************************************)
(* The life of a playback device as apps/devices/services.py and           *)
(* apps/devices/auth.py keep it in PostgreSQL: the Device row, its one-use *)
(* activation codes (DeviceActivation) and its refresh credentials         *)
(* (DeviceCredential).  A service is one transaction and one action, with  *)
(* three exceptions that check first and write later, where another        *)
(* transaction can come in between:                                        *)
(*   - completing an activation locks the code's row, checks the device    *)
(*     through an unlocked join and locks the device row only afterwards;  *)
(*   - rotating a credential locks the credential's row and checks the     *)
(*     device through an unlocked join;                                    *)
(*   - a player request is authenticated before its transaction starts.    *)
(* Module DeviceTransactions justifies this grain with the row locks.      *)
(*                                                                         *)
(* Lifetimes are abstracted to the moment they end: a code or a credential *)
(* may lapse at any step.  Names, hardware ids, IP addresses and time      *)
(* stamps that no guard reads are left out; so are the assignment history, *)
(* which follows Device.zone here, and the rows' company (there is one).   *)
(* An operator named Op_Fault is Op with one of the code's precautions     *)
(* left out; no action uses it.                                            *)
(***************************************************************************)
EXTENDS Naturals, FiniteSets

CONSTANTS
    Devices,      \* the devices the company may register
    Codes,        \* activation codes, in the order-free pool they are drawn from
    Creds,        \* refresh credentials
    Zones,        \* the company's zones
    Nobody,       \* "no row": not a device, code, credential or zone
    DeviceLimit,  \* effective_limits()["devices"] of the subscription
    MaxRevision   \* bound of the exploration on configuration_version

ASSUME NobodyAssumption == Nobody \notin Devices \cup Codes \cup Creds \cup Zones
ASSUME DisjointAssumption == Codes \cap Creds = {}
ASSUME BoundAssumption == DeviceLimit \in Nat /\ MaxRevision \in Nat \ {0}

VARIABLES
    admin,          \* Device.administrative_status, "ABSENT" before the row exists
    activation,     \* Device.activation_status
    status,         \* Device.status
    connectivity,   \* Device.connectivity_status
    online,         \* devices whose DeviceState.is_online is set
    zone,           \* Device.zone
    revision,       \* Device.configuration_version
    seen,           \* what the panel last read of the device
    codeDevice,     \* DeviceActivation.device, Nobody while not issued
    consumed,       \* codes with consumed_at set
    voided,         \* codes with revoked_at set
    credDevice,     \* DeviceCredential.device, Nobody while not issued
    credStatus,     \* DeviceCredential.status
    origin,         \* the code or (rotated_from) the credential it was exchanged for
    lapsed,         \* codes and credentials past their expires_at
    checked,        \* codes and credentials whose row a transaction has locked and checked
    authenticated,  \* devices with a player request past authentication
    archivedZones   \* zones with status ARCHIVED

deviceVars == <<admin, activation, status, connectivity, online, zone, revision>>
codeVars == <<codeDevice, consumed, voided>>
credVars == <<credDevice, credStatus, origin>>
vars == <<deviceVars, seen, codeVars, credVars, lapsed, checked, authenticated,
          archivedZones>>

AdminValues == {"ABSENT", "ACTIVE", "SUSPENDED", "ARCHIVED"}
ActivationValues == {"PENDING", "ACTIVATED", "REVOKED"}
StatusValues == {"PROVISIONING", "ONLINE", "OFFLINE", "DISABLED", "REVOKED"}
ConnectivityValues == {"UNKNOWN", "ONLINE", "OFFLINE"}

\* The part of a device that expected_revision is meant to pin.
Configuration(d) ==
    [admin |-> admin[d], activation |-> activation[d], zone |-> zone[d],
     revision |-> revision[d]]

DeviceTypeOK ==
    /\ admin \in [Devices -> AdminValues]
    /\ activation \in [Devices -> ActivationValues]
    /\ status \in [Devices -> StatusValues]
    /\ connectivity \in [Devices -> ConnectivityValues]
    /\ online \in SUBSET Devices
    /\ zone \in [Devices -> Zones \cup {Nobody}]
    /\ revision \in [Devices -> Nat]

RowTypeOK ==
    /\ codeDevice \in [Codes -> Devices \cup {Nobody}]
    /\ consumed \in SUBSET Codes
    /\ voided \in SUBSET Codes
    /\ credDevice \in [Creds -> Devices \cup {Nobody}]
    /\ credStatus \in [Creds -> {"ACTIVE", "REVOKED"}]
    /\ origin \in [Creds -> Codes \cup Creds \cup {Nobody}]

SessionTypeOK ==
    /\ seen \in [Devices -> [admin : AdminValues, activation : ActivationValues,
                             zone : Zones \cup {Nobody}, revision : Nat]]
    /\ lapsed \in SUBSET (Codes \cup Creds)
    /\ checked \in SUBSET (Codes \cup Creds)
    /\ authenticated \in SUBSET Devices
    /\ archivedZones \in SUBSET Zones

\* Every variable holds what its column may hold; a credential is never EXPIRED,
\* because the only write of that status is rolled back (services.py 353-356).
TypeOK == DeviceTypeOK /\ RowTypeOK /\ SessionTypeOK

Init ==
    /\ admin = [d \in Devices |-> "ABSENT"]
    /\ activation = [d \in Devices |-> "PENDING"]
    /\ status = [d \in Devices |-> "PROVISIONING"]
    /\ connectivity = [d \in Devices |-> "UNKNOWN"]
    /\ online = {}
    /\ zone = [d \in Devices |-> Nobody]
    /\ revision = [d \in Devices |-> 1]
    /\ seen = [d \in Devices |-> Configuration(d)]
    /\ codeDevice = [c \in Codes |-> Nobody]
    /\ consumed = {}
    /\ voided = {}
    /\ credDevice = [k \in Creds |-> Nobody]
    /\ credStatus = [k \in Creds |-> "REVOKED"]
    /\ origin = [k \in Creds |-> Nobody]
    /\ lapsed = {}
    /\ checked = {}
    /\ authenticated = {}
    /\ archivedZones = {}

----------------------------------------------------------------------------
(* Rows and guards *)

Exists(d) == admin[d] # "ABSENT"

\* The rows the partial unique index lets a device have one of.
OpenCodes(d) ==
    {c \in Codes : codeDevice[c] = d /\ c \notin consumed /\ c \notin voided}

ActiveCreds(d) == {k \in Creds : credDevice[k] = d /\ credStatus[k] = "ACTIVE"}

\* What _invalidate_activation_codes and _invalidate_device_credentials update.
CodesToVoid_None(d) == {}
CodesToVoid(d) == OpenCodes(d)
CredsToRevoke_None(d) == {}
CredsToRevoke(d) == ActiveCreds(d)

\* Every device that counts against the plan: all but the archived ones.
CountedDevices == {d \in Devices : admin[d] \notin {"ABSENT", "ARCHIVED"}}

\* The device may be given a code, spend one, or rotate its credential.
Serviceable_IgnoresRevocation(d) == admin[d] = "ACTIVE"
Serviceable(d) == admin[d] = "ACTIVE" /\ activation[d] # "REVOKED"

\* Invalidating updates the open codes and active credentials, and waits for
\* (or, after a deadlock, dies instead of) the transaction that locked one.
RowsFree_NoLock(d) == TRUE
RowsFree(d) == (OpenCodes(d) \cup ActiveCreds(d)) \cap checked = {}

\* expected_revision: the panel sends the revision it has on screen; the row,
\* read again under its lock, must still have it.
RevisionMatches(d) == seen[d].revision = revision[d] /\ revision[d] < MaxRevision

NextRevision_Forgotten(d) == revision
NextRevision(d) == [revision EXCEPT ![d] = @ + 1]

RevokedCreds(S) == [k \in Creds |-> IF k \in S THEN "REVOKED" ELSE credStatus[k]]

----------------------------------------------------------------------------
(* Operations of the panel *)

\* The panel loads the device.
PanelReads(d) ==
    /\ Exists(d)
    /\ seen' = [seen EXCEPT ![d] = Configuration(d)]
    /\ UNCHANGED <<deviceVars, codeVars, credVars, lapsed, checked, authenticated,
                   archivedZones>>

CreateDevice(d, z) ==
    /\ ~Exists(d)
    /\ Cardinality(CountedDevices) < DeviceLimit
    /\ z \notin archivedZones
    /\ admin' = [admin EXCEPT ![d] = "ACTIVE"]
    /\ zone' = [zone EXCEPT ![d] = z]
    /\ UNCHANGED <<activation, status, connectivity, online, revision, seen, codeVars,
                   credVars, lapsed, checked, authenticated, archivedZones>>

\* Name, type and free-form configuration are abstracted to the new revision.
UpdateDevice(d) ==
    /\ Exists(d)
    /\ RevisionMatches(d)
    /\ revision' = NextRevision(d)
    /\ UNCHANGED <<admin, activation, status, connectivity, online, zone, seen, codeVars,
                   credVars, lapsed, checked, authenticated, archivedZones>>

ChangeDeviceZone(d, z) ==
    /\ Exists(d)
    /\ RevisionMatches(d)
    /\ z \notin archivedZones
    /\ z # zone[d]
    /\ zone' = [zone EXCEPT ![d] = z]
    /\ revision' = NextRevision(d)
    /\ UNCHANGED <<admin, activation, status, connectivity, online, seen, codeVars,
                   credVars, lapsed, checked, authenticated, archivedZones>>

\* Of an archived device too: it then counts for the plan again, which is not asked.
SuspendDevice(d) ==
    /\ Exists(d)
    /\ RevisionMatches(d)
    /\ admin' = [admin EXCEPT ![d] = "SUSPENDED"]
    /\ status' = [status EXCEPT ![d] = "DISABLED"]
    /\ revision' = NextRevision(d)
    /\ UNCHANGED <<activation, connectivity, online, zone, seen, codeVars, credVars,
                   lapsed, checked, authenticated, archivedZones>>

ArchiveDevice(d) ==
    /\ Exists(d)
    /\ RevisionMatches(d)
    /\ RowsFree(d)
    /\ admin' = [admin EXCEPT ![d] = "ARCHIVED"]
    /\ status' = [status EXCEPT ![d] = "DISABLED"]
    /\ revision' = NextRevision(d)
    /\ voided' = voided \cup CodesToVoid(d)
    /\ credStatus' = RevokedCreds(CredsToRevoke(d))
    /\ UNCHANGED <<activation, connectivity, online, zone, seen, codeDevice, consumed,
                   credDevice, origin, lapsed, checked, authenticated, archivedZones>>

\* The device limit is meant to be enforced when an archived device comes back,
\* but the new status is assigned before the old one is compared with ARCHIVED,
\* so _enforce_device_limit is never reached.
ReactivateDevice(d) ==
    /\ Exists(d)
    /\ RevisionMatches(d)
    /\ admin' = [admin EXCEPT ![d] = "ACTIVE"]
    /\ status' = [status EXCEPT ![d] =
                    IF activation[d] = "ACTIVATED" THEN "OFFLINE" ELSE "PROVISIONING"]
    /\ revision' = NextRevision(d)
    /\ UNCHANGED <<activation, connectivity, online, zone, seen, codeVars, credVars,
                   lapsed, checked, authenticated, archivedZones>>

RevokeDevice(d) ==
    /\ Exists(d)
    /\ RevisionMatches(d)
    /\ RowsFree(d)
    /\ activation' = [activation EXCEPT ![d] = "REVOKED"]
    /\ status' = [status EXCEPT ![d] = "REVOKED"]
    /\ connectivity' = [connectivity EXCEPT ![d] = "OFFLINE"]
    /\ online' = online \ {d}
    /\ revision' = NextRevision(d)
    /\ voided' = voided \cup CodesToVoid(d)
    /\ credStatus' = RevokedCreds(CredsToRevoke(d))
    /\ UNCHANGED <<admin, zone, seen, codeDevice, consumed, credDevice, origin, lapsed,
                   checked, authenticated, archivedZones>>

GenerateActivationCode(d, c) ==
    /\ Serviceable(d)
    /\ codeDevice[c] = Nobody
    /\ OpenCodes(d) \cap checked = {}
    /\ voided' = voided \cup CodesToVoid(d)
    /\ codeDevice' = [codeDevice EXCEPT ![c] = d]
    /\ UNCHANGED <<deviceVars, seen, consumed, credVars, lapsed, checked, authenticated,
                   archivedZones>>

----------------------------------------------------------------------------
(* Operations of the player *)

\* _get_active_activation_or_raise(consume=True): the code's row is locked, the
\* device, its zone and site are read through the join.
CheckActivationCode(c) ==
    /\ \E d \in Devices :
        /\ c \in OpenCodes(d)
        /\ Serviceable(d)
        /\ zone[d] \notin archivedZones
    /\ c \notin lapsed \cup checked
    /\ checked' = checked \cup {c}
    /\ UNCHANGED <<deviceVars, seen, codeVars, credVars, lapsed, authenticated,
                   archivedZones>>

Consumed_Forgotten(c) == consumed
Consumed(c) == consumed \cup {c}

\* The rest of complete_device_activation: the device is locked and written
\* without being looked at again.
CompleteDeviceActivation(d, c, k) ==
    /\ c \in checked
    /\ codeDevice[c] = d
    /\ credDevice[k] = Nobody
    /\ ActiveCreds(d) \cap checked = {}
    /\ revision[d] < MaxRevision
    /\ consumed' = Consumed(c)
    /\ checked' = checked \ {c}
    /\ credStatus' = [RevokedCreds(CredsToRevoke(d)) EXCEPT ![k] = "ACTIVE"]
    /\ credDevice' = [credDevice EXCEPT ![k] = d]
    /\ origin' = [origin EXCEPT ![k] = c]
    /\ activation' = [activation EXCEPT ![d] = "ACTIVATED"]
    /\ connectivity' = [connectivity EXCEPT ![d] = "OFFLINE"]
    /\ status' = [status EXCEPT ![d] = "OFFLINE"]
    /\ revision' = NextRevision(d)
    /\ UNCHANGED <<admin, online, zone, seen, codeDevice, voided, lapsed, authenticated,
                   archivedZones>>

\* rotate_device_credential up to its last refusal.  The EXPIRED and REVOKED it
\* writes on the refused paths are rolled back by the exception that follows.
CheckCredential(k) ==
    /\ \E d \in Devices : k \in ActiveCreds(d) /\ Serviceable(d)
    /\ k \notin lapsed \cup checked
    /\ checked' = checked \cup {k}
    /\ UNCHANGED <<deviceVars, seen, codeVars, credVars, lapsed, authenticated,
                   archivedZones>>

Retired_KeepsOld(k) == credStatus
Retired_Expired(k) == [credStatus EXCEPT ![k] = "EXPIRED"]
Retired(k) == [credStatus EXCEPT ![k] = "REVOKED"]

RotateDeviceCredential(k, new) ==
    /\ k \in checked
    /\ credDevice[new] = Nobody
    /\ checked' = checked \ {k}
    /\ credStatus' = [Retired(k) EXCEPT ![new] = "ACTIVE"]
    /\ credDevice' = [credDevice EXCEPT ![new] = credDevice[k]]
    /\ origin' = [origin EXCEPT ![new] = k]
    /\ UNCHANGED <<deviceVars, seen, codeVars, lapsed, authenticated, archivedZones>>

\* A transaction that has checked a row ends without effect: a deadlock victim,
\* a lost connection or a crashed worker.
RollBack(row) ==
    /\ row \in checked
    /\ checked' = checked \ {row}
    /\ UNCHANGED <<deviceVars, seen, codeVars, credVars, lapsed, authenticated,
                   archivedZones>>

RevokeDeviceCredentialFromCookie(k) ==
    /\ credDevice[k] # Nobody
    /\ credStatus[k] = "ACTIVE"
    /\ k \notin checked
    /\ credStatus' = [credStatus EXCEPT ![k] = "REVOKED"]
    /\ UNCHANGED <<deviceVars, seen, codeVars, credDevice, origin, lapsed, checked,
                   authenticated, archivedZones>>

\* authenticate_device_access_token: what any player request must pass.
AuthenticateDevice(k) ==
    \E d \in Devices :
        /\ k \in ActiveCreds(d)
        /\ k \notin lapsed
        /\ activation[d] = "ACTIVATED"
        /\ admin[d] = "ACTIVE"
        /\ authenticated' = authenticated \cup {d}
        /\ UNCHANGED <<deviceVars, seen, codeVars, credVars, lapsed, checked, archivedZones>>

\* record_device_telemetry for a request past authentication, as far as the
\* Device row goes: a beat, a closing OFFLINE event, or neither.  The device is
\* locked, its status is not compared with anything.
RecordTelemetry(d, report) ==
    /\ d \in authenticated
    /\ authenticated' = authenticated \ {d}
    /\ \/ /\ report = "ONLINE"
          /\ online' = online \cup {d}
          /\ connectivity' = [connectivity EXCEPT ![d] = report]
          /\ status' = [status EXCEPT ![d] = report]
       \/ /\ report = "OFFLINE"
          /\ online' = online \ {d}
          /\ connectivity' = [connectivity EXCEPT ![d] = report]
          /\ status' = [status EXCEPT ![d] = report]
       \/ /\ report = "NEITHER"
          /\ UNCHANGED <<online, connectivity, status>>
    /\ UNCHANGED <<admin, activation, zone, revision, seen, codeVars, credVars, lapsed,
                   checked, archivedZones>>

----------------------------------------------------------------------------
(* The environment: time passes, zones are archived and reopened.  The plan's
   zone limit may refuse a reopening; sites stay open. *)

Lapse(row) ==
    /\ \/ row \in Codes /\ codeDevice[row] # Nobody
       \/ row \in Creds /\ credDevice[row] # Nobody
    /\ row \notin lapsed
    /\ lapsed' = lapsed \cup {row}
    /\ UNCHANGED <<deviceVars, seen, codeVars, credVars, checked, authenticated,
                   archivedZones>>

ArchiveZone(z) ==
    /\ archivedZones' = archivedZones \cup {z}
    /\ UNCHANGED <<deviceVars, seen, codeVars, credVars, lapsed, checked, authenticated>>

ReactivateZone(z) ==
    /\ archivedZones' = archivedZones \ {z}
    /\ UNCHANGED <<deviceVars, seen, codeVars, credVars, lapsed, checked, authenticated>>

----------------------------------------------------------------------------

Next ==
    \/ \E d \in Devices :
        \/ PanelReads(d)
        \/ \E z \in Zones : CreateDevice(d, z) \/ ChangeDeviceZone(d, z)
        \/ UpdateDevice(d)
        \/ SuspendDevice(d)
        \/ ArchiveDevice(d)
        \/ ReactivateDevice(d)
        \/ RevokeDevice(d)
        \/ \E c \in Codes : GenerateActivationCode(d, c)
        \/ \E c \in Codes, k \in Creds : CompleteDeviceActivation(d, c, k)
        \/ \E report \in {"ONLINE", "OFFLINE", "NEITHER"} : RecordTelemetry(d, report)
    \/ \E c \in Codes : CheckActivationCode(c)
    \/ \E k \in Creds :
        \/ CheckCredential(k)
        \/ \E new \in Creds : RotateDeviceCredential(k, new)
        \/ RevokeDeviceCredentialFromCookie(k)
        \/ AuthenticateDevice(k)
    \/ \E row \in Codes \cup Creds : RollBack(row) \/ Lapse(row)
    \/ \E z \in Zones : ArchiveZone(z) \/ ReactivateZone(z)

Spec == Init /\ [][Next]_vars

----------------------------------------------------------------------------
(* Properties *)

\* A device never has two credentials its player could refresh with, whatever
\* activations, rotations and logouts overlap (services.py 323, 363-367).
SingleActiveCredential ==
    \A j, k \in Creds :
        /\ credDevice[j] # Nobody /\ credDevice[j] = credDevice[k]
        /\ credStatus[j] = "ACTIVE" /\ credStatus[k] = "ACTIVE"
        => j = k

\* A device never has two codes that could still be consumed: generating one
\* withdraws its predecessors (services.py 260).
SingleOpenCode ==
    \A d \in Devices : \A b, c \in OpenCodes(d) : b = c

\* Once revoking or archiving a device has committed, no credential of it can be
\* refreshed and no code of it consumed, even by a transaction that had checked
\* the device before (services.py 220-221, 239-240).
CutOff ==
    \A d \in Devices :
        activation[d] = "REVOKED" \/ admin[d] = "ARCHIVED" =>
            OpenCodes(d) = {} /\ ActiveCreds(d) = {}

\* A code buys one credential and a credential is rotated into one other: a
\* retried or doubled request never forks the chain (services.py 294-296, 363).
ExchangedOnce ==
    \A j, k \in Creds :
        credDevice[j] # Nobody /\ credDevice[k] # Nobody /\ origin[j] = origin[k] => j = k

\* Whoever holds an active credential paid with a consumed code or a retired
\* credential of the same device, and the device is activated.
CredentialIsEarned ==
    \A k \in Creds :
        credDevice[k] # Nobody =>
            /\ origin[k] \in Codes =>
                origin[k] \in consumed /\ codeDevice[origin[k]] = credDevice[k]
            /\ origin[k] \in Creds =>
                /\ credStatus[origin[k]] = "REVOKED"
                /\ credDevice[origin[k]] = credDevice[k]
            /\ credStatus[k] = "ACTIVE" => activation[credDevice[k]] = "ACTIVATED"

\* configuration_version identifies what it guards: a panel that still has the
\* current revision on screen also has the current administrative status,
\* activation and zone, so no guarded change overwrites one it has not seen.
RevisionPinsConfiguration ==
    \A d \in Devices :
        Exists(d) /\ seen[d].admin # "ABSENT" /\ seen[d].revision = revision[d] =>
            seen[d] = Configuration(d)

\* Revocation is final: no later step, and no activation that was under way,
\* brings the device back (services.py 241, 256, 285).
RevocationIsFinal ==
    [][\A d \in Devices : activation[d] = "REVOKED" => activation'[d] = "REVOKED"]_vars

\* CLAIM (FASE4 contract lines 313, 920; services.py 223-224): an archived device is
\* put back into service only while the plan has room for one more.
ReactivatedWithinLimit ==
    [][\A d \in Devices : admin[d] = "ARCHIVED" /\ admin'[d] = "ACTIVE" =>
            Cardinality(CountedDevices) < DeviceLimit]_vars

\* CLAIM (FASE4 contract lines 181-182): a suspended device is DISABLED and a
\* revoked one REVOKED: only a device in service is shown ONLINE or OFFLINE.
OperatingStatusMeansInService ==
    \A d \in Devices :
        status[d] \in {"ONLINE", "OFFLINE"} => Exists(d) /\ Serviceable(d)
=============================================================================
