----------------------- MODULE DeviceLifecycleProofs -----------------------
(***************************************************************************)
(* For any number of devices, codes, credentials and zones, every state of *)
(* DeviceLifecycle satisfies its safety invariants.  None of them is       *)
(* inductive alone: CutOff needs to know that a row checked by an open     *)
(* transaction is still live, ExchangedOnce that what was exchanged is     *)
(* consumed or retired, and RevisionPinsConfiguration that no panel is     *)
(* ahead of the row.  IInv is their conjunction with those facts.          *)
(***************************************************************************)
EXTENDS DeviceLifecycle, TLAPS

\* A row that a transaction holds checked has not been spent by another one.
CheckedRowsLive ==
    /\ \A c \in Codes : c \in checked =>
            codeDevice[c] # Nobody /\ c \notin consumed /\ c \notin voided
    /\ \A k \in Creds : k \in checked =>
            credDevice[k] # Nobody /\ credStatus[k] = "ACTIVE"

\* The panel is never ahead of the row, and has not read a row that is absent.
SeenNotAhead ==
    \A d \in Devices :
        /\ seen[d].revision <= revision[d]
        /\ ~Exists(d) => seen[d].admin = "ABSENT"

IInv ==
    /\ TypeOK
    /\ SingleActiveCredential
    /\ SingleOpenCode
    /\ CutOff
    /\ ExchangedOnce
    /\ CredentialIsEarned
    /\ RevisionPinsConfiguration
    /\ CheckedRowsLive
    /\ SeenNotAhead

----------------------------------------------------------------------------

\* The initial state: no row exists, so nothing is open, active or read.
LEMMA InitInvariant == Init => IInv
<1> SUFFICES ASSUME Init PROVE IInv
  OBVIOUS
<1>1. TypeOK
  <2>1. DeviceTypeOK
    BY DEF Init, DeviceTypeOK, AdminValues, ActivationValues, StatusValues,
       ConnectivityValues
  <2>2. RowTypeOK
    BY DEF Init, RowTypeOK
  <2>3. SessionTypeOK
    BY DEF Init, SessionTypeOK, Configuration, AdminValues, ActivationValues
  <2>4. QED
    BY <2>1, <2>2, <2>3 DEF TypeOK
<1>2. SingleActiveCredential /\ SingleOpenCode /\ CutOff /\ ExchangedOnce
  BY NobodyAssumption DEF Init, SingleActiveCredential, SingleOpenCode, CutOff,
     ExchangedOnce, OpenCodes, ActiveCreds
<1>3. CredentialIsEarned /\ RevisionPinsConfiguration /\ CheckedRowsLive /\ SeenNotAhead
  BY DEF Init, CredentialIsEarned, RevisionPinsConfiguration, CheckedRowsLive,
     SeenNotAhead, Exists, Configuration
<1>4. QED
  BY <1>1, <1>2, <1>3 DEF IInv

----------------------------------------------------------------------------
(* Type correctness *)

\* The Device columns keep their types.
LEMMA DeviceTypeStep == TypeOK /\ [Next]_vars => DeviceTypeOK'
<1> SUFFICES ASSUME DeviceTypeOK, [Next]_vars PROVE DeviceTypeOK'
  BY DEF TypeOK
<1> USE DEF DeviceTypeOK, AdminValues, ActivationValues, StatusValues, ConnectivityValues
<1>1. CASE UNCHANGED deviceVars
  BY <1>1 DEF deviceVars
<1>2. ASSUME NEW d \in Devices, NEW z \in Zones, CreateDevice(d, z)
      PROVE  DeviceTypeOK'
  BY <1>2 DEF CreateDevice
<1>3. ASSUME NEW d \in Devices, NEW z \in Zones, ChangeDeviceZone(d, z)
      PROVE  DeviceTypeOK'
  BY <1>3 DEF ChangeDeviceZone, NextRevision
<1>4. ASSUME NEW d \in Devices, UpdateDevice(d) PROVE DeviceTypeOK'
  BY <1>4 DEF UpdateDevice, NextRevision
<1>5. ASSUME NEW d \in Devices, SuspendDevice(d) PROVE DeviceTypeOK'
  BY <1>5 DEF SuspendDevice, NextRevision
<1>6. ASSUME NEW d \in Devices, ArchiveDevice(d) PROVE DeviceTypeOK'
  BY <1>6 DEF ArchiveDevice, NextRevision
<1>7. ASSUME NEW d \in Devices, ReactivateDevice(d) PROVE DeviceTypeOK'
  BY <1>7 DEF ReactivateDevice, NextRevision
<1>8. ASSUME NEW d \in Devices, RevokeDevice(d) PROVE DeviceTypeOK'
  BY <1>8 DEF RevokeDevice, NextRevision
<1>9. ASSUME NEW d \in Devices, NEW report, RecordTelemetry(d, report)
      PROVE  DeviceTypeOK'
  BY <1>9 DEF RecordTelemetry
<1>10. ASSUME NEW d \in Devices, NEW c \in Codes, NEW k \in Creds,
              CompleteDeviceActivation(d, c, k)
       PROVE  DeviceTypeOK'
  BY <1>10 DEF CompleteDeviceActivation, NextRevision
<1>11. QED
  BY <1>1, <1>2, <1>3, <1>4, <1>5, <1>6, <1>7, <1>8, <1>9, <1>10
  DEF Next, vars, PanelReads, GenerateActivationCode, CheckActivationCode, CheckCredential,
      RotateDeviceCredential, RevokeDeviceCredentialFromCookie, AuthenticateDevice,
      RollBack, Lapse, ArchiveZone, ReactivateZone

\* The columns of codes and credentials keep their types.
LEMMA RowTypeStep == TypeOK /\ [Next]_vars => RowTypeOK'
<1> SUFFICES ASSUME RowTypeOK, [Next]_vars PROVE RowTypeOK'
  BY DEF TypeOK
<1> USE DEF RowTypeOK
<1>1. CASE UNCHANGED <<codeVars, credVars>>
  BY <1>1 DEF codeVars, credVars
<1>2. ASSUME NEW d \in Devices, ArchiveDevice(d) PROVE RowTypeOK'
  BY <1>2 DEF ArchiveDevice, CodesToVoid, OpenCodes, RevokedCreds
<1>3. ASSUME NEW d \in Devices, RevokeDevice(d) PROVE RowTypeOK'
  BY <1>3 DEF RevokeDevice, CodesToVoid, OpenCodes, RevokedCreds
<1>4. ASSUME NEW d \in Devices, NEW c \in Codes, GenerateActivationCode(d, c)
      PROVE  RowTypeOK'
  BY <1>4 DEF GenerateActivationCode, CodesToVoid, OpenCodes, credVars
<1>5. ASSUME NEW d \in Devices, NEW c \in Codes, NEW k \in Creds,
             CompleteDeviceActivation(d, c, k)
      PROVE  RowTypeOK'
  BY <1>5 DEF CompleteDeviceActivation, RevokedCreds, Consumed
<1>6. ASSUME NEW k \in Creds, NEW new \in Creds, RotateDeviceCredential(k, new)
      PROVE  RowTypeOK'
  BY <1>6 DEF RotateDeviceCredential, Retired, codeVars
<1>7. ASSUME NEW k \in Creds, RevokeDeviceCredentialFromCookie(k) PROVE RowTypeOK'
  BY <1>7 DEF RevokeDeviceCredentialFromCookie, codeVars
<1>8. QED
  BY <1>1, <1>2, <1>3, <1>4, <1>5, <1>6, <1>7
  DEF Next, vars, PanelReads, CreateDevice, UpdateDevice, ChangeDeviceZone, SuspendDevice,
      ReactivateDevice, RecordTelemetry, CheckActivationCode, CheckCredential,
      AuthenticateDevice, RollBack, Lapse, ArchiveZone, ReactivateZone

\* What panels have read, what is locked and what has lapsed keep their types.
LEMMA SessionTypeStep == TypeOK /\ [Next]_vars => SessionTypeOK'
<1> SUFFICES ASSUME DeviceTypeOK, SessionTypeOK, [Next]_vars PROVE SessionTypeOK'
  BY DEF TypeOK
<1> USE DEF SessionTypeOK
<1>1. CASE UNCHANGED <<seen, lapsed, checked, authenticated, archivedZones>>
  BY <1>1
<1>2. ASSUME NEW d \in Devices, PanelReads(d) PROVE SessionTypeOK'
  BY <1>2 DEF PanelReads, Configuration, DeviceTypeOK
<1>3. ASSUME NEW d \in Devices, NEW report, RecordTelemetry(d, report)
      PROVE  SessionTypeOK'
  BY <1>3 DEF RecordTelemetry
<1>4. ASSUME NEW d \in Devices, NEW c \in Codes, NEW k \in Creds,
             CompleteDeviceActivation(d, c, k)
      PROVE  SessionTypeOK'
  BY <1>4 DEF CompleteDeviceActivation
<1>5. ASSUME NEW c \in Codes, CheckActivationCode(c) PROVE SessionTypeOK'
  BY <1>5 DEF CheckActivationCode
<1>6. ASSUME NEW k \in Creds, NEW new \in Creds,
             CheckCredential(k) \/ RotateDeviceCredential(k, new) \/ AuthenticateDevice(k)
      PROVE  SessionTypeOK'
  BY <1>6 DEF CheckCredential, RotateDeviceCredential, AuthenticateDevice
<1>7. ASSUME NEW row \in Codes \cup Creds, RollBack(row) \/ Lapse(row)
      PROVE  SessionTypeOK'
  BY <1>7 DEF RollBack, Lapse
<1>8. ASSUME NEW z \in Zones, ArchiveZone(z) \/ ReactivateZone(z) PROVE SessionTypeOK'
  BY <1>8 DEF ArchiveZone, ReactivateZone
<1>9. QED
  BY <1>1, <1>2, <1>3, <1>4, <1>5, <1>6, <1>7, <1>8
  DEF Next, vars, CreateDevice, UpdateDevice, ChangeDeviceZone, SuspendDevice,
      ArchiveDevice, ReactivateDevice, RevokeDevice, GenerateActivationCode,
      RevokeDeviceCredentialFromCookie

\* Together: every variable keeps its type.
LEMMA TypeStep == TypeOK /\ [Next]_vars => TypeOK'
BY DeviceTypeStep, RowTypeStep, SessionTypeStep DEF TypeOK

----------------------------------------------------------------------------
(* Codes *)

\* Who writes the codes' columns: everybody else leaves them alone.
LEMMA CodeWriters ==
    [Next]_vars =>
        \/ UNCHANGED codeVars
        \/ \E d \in Devices : ArchiveDevice(d) \/ RevokeDevice(d)
        \/ \E d \in Devices, c \in Codes : GenerateActivationCode(d, c)
        \/ \E d \in Devices, c \in Codes, k \in Creds : CompleteDeviceActivation(d, c, k)
BY DEF Next, vars, PanelReads, CreateDevice, UpdateDevice, ChangeDeviceZone, SuspendDevice,
       ReactivateDevice, RecordTelemetry, CheckActivationCode, CheckCredential,
       RotateDeviceCredential, RevokeDeviceCredentialFromCookie, AuthenticateDevice,
       RollBack, Lapse, ArchiveZone, ReactivateZone

\* Who writes the credentials' columns.
LEMMA CredWriters ==
    [Next]_vars =>
        \/ UNCHANGED credVars
        \/ \E d \in Devices : ArchiveDevice(d) \/ RevokeDevice(d)
        \/ \E d \in Devices, c \in Codes, k \in Creds : CompleteDeviceActivation(d, c, k)
        \/ \E k, new \in Creds : RotateDeviceCredential(k, new)
        \/ \E k \in Creds : RevokeDeviceCredentialFromCookie(k)
BY DEF Next, vars, PanelReads, CreateDevice, UpdateDevice, ChangeDeviceZone, SuspendDevice,
       ReactivateDevice, RecordTelemetry, CheckActivationCode, CheckCredential,
       GenerateActivationCode, AuthenticateDevice, RollBack, Lapse, ArchiveZone,
       ReactivateZone

\* Codes only close, except that generating one opens it after closing the others.
LEMMA SingleOpenCodeStep == IInv /\ [Next]_vars => SingleOpenCode'
<1> SUFFICES ASSUME IInv, [Next]_vars PROVE SingleOpenCode'
  OBVIOUS
<1> USE DEF IInv, SingleOpenCode, OpenCodes
<1>1. CASE UNCHANGED codeVars
  BY <1>1 DEF codeVars
<1>2. ASSUME NEW d \in Devices, ArchiveDevice(d) \/ RevokeDevice(d)
      PROVE  SingleOpenCode'
  BY <1>2 DEF ArchiveDevice, RevokeDevice, CodesToVoid
<1>3. ASSUME NEW d \in Devices, NEW c \in Codes, GenerateActivationCode(d, c)
      PROVE  SingleOpenCode'
  BY <1>3 DEF GenerateActivationCode, CodesToVoid, TypeOK, RowTypeOK
<1>4. ASSUME NEW d \in Devices, NEW c \in Codes, NEW k \in Creds,
             CompleteDeviceActivation(d, c, k)
      PROVE  SingleOpenCode'
  BY <1>4 DEF CompleteDeviceActivation, Consumed
<1>5. QED
  BY <1>1, <1>2, <1>3, <1>4, CodeWriters

\* Nobody spends a row that another transaction has checked: the row lock.
LEMMA CheckedRowsLiveStep == IInv /\ [Next]_vars => CheckedRowsLive'
<1> SUFFICES ASSUME IInv, [Next]_vars PROVE CheckedRowsLive'
  OBVIOUS
<1> USE DEF IInv, CheckedRowsLive, TypeOK, RowTypeOK
<1>1. CASE UNCHANGED <<codeVars, credVars>> /\ checked' \subseteq checked
  BY <1>1 DEF codeVars, credVars
<1>2. ASSUME NEW d \in Devices, ArchiveDevice(d) \/ RevokeDevice(d)
      PROVE  CheckedRowsLive'
  BY <1>2 DEF ArchiveDevice, RevokeDevice, RowsFree, CodesToVoid, CredsToRevoke, OpenCodes,
              ActiveCreds, RevokedCreds
<1>3. ASSUME NEW d \in Devices, NEW c \in Codes, GenerateActivationCode(d, c)
      PROVE  CheckedRowsLive'
  BY <1>3, NobodyAssumption DEF GenerateActivationCode, CodesToVoid, OpenCodes, credVars
<1>4. ASSUME NEW d \in Devices, NEW c \in Codes, NEW k \in Creds,
             CompleteDeviceActivation(d, c, k)
      PROVE  CheckedRowsLive'
  BY <1>4, NobodyAssumption, DisjointAssumption
  DEF CompleteDeviceActivation, Consumed, CredsToRevoke, ActiveCreds, RevokedCreds
<1>5. ASSUME NEW c \in Codes, CheckActivationCode(c) PROVE CheckedRowsLive'
  BY <1>5, NobodyAssumption, DisjointAssumption
  DEF CheckActivationCode, OpenCodes, codeVars, credVars
<1>6. ASSUME NEW k \in Creds, CheckCredential(k) PROVE CheckedRowsLive'
  BY <1>6, NobodyAssumption, DisjointAssumption
  DEF CheckCredential, ActiveCreds, codeVars, credVars
<1>7. ASSUME NEW k \in Creds, NEW new \in Creds, RotateDeviceCredential(k, new)
      PROVE  CheckedRowsLive'
  BY <1>7, NobodyAssumption, DisjointAssumption DEF RotateDeviceCredential, Retired, codeVars
<1>8. ASSUME NEW k \in Creds, RevokeDeviceCredentialFromCookie(k)
      PROVE  CheckedRowsLive'
  BY <1>8, DisjointAssumption DEF RevokeDeviceCredentialFromCookie, codeVars
<1>9. QED
  BY <1>1, <1>2, <1>3, <1>4, <1>5, <1>6, <1>7, <1>8
  DEF Next, vars, PanelReads, CreateDevice, UpdateDevice, ChangeDeviceZone, SuspendDevice,
      ReactivateDevice, RecordTelemetry, AuthenticateDevice, RollBack, Lapse, ArchiveZone,
      ReactivateZone

----------------------------------------------------------------------------
(* Credentials *)

\* A completion revokes the others before it adds one; a rotation swaps one.
LEMMA SingleActiveCredentialStep == IInv /\ [Next]_vars => SingleActiveCredential'
<1> SUFFICES ASSUME IInv, [Next]_vars PROVE SingleActiveCredential'
  OBVIOUS
<1> USE DEF IInv, SingleActiveCredential, TypeOK, RowTypeOK
<1>1. CASE UNCHANGED credVars
  BY <1>1 DEF credVars
<1>2. ASSUME NEW d \in Devices, ArchiveDevice(d) \/ RevokeDevice(d)
      PROVE  SingleActiveCredential'
  BY <1>2 DEF ArchiveDevice, RevokeDevice, RevokedCreds
<1>3. ASSUME NEW d \in Devices, NEW c \in Codes, NEW k \in Creds,
             CompleteDeviceActivation(d, c, k)
      PROVE  SingleActiveCredential'
  BY <1>3 DEF CompleteDeviceActivation, RevokedCreds, CredsToRevoke, ActiveCreds
<1>4. ASSUME NEW k \in Creds, NEW new \in Creds, RotateDeviceCredential(k, new)
      PROVE  SingleActiveCredential'
  BY <1>4 DEF RotateDeviceCredential, Retired, CheckedRowsLive
<1>5. ASSUME NEW k \in Creds, RevokeDeviceCredentialFromCookie(k)
      PROVE  SingleActiveCredential'
  BY <1>5 DEF RevokeDeviceCredentialFromCookie
<1>6. QED
  BY <1>1, <1>2, <1>3, <1>4, <1>5, CredWriters

\* What is exchanged is spent, so it is not there to be exchanged again.
LEMMA ExchangedOnceStep == IInv /\ [Next]_vars => ExchangedOnce'
<1> SUFFICES ASSUME IInv, [Next]_vars PROVE ExchangedOnce'
  OBVIOUS
<1> USE DEF IInv, ExchangedOnce, TypeOK, RowTypeOK
<1>1. CASE UNCHANGED credVars
  BY <1>1 DEF credVars
<1>2. ASSUME NEW d \in Devices, ArchiveDevice(d) \/ RevokeDevice(d)
      PROVE  ExchangedOnce'
  BY <1>2 DEF ArchiveDevice, RevokeDevice
<1>3. ASSUME NEW d \in Devices, NEW c \in Codes, NEW k \in Creds,
             CompleteDeviceActivation(d, c, k)
      PROVE  ExchangedOnce'
  BY <1>3 DEF CompleteDeviceActivation, CheckedRowsLive, CredentialIsEarned
<1>4. ASSUME NEW k \in Creds, NEW new \in Creds, RotateDeviceCredential(k, new)
      PROVE  ExchangedOnce'
  BY <1>4 DEF RotateDeviceCredential, CheckedRowsLive, CredentialIsEarned
<1>5. ASSUME NEW k \in Creds, RevokeDeviceCredentialFromCookie(k)
      PROVE  ExchangedOnce'
  BY <1>5 DEF RevokeDeviceCredentialFromCookie
<1>6. QED
  BY <1>1, <1>2, <1>3, <1>4, <1>5, CredWriters

\* A new credential is for the device of what it was exchanged for, whose row the
\* transaction had locked; an active one keeps its device activated.
LEMMA CredentialIsEarnedStep == IInv /\ [Next]_vars => CredentialIsEarned'
<1> SUFFICES ASSUME IInv, [Next]_vars PROVE CredentialIsEarned'
  OBVIOUS
<1> USE DEF IInv, CredentialIsEarned, TypeOK, RowTypeOK, DeviceTypeOK
<1>1. CASE UNCHANGED <<credVars, codeVars, activation>>
  BY <1>1 DEF credVars, codeVars
<1>2. ASSUME NEW d \in Devices, ArchiveDevice(d) PROVE CredentialIsEarned'
  BY <1>2 DEF ArchiveDevice, RevokedCreds
<1>3. ASSUME NEW d \in Devices, RevokeDevice(d) PROVE CredentialIsEarned'
  BY <1>3 DEF RevokeDevice, RevokedCreds, CredsToRevoke, ActiveCreds
<1>4. ASSUME NEW d \in Devices, NEW c \in Codes, GenerateActivationCode(d, c)
      PROVE  CredentialIsEarned'
  BY <1>4, NobodyAssumption DEF GenerateActivationCode, credVars, deviceVars
<1>5. ASSUME NEW d \in Devices, NEW c \in Codes, NEW k \in Creds,
             CompleteDeviceActivation(d, c, k)
      PROVE  CredentialIsEarned'
  BY <1>5, NobodyAssumption, DisjointAssumption
  DEF CompleteDeviceActivation, Consumed, RevokedCreds
<1>6. ASSUME NEW k \in Creds, NEW new \in Creds, RotateDeviceCredential(k, new)
      PROVE  CredentialIsEarned'
  BY <1>6, NobodyAssumption, DisjointAssumption
  DEF RotateDeviceCredential, Retired, CheckedRowsLive, deviceVars, codeVars
<1>7. ASSUME NEW k \in Creds, RevokeDeviceCredentialFromCookie(k)
      PROVE  CredentialIsEarned'
  BY <1>7 DEF RevokeDeviceCredentialFromCookie, deviceVars, codeVars
<1>8. QED
  BY <1>1, <1>2, <1>3, <1>4, <1>5, <1>6, <1>7
  DEF Next, vars, deviceVars, PanelReads, CreateDevice, UpdateDevice, ChangeDeviceZone,
      SuspendDevice, ReactivateDevice, RecordTelemetry, CheckActivationCode,
      CheckCredential, AuthenticateDevice, RollBack, Lapse, ArchiveZone, ReactivateZone

\* A transaction that checked a row of the device has made revoking and archiving
\* wait, so what it opens or activates belongs to a device that is neither.
LEMMA CutOffStep == IInv /\ [Next]_vars => CutOff'
<1> SUFFICES ASSUME IInv, [Next]_vars PROVE CutOff'
  OBVIOUS
<1> USE DEF IInv, CutOff, TypeOK, RowTypeOK, DeviceTypeOK
<1>1. CASE UNCHANGED <<credVars, codeVars, activation, admin>>
  BY <1>1 DEF credVars, codeVars, OpenCodes, ActiveCreds
<1>2. ASSUME NEW d \in Devices,
             \/ \E z \in Zones : CreateDevice(d, z)
             \/ SuspendDevice(d)
             \/ ReactivateDevice(d)
      PROVE  CutOff'
  BY <1>2 DEF CreateDevice, SuspendDevice, ReactivateDevice, codeVars, credVars, OpenCodes,
              ActiveCreds
<1>3. ASSUME NEW d \in Devices, ArchiveDevice(d) \/ RevokeDevice(d) PROVE CutOff'
  <2>1. OpenCodes(d)' = {} /\ ActiveCreds(d)' = {}
    BY <1>3 DEF ArchiveDevice, RevokeDevice, OpenCodes, ActiveCreds, CodesToVoid,
                CredsToRevoke, RevokedCreds
  <2>2. ASSUME NEW e \in Devices, e # d
        PROVE  /\ activation'[e] = activation[e] /\ admin'[e] = admin[e]
               /\ OpenCodes(e)' \subseteq OpenCodes(e)
               /\ ActiveCreds(e)' \subseteq ActiveCreds(e)
    BY <1>3, <2>2 DEF ArchiveDevice, RevokeDevice, OpenCodes, ActiveCreds, RevokedCreds
  <2>3. QED
    BY <2>1, <2>2
<1>4. ASSUME NEW d \in Devices, NEW c \in Codes, GenerateActivationCode(d, c)
      PROVE  CutOff'
  BY <1>4 DEF GenerateActivationCode, Serviceable, OpenCodes, ActiveCreds, credVars,
              deviceVars
<1>5. ASSUME NEW d \in Devices, NEW c \in Codes, NEW k \in Creds,
             CompleteDeviceActivation(d, c, k)
      PROVE  CutOff'
  <2>1. c \in OpenCodes(d)
    BY <1>5 DEF CompleteDeviceActivation, CheckedRowsLive, OpenCodes
  <2>2. activation[d] # "REVOKED" /\ admin[d] # "ARCHIVED"
    BY <2>1
  <2>3. ASSUME NEW e \in Devices, e # d
        PROVE  /\ activation'[e] = activation[e] /\ admin'[e] = admin[e]
               /\ OpenCodes(e)' \subseteq OpenCodes(e)
               /\ ActiveCreds(e)' \subseteq ActiveCreds(e)
    BY <1>5, <2>3 DEF CompleteDeviceActivation, OpenCodes, ActiveCreds, RevokedCreds, Consumed
  <2>4. activation'[d] = "ACTIVATED" /\ admin'[d] = admin[d]
    BY <1>5 DEF CompleteDeviceActivation
  <2>5. QED
    BY <2>2, <2>3, <2>4
<1>6. ASSUME NEW k \in Creds, NEW new \in Creds, RotateDeviceCredential(k, new)
      PROVE  CutOff'
  <2>1. k \in ActiveCreds(credDevice[k])
    BY <1>6 DEF RotateDeviceCredential, CheckedRowsLive, ActiveCreds
  <2>2. ASSUME NEW e \in Devices, e # credDevice[k]
        PROVE  ActiveCreds(e)' \subseteq ActiveCreds(e)
    BY <1>6, <2>2 DEF RotateDeviceCredential, ActiveCreds, Retired
  <2>3. UNCHANGED <<activation, admin, codeVars>>
    BY <1>6 DEF RotateDeviceCredential, deviceVars
  <2>4. QED
    BY <2>1, <2>2, <2>3 DEF OpenCodes, codeVars
<1>7. ASSUME NEW k \in Creds, RevokeDeviceCredentialFromCookie(k)
      PROVE  CutOff'
  BY <1>7 DEF RevokeDeviceCredentialFromCookie, deviceVars, codeVars, OpenCodes, ActiveCreds
<1>8. QED
  BY <1>1, <1>2, <1>3, <1>4, <1>5, <1>6, <1>7
  DEF Next, vars, deviceVars, PanelReads, UpdateDevice, ChangeDeviceZone,
      RecordTelemetry, CheckActivationCode, CheckCredential, AuthenticateDevice, RollBack,
      Lapse, ArchiveZone, ReactivateZone

----------------------------------------------------------------------------
(* The panel's revision *)

\* Revisions only grow, and reading catches up with the row.
LEMMA SeenNotAheadStep == IInv /\ [Next]_vars => SeenNotAhead'
<1> SUFFICES ASSUME IInv, [Next]_vars PROVE SeenNotAhead'
  OBVIOUS
<1> USE DEF IInv, SeenNotAhead, Exists, TypeOK, DeviceTypeOK, SessionTypeOK
<1>1. CASE UNCHANGED <<admin, revision, seen>>
  BY <1>1
<1>2. ASSUME NEW d \in Devices, PanelReads(d) PROVE SeenNotAhead'
  BY <1>2 DEF PanelReads, Configuration, deviceVars
<1>3. ASSUME NEW d \in Devices, NEW z \in Zones, CreateDevice(d, z) \/ ChangeDeviceZone(d, z)
      PROVE  SeenNotAhead'
  BY <1>3 DEF CreateDevice, ChangeDeviceZone, NextRevision
<1>4. ASSUME NEW d \in Devices,
             UpdateDevice(d) \/ SuspendDevice(d) \/ ReactivateDevice(d)
      PROVE  SeenNotAhead'
  BY <1>4 DEF UpdateDevice, SuspendDevice, ReactivateDevice, NextRevision
<1>5. ASSUME NEW d \in Devices, ArchiveDevice(d) \/ RevokeDevice(d) PROVE SeenNotAhead'
  BY <1>5 DEF ArchiveDevice, RevokeDevice, NextRevision
<1>6. ASSUME NEW d \in Devices, NEW c \in Codes, NEW k \in Creds,
             CompleteDeviceActivation(d, c, k)
      PROVE  SeenNotAhead'
  BY <1>6 DEF CompleteDeviceActivation, NextRevision
<1>7. QED
  BY <1>1, <1>2, <1>3, <1>4, <1>5, <1>6
  DEF Next, vars, deviceVars, RecordTelemetry, GenerateActivationCode, CheckActivationCode,
      CheckCredential, RotateDeviceCredential, RevokeDeviceCredentialFromCookie,
      AuthenticateDevice, RollBack, Lapse, ArchiveZone, ReactivateZone

\* Whoever changes the configuration of an existing device raises its revision
\* above everything a panel has read.
LEMMA ConfigurationStep ==
    ASSUME IInv, [Next]_vars, NEW d \in Devices
    PROVE  \/ Configuration(d)' = Configuration(d) /\ seen'[d] = seen[d]
           \/ seen'[d] = Configuration(d)'
           \/ seen'[d].revision < revision'[d]
           \/ seen'[d].admin = "ABSENT"
<1> USE DEF IInv, SeenNotAhead, Exists, TypeOK, DeviceTypeOK, SessionTypeOK, Configuration
<1>1. CASE UNCHANGED <<admin, activation, zone, revision, seen>>
  BY <1>1
<1>2. ASSUME NEW e \in Devices, PanelReads(e)
      PROVE  \/ Configuration(d)' = Configuration(d) /\ seen'[d] = seen[d]
             \/ seen'[d] = Configuration(d)'
  BY <1>2 DEF PanelReads, deviceVars
<1>3. ASSUME NEW e \in Devices, NEW z \in Zones, CreateDevice(e, z)
      PROVE  \/ Configuration(d)' = Configuration(d) /\ seen'[d] = seen[d]
             \/ seen'[d].admin = "ABSENT"
  BY <1>3 DEF CreateDevice
<1>4. ASSUME NEW e \in Devices,
             \/ \E z \in Zones : ChangeDeviceZone(e, z)
             \/ UpdateDevice(e) \/ SuspendDevice(e) \/ ReactivateDevice(e)
      PROVE  \/ Configuration(d)' = Configuration(d) /\ seen'[d] = seen[d]
             \/ seen'[d].revision < revision'[d]
  BY <1>4 DEF ChangeDeviceZone, UpdateDevice, SuspendDevice, ReactivateDevice, NextRevision
<1>5. ASSUME NEW e \in Devices, ArchiveDevice(e) \/ RevokeDevice(e)
      PROVE  \/ Configuration(d)' = Configuration(d) /\ seen'[d] = seen[d]
             \/ seen'[d].revision < revision'[d]
  BY <1>5 DEF ArchiveDevice, RevokeDevice, NextRevision
<1>6. ASSUME NEW e \in Devices, NEW c \in Codes, NEW k \in Creds,
             CompleteDeviceActivation(e, c, k)
      PROVE  \/ Configuration(d)' = Configuration(d) /\ seen'[d] = seen[d]
             \/ seen'[d].revision < revision'[d]
  BY <1>6 DEF CompleteDeviceActivation, NextRevision
<1>7. QED
  BY <1>1, <1>2, <1>3, <1>4, <1>5, <1>6
  DEF Next, vars, deviceVars, RecordTelemetry, GenerateActivationCode, CheckActivationCode,
      CheckCredential, RotateDeviceCredential, RevokeDeviceCredentialFromCookie,
      AuthenticateDevice, RollBack, Lapse, ArchiveZone, ReactivateZone

\* Hence a panel with the current revision has the current configuration.
LEMMA RevisionPinsConfigurationStep == IInv /\ [Next]_vars => RevisionPinsConfiguration'
<1> SUFFICES ASSUME IInv, [Next]_vars, NEW d \in Devices,
                    Exists(d)', (seen[d].admin # "ABSENT")',
                    (seen[d].revision = revision[d])'
             PROVE  (seen[d] = Configuration(d))'
  BY DEF RevisionPinsConfiguration
<1>1. revision'[d] \in Nat
  BY TypeStep DEF IInv, TypeOK, DeviceTypeOK
<1>2. CASE Configuration(d)' = Configuration(d) /\ seen'[d] = seen[d]
  <2>1. admin'[d] = admin[d] /\ revision'[d] = revision[d]
    BY <1>2 DEF Configuration
  <2>2. QED
    BY <1>2, <2>1 DEF IInv, RevisionPinsConfiguration, Exists
<1>3. QED
  BY <1>1, <1>2, ConfigurationStep

----------------------------------------------------------------------------

\* The invariant is inductive.
LEMMA Invariance == IInv /\ [Next]_vars => IInv'
BY TypeStep, SingleActiveCredentialStep, SingleOpenCodeStep, CutOffStep, ExchangedOnceStep,
   CredentialIsEarnedStep, RevisionPinsConfigurationStep, CheckedRowsLiveStep,
   SeenNotAheadStep
DEF IInv

\* Every reachable state satisfies the inductive invariant.
THEOREM InvariantHolds == Spec => []IInv
BY InitInvariant, Invariance, PTL DEF Spec

\* Every row of devices, codes and credentials keeps its columns' types.
THEOREM TypeCorrect == Spec => []TypeOK
<1>1. IInv => TypeOK
  BY DEF IInv
<1>2. QED
  BY <1>1, InvariantHolds, PTL

\* Activations, rotations and logouts never leave a device two usable credentials.
THEOREM CredentialIsUnique == Spec => []SingleActiveCredential
<1>1. IInv => SingleActiveCredential
  BY DEF IInv
<1>2. QED
  BY <1>1, InvariantHolds, PTL

\* A device never has two codes that could still be consumed.
THEOREM CodeIsUnique == Spec => []SingleOpenCode
<1>1. IInv => SingleOpenCode
  BY DEF IInv
<1>2. QED
  BY <1>1, InvariantHolds, PTL

\* A revoked or archived device has neither open code nor active credential.
THEOREM RevocationCutsOff == Spec => []CutOff
<1>1. IInv => CutOff
  BY DEF IInv
<1>2. QED
  BY <1>1, InvariantHolds, PTL

\* No code and no credential is exchanged twice.
THEOREM NoDoubleExchange == Spec => []ExchangedOnce
<1>1. IInv => ExchangedOnce
  BY DEF IInv
<1>2. QED
  BY <1>1, InvariantHolds, PTL

\* Every credential has a spent origin of its own device.
THEOREM CredentialsAreEarned == Spec => []CredentialIsEarned
<1>1. IInv => CredentialIsEarned
  BY DEF IInv
<1>2. QED
  BY <1>1, InvariantHolds, PTL

\* The optimistic revision check of the panel loses no update.
THEOREM NoLostPanelUpdate == Spec => []RevisionPinsConfiguration
<1>1. IInv => RevisionPinsConfiguration
  BY DEF IInv
<1>2. QED
  BY <1>1, InvariantHolds, PTL

\* Revoked stays revoked: the only action that writes activation afterwards would
\* have to complete a code that is open, and a revoked device has none.
THEOREM RevokedForGood == Spec => RevocationIsFinal
<1>1. ASSUME IInv, [Next]_vars, NEW d \in Devices, activation[d] = "REVOKED"
      PROVE  activation'[d] = "REVOKED"
  <2> USE <1>1 DEF IInv, TypeOK, DeviceTypeOK
  <2>1. CASE UNCHANGED activation
    BY <2>1
  <2>2. ASSUME NEW e \in Devices, RevokeDevice(e) PROVE activation'[d] = "REVOKED"
    BY <2>2 DEF RevokeDevice
  <2>3. ASSUME NEW e \in Devices, NEW c \in Codes, NEW k \in Creds,
               CompleteDeviceActivation(e, c, k)
        PROVE  activation'[d] = "REVOKED"
    <3>1. c \in OpenCodes(e)
      BY <2>3 DEF CompleteDeviceActivation, CheckedRowsLive, OpenCodes
    <3>2. e # d
      BY <3>1 DEF CutOff
    <3>3. QED
      BY <2>3, <3>2 DEF CompleteDeviceActivation
  <2>4. QED
    BY <2>1, <2>2, <2>3
    DEF Next, vars, deviceVars, PanelReads, CreateDevice, UpdateDevice, ChangeDeviceZone,
        SuspendDevice, ArchiveDevice, ReactivateDevice, GenerateActivationCode,
        RecordTelemetry, CheckActivationCode, CheckCredential, RotateDeviceCredential,
        RevokeDeviceCredentialFromCookie, AuthenticateDevice, RollBack, Lapse,
        ArchiveZone, ReactivateZone
<1>2. IInv /\ [Next]_vars =>
        [\A d \in Devices : activation[d] = "REVOKED" => activation'[d] = "REVOKED"]_vars
  BY <1>1
<1>3. QED
  BY <1>2, InvariantHolds, PTL DEF Spec, RevocationIsFinal
=============================================================================
