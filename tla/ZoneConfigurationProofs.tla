---------------------- MODULE ZoneConfigurationProofs -----------------------
(***************************************************************************)
(* For any zones, channels, schedules and devices, every state of          *)
(* ZoneConfiguration satisfies its invariants.  They are inductive with    *)
(* what the locks keep true while a publication is under way: the row it   *)
(* has written for a zone is still the zone's next one and still of the    *)
(* zone's channel (PendingRows), and no zone that plays the channel is     *)
(* missing from it (NoZoneForgotten).                                      *)
(***************************************************************************)
EXTENDS ZoneConfiguration, TLAPS

\* A zone that has been rebuilt but not committed is locked by that publication alone,
\* and its row is what the zone's configuration would be.
PendingRows ==
    \A x \in Publishers, z \in Zones :
        Rebuilding(x, z) =>
            /\ publication[x].open
            /\ assigning[z] = None
            /\ \A y \in Publishers : Rebuilding(y, z) => y = x
            /\ publication[x].rows[z].version = snapshotVersion[z] + 1
            /\ snapshotVersion[z] < MaxSnapshot
            /\ publication[x].rows[z].channel = assigned[z]
            /\ assigned[z] # None =>
                publication[x].rows[z].channelVersion = VersionSeen(x, assigned[z])

\* An open publication of a channel has rebuilt or will rebuild every zone that plays it.
NoZoneForgotten ==
    /\ \A c \in Channels, z \in Zones :
        publication[c].open /\ assigned[z] = c => z \in publication[c].todo \/ Rebuilding(c, z)
    /\ \A x \in Publishers : ~publication[x].open => publication[x].todo = {}

\* There is room for what an open publication will issue.
RoomLeft ==
    /\ \A c \in Channels : publication[c].open => published[c] < MaxPublished
    /\ \A s \in Schedules : publication[s].open => issued[s] < MaxSchedule

\* A version in force is one that was issued.
ReadyIssued == \A z \in Zones : \A r \in ready[z] : r.version <= snapshotVersion[z]
ManifestsIssued == \A z \in Zones : \A m \in manifests[z] : m.version <= manifestVersion[z]

\* A request knows the schedule in effect, and once its snapshot was found up to date,
\* the schedule of the snapshot.
RequestKnows ==
    \A d \in Devices :
        /\ request[d].stage # "idle" => scheduled[ZoneOf[d]] \in request[d].during
        /\ request[d].stage \in {"building", "answered"} => request[d].snapshot # None
        /\ request[d].stage \in {"current", "building", "answered"} /\ request[d].snapshot # None
                => request[d].snapshot.schedule \in request[d].during

IInv ==
    /\ TypeOK
    /\ PendingRows
    /\ NoZoneForgotten
    /\ RoomLeft
    /\ ReadyIssued
    /\ ManifestsIssued
    /\ RequestKnows
    /\ OneReadyPerZone
    /\ ZonePlaysWhatWasPublished
    /\ ArchivedChannelNotInUse

----------------------------------------------------------------------------
(* The rows of a zone *)

\* The schedule in effect, as a transaction sees it, is a snapshot of one.
LEMMA EffectiveSchedules ==
    ASSUME TypeOK, NEW x, NEW z \in Zones
    PROVE  InEffect(x, z) \subseteq Timetables \cup {None}
BY ZoneAssumption DEF TypeOK, InEffect, NextTimetable, Timetables

\* A new operational snapshot is well formed, the zone's next, and freezes what its
\* transaction sees.
LEMMA NewSnapshotFields ==
    ASSUME TypeOK, NEW z \in Zones, NEW c \in Channels \cup {None},
           NEW t \in Timetables \cup {None}, NEW x
    PROVE  /\ NewSnapshot(z, c, t, x) \in Snapshots
           /\ NewSnapshot(z, c, t, x).version = snapshotVersion[z] + 1
           /\ NewSnapshot(z, c, t, x).channel = c
           /\ NewSnapshot(z, c, t, x).channelVersion = VersionSeen(x, c)
           /\ NewSnapshot(z, c, t, x).schedule = t
<1>1. VersionSeen(x, c) \in Nat
  BY ZoneAssumption DEF TypeOK, VersionSeen
<1>2. snapshotVersion[z] \in Nat
  BY ZoneAssumption DEF TypeOK
<1> QED
  BY <1>1, <1>2 DEF NewSnapshot, Snapshots

\* The zone's next row supersedes all that are in force.
LEMMA NextSupersedesAll ==
    ASSUME TypeOK, ReadyIssued, NEW z \in Zones, NEW row \in Snapshots,
           row.version = snapshotVersion[z] + 1
    PROVE  Superseding(ready[z], row) = {row}
<1>1. ASSUME NEW r \in ready[z] PROVE ~(r.version >= row.version)
  <2>1. r.version \in Nat /\ snapshotVersion[z] \in Nat /\ r.version <= snapshotVersion[z]
    BY <1>1, ZoneAssumption DEF TypeOK, ReadyIssued, Snapshots
  <2> QED
    BY <2>1
<1> QED
  BY <1>1 DEF Superseding

\* Publication x once it has rebuilt zone z.
WithRow(x, z, row) == [open |-> TRUE, todo |-> publication[x].todo \ {z},
                       rows |-> [publication[x].rows EXCEPT ![z] = row]]

\* The row of a rebuilt zone.
LEMMA RebuiltRow ==
    ASSUME TypeOK, NEW x \in Publishers, NEW z \in Zones, RebuildZone(x, z)
    PROVE  \E row \in Snapshots :
            /\ row.version = snapshotVersion[z] + 1
            /\ row.channel = assigned[z]
            /\ row.channelVersion = VersionSeen(x, assigned[z])
            /\ WithRow(x, z, row) \in Publications
            /\ publication' = [publication EXCEPT ![x] = WithRow(x, z, row)]
<1>1. PICK t \in InEffect(x, z) : publication' = [publication EXCEPT ![x] =
            [open |-> TRUE, todo |-> publication[x].todo \ {z},
             rows |-> [publication[x].rows EXCEPT ![z] = NewSnapshot(z, assigned[z], t, x)]]]
  BY DEF RebuildZone
<1>2. t \in Timetables \cup {None} /\ assigned[z] \in Channels \cup {None}
  BY EffectiveSchedules DEF TypeOK
<1> DEFINE row == NewSnapshot(z, assigned[z], t, x)
<1>3. /\ row \in Snapshots /\ row.version = snapshotVersion[z] + 1 /\ row.channel = assigned[z]
      /\ row.channelVersion = VersionSeen(x, assigned[z])
  BY <1>2, NewSnapshotFields
<1>4. publication' = [publication EXCEPT ![x] = WithRow(x, z, row)]
  BY <1>1 DEF WithRow
<1> HIDE DEF row
<1>5. publication[x] \in Publications
  BY DEF TypeOK
<1>6. WithRow(x, z, row) \in Publications
  BY <1>3, <1>5 DEF Publications, WithRow
<1> QED
  BY <1>3, <1>4, <1>6

\* A zone that a transaction may lock is not being rebuilt by another, nor assigned.
LEMMA FreeZones ==
    ASSUME NEW z \in Zones, NEW x
    PROVE  SiteFree(x, z) =>
            assigning[z] = None /\ \A y \in Publishers \ {x} : ~Rebuilding(y, z)
BY DEF SiteFree

LEMMA FreeZonesOutside ==
    ASSUME NEW z \in Zones, SiteFree(None, z)
    PROVE  \A y \in Publishers : ~Rebuilding(y, z)
BY FreeZones, ZoneAssumption DEF Publishers

LEMMA InitInvariant == Init => IInv
<1> SUFFICES ASSUME Init PROVE IInv
  OBVIOUS
<1>1. Idle \in Publications
  BY DEF Idle, Publications
<1>2. NoRequest \in Requests
  BY DEF NoRequest, Requests, Stages
<1>3. TypeOK
  BY <1>1, <1>2, ZoneAssumption DEF Init, TypeOK, StatusValues
<1>4. \A x \in Publishers, z \in Zones : ~publication[x].open /\ publication[x].todo = {} /\ ~Rebuilding(x, z)
  BY DEF Init, Idle, Rebuilding
<1>5. PendingRows
  BY <1>4 DEF PendingRows
<1>9. NoZoneForgotten /\ RoomLeft
  <2>1. \A x \in Publishers : publication[x] = Idle
    BY DEF Init
  <2> QED
    BY <2>1 DEF NoZoneForgotten, RoomLeft, Publishers, Idle
<1>6. ReadyIssued /\ ManifestsIssued /\ OneReadyPerZone
  BY DEF Init, ReadyIssued, ManifestsIssued, OneReadyPerZone
<1>7. RequestKnows
  BY DEF Init, NoRequest, RequestKnows
<1>8. ZonePlaysWhatWasPublished /\ ArchivedChannelNotInUse
  BY DEF Init, ZonePlaysWhatWasPublished, ArchivedChannelNotInUse
<1> QED
  BY <1>3, <1>5, <1>6, <1>7, <1>8, <1>9 DEF IInv

----------------------------------------------------------------------------
(* Types *)

\* What InstallRebuilt leaves in the zones it has rebuilt.
LEMMA RebuiltZones ==
    ASSUME TypeOK, PendingRows, ReadyIssued, NEW x \in Publishers, InstallRebuilt(x)
    PROVE  /\ \A z \in Rebuilt(x) :
                /\ ready'[z] = {publication[x].rows[z]}
                /\ snapshotVersion'[z] = snapshotVersion[z] + 1
                /\ snapshotVersion[z] < MaxSnapshot
           /\ \A z \in Zones \ Rebuilt(x) :
                ready'[z] = ready[z] /\ snapshotVersion'[z] = snapshotVersion[z]
           /\ \A z \in Rebuilt(x) : publication[x].rows[z] \in Snapshots
<1>1. ASSUME NEW z \in Rebuilt(x)
      PROVE  /\ z \in Zones
             /\ publication[x].rows[z] \in Snapshots
             /\ publication[x].rows[z].version = snapshotVersion[z] + 1
             /\ snapshotVersion[z] < MaxSnapshot
  <2>1. z \in Zones /\ Rebuilding(x, z)
    BY DEF Rebuilt, Rebuilding
  <2>2. publication[x].rows[z] \in Snapshots \cup {None}
    BY <2>1 DEF TypeOK, Publications
  <2> QED
    BY <2>1, <2>2 DEF PendingRows, Rebuilding
<1>2. \A z \in Rebuilt(x) : Superseding(ready[z], publication[x].rows[z]) = {publication[x].rows[z]}
  BY <1>1, NextSupersedesAll
<1> QED
  BY <1>1, <1>2 DEF InstallRebuilt

LEMMA ZoneTypeStep ==
    ASSUME TypeOK, PendingRows, ReadyIssued, [Next]_vars
    PROVE  /\ assigned' \in [Zones -> Channels \cup {None}]
           /\ ready' \in [Zones -> SUBSET Snapshots]
           /\ snapshotVersion' \in [Zones -> 0..MaxSnapshot]
<1> DEFINE Goal == /\ assigned' \in [Zones -> Channels \cup {None}]
                   /\ ready' \in [Zones -> SUBSET Snapshots]
                   /\ snapshotVersion' \in [Zones -> 0..MaxSnapshot]
<1>0. CASE UNCHANGED zoneVars
  BY <1>0 DEF zoneVars, TypeOK
<1>1. ASSUME NEW x \in Publishers, InstallRebuilt(x), UNCHANGED assigned PROVE Goal
  <2>1. DOMAIN ready' = Zones /\ DOMAIN snapshotVersion' = Zones
    BY <1>1 DEF InstallRebuilt
  <2>2. ready' = [z \in Zones |-> ready'[z]] /\ snapshotVersion' = [z \in Zones |-> snapshotVersion'[z]]
    BY <1>1 DEF InstallRebuilt
  <2>3. ASSUME NEW z \in Zones PROVE ready'[z] \in SUBSET Snapshots /\ snapshotVersion'[z] \in 0..MaxSnapshot
    <3>1. CASE z \in Rebuilt(x)
      <4>1. snapshotVersion[z] \in 0..MaxSnapshot
        BY DEF TypeOK
      <4>2. /\ ready'[z] = {publication[x].rows[z]} /\ publication[x].rows[z] \in Snapshots
            /\ snapshotVersion'[z] = snapshotVersion[z] + 1 /\ snapshotVersion[z] < MaxSnapshot
        BY <1>1, <3>1, RebuiltZones
      <4> QED
        BY <4>1, <4>2, ZoneAssumption
    <3>2. CASE z \notin Rebuilt(x)
      BY <1>1, <3>2, RebuiltZones DEF TypeOK
    <3> QED
      BY <3>1, <3>2
  <2> QED
    BY <1>1, <2>2, <2>3 DEF TypeOK
<1>2. ASSUME NEW z \in Zones, NEW c \in Channels \cup {None},
             Install(z, NewSnapshot(z, c, scheduled[z], None)),
             snapshotVersion[z] < MaxSnapshot, assigned' \in [Zones -> Channels \cup {None}]
      PROVE  Goal
  <2>1. NewSnapshot(z, c, scheduled[z], None) \in Snapshots /\ NewSnapshot(z, c, scheduled[z], None).version = snapshotVersion[z] + 1
    <3>1. scheduled[z] \in Timetables \cup {None}
      BY DEF TypeOK
    <3> QED
      BY <3>1, NewSnapshotFields
  <2>2. Superseding(ready[z], NewSnapshot(z, c, scheduled[z], None)) = {NewSnapshot(z, c, scheduled[z], None)}
    BY <2>1, NextSupersedesAll
  <2>3. snapshotVersion[z] + 1 \in 0..MaxSnapshot
    BY <1>2, ZoneAssumption DEF TypeOK
  <2> QED
    BY <1>2, <2>1, <2>2, <2>3 DEF TypeOK, Install
<1>3. ASSUME NEW z \in Zones, AssignChannelToZone(z) PROVE Goal
  BY <1>2, <1>3 DEF AssignChannelToZone, TypeOK
<1>4. ASSUME NEW z \in Zones, UnassignChannelFromZone(z) PROVE Goal
  BY <1>2, <1>4 DEF UnassignChannelFromZone, TypeOK
<1>5. ASSUME NEW d \in Devices, NEW status, RollOver(d, status) PROVE Goal
  BY <1>2, <1>5, ZoneAssumption DEF RollOver, TypeOK
<1>6. ASSUME NEW c \in Channels, CommitChannel(c) PROVE Goal
  BY <1>1, <1>6 DEF CommitChannel, Publishers
<1>7. ASSUME NEW s \in Schedules, CommitSchedule(s) PROVE Goal
  BY <1>1, <1>7 DEF CommitSchedule, Publishers
<1> QED
  BY <1>0, <1>3, <1>4, <1>5, <1>6, <1>7 DEF Next, vars, zoneVars, ArchiveChannel, ReactivateChannel,
     PublishUnchanged, BeginPublication, BeginSchedulePublication, RollBackPublication, RebuildZone,
     ScheduleMoves, BeginAssignment, EndAssignment, AskRuntime, CompareSchedule, UseManifest,
     MissManifest, BuildManifest, Finish, EndRequest

\* A publication that has not rebuilt any zone.
LEMMA FreshPublications ==
    /\ Idle \in Publications /\ Idle.rows = [z \in Zones |-> None]
    /\ Idle.open = FALSE /\ Idle.todo = {}
    /\ \A W \in SUBSET Zones :
        /\ Opened(W) \in Publications
        /\ Opened(W).rows = [z \in Zones |-> None]
        /\ Opened(W).open = TRUE
        /\ Opened(W).todo = W
BY DEF Idle, Opened, Publications

LEMMA PublicationTypeStep ==
    ASSUME TypeOK, [Next]_vars
    PROVE  publication' \in [Publishers -> Publications]
<1>0. CASE UNCHANGED publication
  BY <1>0 DEF TypeOK
<1>1. ASSUME NEW x \in Publishers, NEW p \in Publications, publication' = [publication EXCEPT ![x] = p]
      PROVE  publication' \in [Publishers -> Publications]
  BY <1>1 DEF TypeOK
<1>2. ASSUME NEW c \in Channels, BeginPublication(c) PROVE publication' \in [Publishers -> Publications]
  BY <1>1, <1>2, FreshPublications DEF BeginPublication, Publishers
<1>3. ASSUME NEW s \in Schedules, NEW W \in SUBSET Zones, BeginSchedulePublication(s, W)
      PROVE  publication' \in [Publishers -> Publications]
  BY <1>1, <1>3, FreshPublications DEF BeginSchedulePublication, Publishers
<1>4. ASSUME NEW x \in Publishers, RollBackPublication(x) PROVE publication' \in [Publishers -> Publications]
  BY <1>1, <1>4, FreshPublications DEF RollBackPublication
<1>5. ASSUME NEW x \in Publishers, NEW z \in Zones, RebuildZone(x, z)
      PROVE  publication' \in [Publishers -> Publications]
  BY <1>1, <1>5, RebuiltRow
<1>6. ASSUME NEW c \in Channels, CommitChannel(c) PROVE publication' \in [Publishers -> Publications]
  BY <1>1, <1>6, FreshPublications DEF CommitChannel, InstallRebuilt, Publishers
<1>7. ASSUME NEW s \in Schedules, CommitSchedule(s) PROVE publication' \in [Publishers -> Publications]
  BY <1>1, <1>7, FreshPublications DEF CommitSchedule, InstallRebuilt, Publishers
<1> QED
  BY <1>0, <1>2, <1>3, <1>4, <1>5, <1>6, <1>7 DEF Next, vars, ArchiveChannel, ReactivateChannel,
     PublishUnchanged, ScheduleMoves, BeginAssignment, EndAssignment, AssignChannelToZone,
     UnassignChannelFromZone, AskRuntime, CompareSchedule, UseManifest, MissManifest, RollOver,
     BuildManifest, Finish, EndRequest

LEMMA ChannelTypeStep ==
    ASSUME TypeOK, RoomLeft, [Next]_vars
    PROVE  /\ channelStatus' \in [Channels -> StatusValues]
           /\ published' \in [Channels -> 0..MaxPublished]
           /\ \A c \in Channels : channelStatus'[c] = "PUBLISHED" => published'[c] > 0
           /\ issued' \in [Schedules -> 0..MaxSchedule]
<1> DEFINE Types == /\ channelStatus' \in [Channels -> StatusValues]
                    /\ published' \in [Channels -> 0..MaxPublished]
                    /\ \A c \in Channels : channelStatus'[c] = "PUBLISHED" => published'[c] > 0
                    /\ issued' \in [Schedules -> 0..MaxSchedule]
<1>0. CASE UNCHANGED <<channelVars, issued>>
  BY <1>0 DEF channelVars, TypeOK
<1>1. ASSUME NEW c \in Channels, ArchiveChannel(c) PROVE Types
  BY <1>1 DEF ArchiveChannel, scheduleVars, TypeOK, StatusValues
<1>2. ASSUME NEW c \in Channels, ReactivateChannel(c) PROVE Types
  BY <1>2 DEF ReactivateChannel, scheduleVars, TypeOK, StatusValues
<1>3. ASSUME NEW c \in Channels, PublishUnchanged(c) PROVE Types
  BY <1>3 DEF PublishUnchanged, scheduleVars, TypeOK, StatusValues
<1>4. ASSUME NEW c \in Channels, CommitChannel(c) PROVE Types
  <2>1. published[c] + 1 \in 0..MaxPublished /\ published[c] + 1 > 0
    BY <1>4, ZoneAssumption DEF CommitChannel, InstallRebuilt, RoomLeft, TypeOK
  <2> QED
    BY <1>4, <2>1 DEF CommitChannel, scheduleVars, TypeOK, StatusValues
<1>5. ASSUME NEW s \in Schedules, CommitSchedule(s) PROVE Types
  <2>1. issued[s] + 1 \in 0..MaxSchedule
    BY <1>5, ZoneAssumption DEF CommitSchedule, InstallRebuilt, RoomLeft, TypeOK
  <2> QED
    BY <1>5, <2>1 DEF CommitSchedule, channelVars, TypeOK
<1> QED
  BY <1>0, <1>1, <1>2, <1>3, <1>4, <1>5 DEF Next, vars, scheduleVars, BeginPublication,
     BeginSchedulePublication, RollBackPublication, RebuildZone, ScheduleMoves, BeginAssignment,
     EndAssignment, AssignChannelToZone, UnassignChannelFromZone, AskRuntime, CompareSchedule,
     UseManifest, MissManifest, RollOver, BuildManifest, Finish, EndRequest

LEMMA ManifestTypeStep ==
    ASSUME TypeOK, RequestKnows, [Next]_vars
    PROVE  /\ manifests' \in [Zones -> SUBSET Manifests]
           /\ manifestVersion' \in [Zones -> 0..MaxManifest]
<1> DEFINE Types == /\ manifests' \in [Zones -> SUBSET Manifests]
                    /\ manifestVersion' \in [Zones -> 0..MaxManifest]
<1>0. CASE UNCHANGED manifestVars
  BY <1>0 DEF manifestVars, TypeOK
<1>1. ASSUME NEW z \in Zones, NEW status \in {"READY", "ERROR"}, NEW snapshot \in Nat,
             NewManifest(z, status, snapshot)
      PROVE  Types
  <2>1. manifestVersion[z] + 1 \in 0..MaxManifest
    BY <1>1, ZoneAssumption DEF NewManifest, TypeOK
  <2>2. [version |-> manifestVersion[z] + 1, status |-> status, snapshot |-> snapshot] \in Manifests
    BY <1>1, <2>1, ZoneAssumption DEF Manifests
  <2> QED
    BY <1>1, <2>1, <2>2 DEF NewManifest, TypeOK
<1>2. ASSUME NEW d \in Devices, NEW status \in {"READY", "ERROR"}, RollOver(d, status) PROVE Types
  <2>1. ZoneOf[d] \in Zones
    BY ZoneAssumption
  <2>2. assigned[ZoneOf[d]] \in Channels \cup {None}
    BY <2>1 DEF TypeOK
  <2>3. NewSnapshot(ZoneOf[d], assigned[ZoneOf[d]], scheduled[ZoneOf[d]], None).version \in Nat
    <3>1. scheduled[ZoneOf[d]] \in Timetables \cup {None}
      BY <2>1 DEF TypeOK
    <3> QED
      BY <2>1, <2>2, <3>1, NewSnapshotFields DEF Snapshots
  <2> QED
    BY <1>1, <1>2, <2>1, <2>3 DEF RollOver
<1>3. ASSUME NEW d \in Devices, NEW status \in {"READY", "ERROR"}, BuildManifest(d, status)
      PROVE  Types
  <2>1. ZoneOf[d] \in Zones
    BY ZoneAssumption
  <2>2. request[d].snapshot.version \in Nat
    BY <1>3 DEF BuildManifest, RequestKnows, TypeOK, Requests, Snapshots
  <2> QED
    BY <1>1, <1>3, <2>1, <2>2 DEF BuildManifest
<1> QED
  BY <1>0, <1>2, <1>3 DEF Next, vars, manifestVars, ArchiveChannel, ReactivateChannel,
     PublishUnchanged, BeginPublication, CommitChannel, BeginSchedulePublication, CommitSchedule,
     RollBackPublication, RebuildZone, ScheduleMoves, BeginAssignment, EndAssignment,
     AssignChannelToZone, UnassignChannelFromZone, AskRuntime, CompareSchedule, UseManifest,
     MissManifest, Finish, EndRequest

LEMMA AssigningTypeStep ==
    ASSUME TypeOK, [Next]_vars
    PROVE  assigning' \in [Zones -> Channels \cup {None}]
<1>0. CASE UNCHANGED assigning
  BY <1>0 DEF TypeOK
<1>1. ASSUME NEW z \in Zones, NEW c \in Channels, BeginAssignment(z, c)
      PROVE  assigning' \in [Zones -> Channels \cup {None}]
  BY <1>1 DEF BeginAssignment, TypeOK
<1>2. ASSUME NEW z \in Zones, AssignChannelToZone(z) \/ EndAssignment(z)
      PROVE  assigning' \in [Zones -> Channels \cup {None}]
  BY <1>2 DEF AssignChannelToZone, EndAssignment, TypeOK
<1> QED
  BY <1>0, <1>1, <1>2 DEF Next, vars, ArchiveChannel, ReactivateChannel,
     PublishUnchanged, BeginPublication, CommitChannel, BeginSchedulePublication, CommitSchedule,
     RollBackPublication, RebuildZone, ScheduleMoves, UnassignChannelFromZone, AskRuntime,
     CompareSchedule, UseManifest, MissManifest, RollOver, BuildManifest, Finish, EndRequest

\* The schedule in effect is a snapshot of one, and a change of it is known to the requests
\* under way.
LEMMA ScheduledStep ==
    ASSUME TypeOK, [Next]_vars
    PROVE  /\ scheduled' \in [Zones -> Timetables \cup {None}]
           /\ scheduled' = scheduled \/ request' = Knowing(scheduled')
<1> DEFINE Goal == /\ scheduled' \in [Zones -> Timetables \cup {None}]
                   /\ scheduled' = scheduled \/ request' = Knowing(scheduled')
<1>0. CASE UNCHANGED scheduled
  BY <1>0 DEF TypeOK
<1>1. ASSUME NEW s \in Schedules, CommitSchedule(s) PROVE Goal
  <2>1. NextTimetable(s) \in Timetables
    BY ZoneAssumption DEF NextTimetable, Timetables, TypeOK
  <2> QED
    BY <1>1, <2>1 DEF CommitSchedule, TypeOK
<1>2. ASSUME NEW z \in Zones, NEW t \in {Latest(s) : s \in {s \in Schedules : issued[s] > 0}} \cup {None},
             ScheduleMoves(z, t)
      PROVE  Goal
  <2>1. \A s \in Schedules : Latest(s) \in Timetables
    BY ZoneAssumption DEF Latest, Timetables, TypeOK
  <2>2. t \in Timetables \cup {None}
    BY <2>1
  <2> QED
    BY <1>2, <2>2 DEF ScheduleMoves, TypeOK
<1> QED
  BY <1>0, <1>1, <1>2 DEF Next, vars, scheduleVars, ArchiveChannel, ReactivateChannel,
     PublishUnchanged, BeginPublication, CommitChannel, BeginSchedulePublication,
     RollBackPublication, RebuildZone, BeginAssignment, EndAssignment, AssignChannelToZone,
     UnassignChannelFromZone, AskRuntime, CompareSchedule, UseManifest, MissManifest, RollOver,
     BuildManifest, Finish, EndRequest

\* The READY snapshot a request finds is one of the zone's.
LEMMA HighestReady ==
    ASSUME TypeOK, OneReadyPerZone, NEW z \in Zones, ready[z] # {}
    PROVE  Highest(ready[z]) \in ready[z]
<1>1. PICK r \in ready[z] : TRUE
  OBVIOUS
<1>2. r.version \in Nat
  BY DEF TypeOK, Snapshots
<1>3. \A other \in ready[z] : other.version <= r.version
  BY <1>2 DEF OneReadyPerZone
<1> QED
  BY <1>1, <1>3 DEF Highest

----------------------------------------------------------------------------
(* Requests *)

\* What RequestKnows says of one request r of a device in zone z.
Informed(r, z) ==
    /\ r.stage # "idle" => scheduled[z] \in r.during
    /\ r.stage \in {"building", "answered"} => r.snapshot # None
    /\ r.stage \in {"current", "building", "answered"} /\ r.snapshot # None
            => r.snapshot.schedule \in r.during

LEMMA RequestStep ==
    ASSUME TypeOK, RequestKnows, OneReadyPerZone, [Next]_vars
    PROVE  request' \in [Devices -> Requests] /\ RequestKnows'
<1> DEFINE Goal == request' \in [Devices -> Requests] /\ RequestKnows'
<1>a. \A d \in Devices : ZoneOf[d] \in Zones /\ request[d] \in Requests /\ Informed(request[d], ZoneOf[d])
  BY ZoneAssumption DEF RequestKnows, Informed, TypeOK
<1>b. \A z \in Zones : scheduled[z] \in Timetables \cup {None} /\ assigned[z] \in Channels \cup {None}
  BY DEF TypeOK
<1>0. CASE UNCHANGED <<request, scheduled>>
  BY <1>0 DEF TypeOK, RequestKnows
<1>1. CASE request' = Knowing(scheduled')
  <2>1. \A z \in Zones : scheduled'[z] \in Timetables \cup {None}
    BY ScheduledStep
  <2>2. ASSUME NEW d \in Devices
        PROVE  request'[d] \in Requests /\ Informed(request[d], ZoneOf[d])'
    <3> DEFINE z == ZoneOf[d]
               r == [stage |-> request[d].stage, snapshot |-> request[d].snapshot,
                     during |-> request[d].during \cup {scheduled'[z]}]
    <3>1. CASE request[d].stage = "idle"
      <4>1. request'[d] = request[d]
        BY <1>1, <3>1 DEF Knowing
      <4> QED
        BY <1>a, <3>1, <4>1 DEF Informed
    <3>2. CASE request[d].stage # "idle"
      <4>1. request'[d] = r
        BY <1>1, <3>2 DEF Knowing
      <4>2. request[d].during \in SUBSET (Timetables \cup {None})
        BY <1>a DEF Requests
      <4>3. request[d].during \cup {scheduled'[z]} \in SUBSET (Timetables \cup {None})
        BY <1>a, <2>1, <4>2
      <4>4. r \in Requests
        BY <1>a, <4>3 DEF Requests
      <4> QED
        BY <1>a, <3>2, <4>1, <4>4 DEF Informed
    <3> QED
      BY <3>1, <3>2
  <2>3. request' = [d \in Devices |-> request'[d]]
    BY <1>1 DEF Knowing
  <2> QED
    BY <2>2, <2>3 DEF RequestKnows, Informed
<1>2. ASSUME NEW d \in Devices, NEW r \in Requests, Informed(r, ZoneOf[d]),
             scheduled' = scheduled, request' = [request EXCEPT ![d] = r]
      PROVE  Goal
  BY <1>2, <1>a DEF RequestKnows, Informed, TypeOK
<1>3. NoRequest \in Requests /\ \A z \in Zones : Informed(NoRequest, z)
  BY DEF NoRequest, Requests, Stages, Informed
<1>4. ASSUME NEW d \in Devices, AskRuntime(d) PROVE Goal
  <2> DEFINE z == ZoneOf[d]
             r == [stage |-> "read",
                   snapshot |-> IF ready[z] = {} THEN None ELSE Highest(ready[z]),
                   during |-> {scheduled[z]}]
  <2>1. ready[z] # {} => Highest(ready[z]) \in Snapshots
    BY <1>a, HighestReady DEF TypeOK
  <2>2. r \in Requests /\ Informed(r, z)
    BY <1>a, <1>b, <2>1 DEF Requests, Stages, Informed
  <2> QED
    BY <1>2, <1>4, <2>2 DEF AskRuntime, scheduleVars
<1>5. ASSUME NEW d \in Devices, NEW stage \in Stages, NEW snapshot \in Snapshots \cup {None},
             Reach(d, stage, snapshot),
             scheduled' = scheduled,
             request[d].stage # "idle",
             stage \in {"building", "answered"} => snapshot # None,
             stage \in {"current", "building", "answered"} /\ snapshot # None
                => snapshot.schedule \in request[d].during
      PROVE  Goal
  <2> DEFINE r == [stage |-> stage, snapshot |-> snapshot, during |-> request[d].during]
  <2>1. r \in Requests /\ Informed(r, ZoneOf[d])
    BY <1>5, <1>a DEF Requests, Informed
  <2> QED
    BY <1>2, <1>5, <2>1 DEF Reach
<1>6. ASSUME NEW d \in Devices, CompareSchedule(d) PROVE Goal
  <2> DEFINE stage == IF UpToDate(d) THEN "current" ELSE "outdated"
  <2>1. stage \in {"current", "outdated"} /\ (stage = "current" => UpToDate(d))
    BY Zenon
  <2>2. Reach(d, stage, request[d].snapshot) /\ request[d].snapshot \in Snapshots \cup {None}
    BY <1>6, <1>a DEF CompareSchedule, Requests
  <2>3. request[d].stage = "read" /\ scheduled' = scheduled
    BY <1>6 DEF CompareSchedule, scheduleVars
  <2>4. stage = "current" /\ request[d].snapshot # None
            => request[d].snapshot.schedule \in request[d].during
    BY <1>a, <2>1, <2>3 DEF UpToDate, Informed
  <2> HIDE DEF stage
  <2> QED
    BY <1>5, <2>1, <2>2, <2>3, <2>4 DEF Stages
<1>7. ASSUME NEW d \in Devices, MissManifest(d) PROVE Goal
  <2>1. request[d].snapshot \in Snapshots /\ request[d].snapshot.schedule \in request[d].during
    BY <1>7, <1>a DEF MissManifest, Requests, Informed
  <2> QED
    BY <1>5, <1>7, <2>1 DEF MissManifest, scheduleVars, Stages
<1>8. ASSUME NEW d \in Devices, NEW snapshot \in Snapshots, Answer(d, snapshot), request[d].stage # "idle",
             snapshot.schedule \in request[d].during, scheduled' = scheduled
      PROVE  Goal
  BY <1>5, <1>8, ZoneAssumption DEF Answer, Stages
<1>9. ASSUME NEW d \in Devices, UseManifest(d) PROVE Goal
  BY <1>8, <1>9, <1>a DEF UseManifest, Suits, scheduleVars, Requests, Informed
<1>10. ASSUME NEW d \in Devices, NEW status, BuildManifest(d, status) PROVE Goal
  BY <1>8, <1>10, <1>a DEF BuildManifest, scheduleVars, Requests, Informed
<1>11. ASSUME NEW d \in Devices, NEW status, RollOver(d, status) PROVE Goal
  <2> DEFINE z == ZoneOf[d]
             row == NewSnapshot(z, assigned[z], scheduled[z], None)
  <2>1. row \in Snapshots /\ row.schedule = scheduled[z]
    <3>1. z \in Zones
      BY <1>a
    <3>2. assigned[z] \in Channels \cup {None} /\ scheduled[z] \in Timetables \cup {None}
      BY <1>b, <3>1
    <3> QED
      BY <3>1, <3>2, NewSnapshotFields
  <2>3. Answer(d, row) /\ request[d].stage = "outdated" /\ scheduled' = scheduled
    BY <1>11 DEF RollOver, scheduleVars
  <2> HIDE DEF row
  <2> QED
    BY <1>8, <1>a, <2>1, <2>3 DEF Informed
<1>12. ASSUME NEW d \in Devices, Finish(d) \/ EndRequest(d) PROVE Goal
  BY <1>2, <1>3, <1>12, <1>a DEF Finish, EndRequest, scheduleVars
<1> QED
  BY <1>0, <1>1, <1>4, <1>6, <1>7, <1>9, <1>10, <1>11, <1>12 DEF Next, vars, scheduleVars,
     ArchiveChannel, ReactivateChannel, PublishUnchanged, BeginPublication, CommitChannel,
     BeginSchedulePublication, CommitSchedule, RollBackPublication, RebuildZone, ScheduleMoves,
     BeginAssignment, EndAssignment, AssignChannelToZone, UnassignChannelFromZone

----------------------------------------------------------------------------
(* Locks *)

\* An action that forgets one publication's rows, if it had any, and touches no zone keeps
\* the rows of the others.
LEMMA RowsForgotten ==
    ASSUME TypeOK, PendingRows, NEW x \in Publishers, NEW p \in Publications,
           p.rows = [z \in Zones |-> None], publication' = [publication EXCEPT ![x] = p],
           UNCHANGED <<published, assigned, snapshotVersion, assigning>>
    PROVE  PendingRows'
<1>1. \A y \in Publishers : publication'[y] = IF y = x THEN p ELSE publication[y]
  BY DEF TypeOK
<1>2. \A y \in Publishers, z \in Zones : Rebuilding(y, z)' => Rebuilding(y, z) /\ y # x
  BY <1>1 DEF Rebuilding
<1>3. ASSUME NEW y \in Publishers, NEW z \in Zones
      PROVE  VersionSeen(y, assigned[z])' = VersionSeen(y, assigned[z])
  BY DEF VersionSeen
<1> QED
  BY <1>1, <1>2, <1>3 DEF PendingRows

\* A transaction that holds the lock of zone z, and no other, leaves the rows of the
\* publications alone.
LEMMA RowsElsewhere ==
    ASSUME PendingRows, NEW z \in Zones, \A x \in Publishers : ~Rebuilding(x, z),
           UNCHANGED <<published, publication>>,
           \A y \in Zones \ {z} : /\ assigned'[y] = assigned[y]
                                  /\ snapshotVersion'[y] = snapshotVersion[y]
                                  /\ assigning[y] = None => assigning'[y] = None
    PROVE  PendingRows'
<1>1. \A x \in Publishers, y \in Zones : Rebuilding(x, y)' => Rebuilding(x, y) /\ y # z
  BY DEF Rebuilding
<1>2. ASSUME NEW x \in Publishers, NEW y \in Zones \ {z}
      PROVE  VersionSeen(x, assigned[y])' = VersionSeen(x, assigned[y])
  BY DEF VersionSeen
<1> QED
  BY <1>1, <1>2 DEF PendingRows, Rebuilding

LEMMA PendingStep ==
    ASSUME TypeOK, PendingRows, NoZoneForgotten, ReadyIssued, [Next]_vars
    PROVE  PendingRows'
<1>0. CASE UNCHANGED <<published, assigned, snapshotVersion, publication, assigning>>
  <2>1. \A x \in Publishers, z \in Zones : VersionSeen(x, assigned[z])' = VersionSeen(x, assigned[z])
    BY <1>0 DEF VersionSeen
  <2> QED
    BY <1>0, <2>1 DEF PendingRows, Rebuilding
<1>1. ASSUME NEW c \in Channels, BeginPublication(c) PROVE PendingRows'
  BY <1>1, FreshPublications, RowsForgotten DEF BeginPublication, Publishers, channelVars, zoneVars
<1>2. ASSUME NEW s \in Schedules, NEW W \in SUBSET Zones, BeginSchedulePublication(s, W) PROVE PendingRows'
  BY <1>2, FreshPublications, RowsForgotten DEF BeginSchedulePublication, Publishers, channelVars, zoneVars
<1>3. ASSUME NEW x \in Publishers, RollBackPublication(x) PROVE PendingRows'
  BY <1>3, FreshPublications, RowsForgotten DEF RollBackPublication, channelVars, zoneVars
<1>4. ASSUME NEW x \in Publishers, NEW z \in Zones, RebuildZone(x, z) PROVE PendingRows'
  <2>1. PICK row \in Snapshots :
            /\ row.version = snapshotVersion[z] + 1
            /\ row.channel = assigned[z]
            /\ row.channelVersion = VersionSeen(x, assigned[z])
            /\ WithRow(x, z, row) \in Publications
            /\ publication' = [publication EXCEPT ![x] = WithRow(x, z, row)]
    BY <1>4, RebuiltRow
  <2>2. row # None
    BY <2>1, ZoneAssumption
  <2>3. \A y \in Publishers : y # x => publication'[y] = publication[y]
    BY <2>1 DEF TypeOK
  <2>4. publication'[x].open = TRUE /\ publication'[x].rows = [publication[x].rows EXCEPT ![z] = row]
    BY <2>1 DEF TypeOK, WithRow
  <2>5. publication[x].rows \in [Zones -> Snapshots \cup {None}]
    BY DEF TypeOK, Publications
  <2>6. UNCHANGED <<published, assigned, snapshotVersion, assigning>> /\ snapshotVersion[z] < MaxSnapshot
    BY <1>4 DEF RebuildZone, channelVars, zoneVars
  <2>7. assigning[z] = None /\ \A y \in Publishers \ {x} : ~Rebuilding(y, z)
    BY <1>4, FreeZones DEF RebuildZone, RebuildFree
  <2>8. \A y \in Publishers, z2 \in Zones : VersionSeen(y, assigned[z2])' = VersionSeen(y, assigned[z2])
    BY <2>6 DEF VersionSeen
  <2>10. \A z2 \in Zones \ {z} : publication'[x].rows[z2] = publication[x].rows[z2]
    BY <2>4, <2>5
  <2>11. publication'[x].rows[z] = row
    BY <2>4, <2>5
  <2>9. ASSUME NEW y \in Publishers, NEW z2 \in Zones, Rebuilding(y, z2)'
        PROVE  (Rebuilding(y, z2) /\ z2 # z) \/ (y = x /\ z2 = z)
    <3>1. CASE y = x
      <4>1. CASE z2 # z
        <5>1. publication'[y].rows[z2] = publication[y].rows[z2]
          BY <2>10, <3>1, <4>1
        <5>2. publication'[y].rows[z2] # None
          BY <2>9 DEF Rebuilding
        <5> QED
          BY <4>1, <5>1, <5>2 DEF Rebuilding
      <4> QED
        BY <3>1, <4>1
    <3>2. CASE y # x
      <4>1. Rebuilding(y, z2)
        BY <2>3, <2>9, <3>2 DEF Rebuilding
      <4> QED
        BY <2>7, <4>1
    <3> QED
      BY <3>1, <3>2
  <2>12. ASSUME NEW z2 \in Zones, NEW y \in Publishers, Rebuilding(y, z2)', z2 # z
         PROVE  /\ publication'[y].open /\ publication'[y].rows[z2] = publication[y].rows[z2]
                /\ Rebuilding(y, z2)
    BY <2>3, <2>4, <2>9, <2>10, <2>12 DEF PendingRows
  <2>13. ASSUME NEW z2 \in Zones, NEW y \in Publishers, Rebuilding(y, z2)'
         PROVE  /\ publication'[y].open
                /\ assigning'[z2] = None
                /\ \A w \in Publishers : Rebuilding(w, z2)' => w = y
                /\ publication'[y].rows[z2].version = snapshotVersion'[z2] + 1
                /\ snapshotVersion'[z2] < MaxSnapshot
                /\ publication'[y].rows[z2].channel = assigned'[z2]
                /\ assigned'[z2] # None =>
                    publication'[y].rows[z2].channelVersion = VersionSeen(y, assigned[z2])'
    <3>1. CASE z2 = z
      <4>1. y = x /\ \A w \in Publishers : Rebuilding(w, z2)' => w = y
        BY <2>9, <2>13, <3>1
      <4> QED
        BY <2>1, <2>4, <2>6, <2>7, <2>8, <2>11, <3>1, <4>1
    <3>2. CASE z2 # z
      BY <2>6, <2>8, <2>9, <2>12, <2>13, <3>2 DEF PendingRows
    <3> QED
      BY <3>1, <3>2
  <2> QED
    BY <2>13 DEF PendingRows
<1>5. ASSUME NEW x \in Publishers, InstallRebuilt(x), UNCHANGED <<assigned, assigning>>,
             published' \in [Channels -> Nat],
             \A c \in Channels : published'[c] = published[c] \/ c = x
      PROVE  PendingRows'
  <2>1. /\ \A y \in Publishers : publication'[y] = IF y = x THEN Idle ELSE publication[y]
        /\ publication[x].open /\ publication[x].todo = {}
    BY <1>5 DEF InstallRebuilt, TypeOK
  <2>2. \A y \in Publishers, z \in Zones : Rebuilding(y, z)' => Rebuilding(y, z) /\ y # x
    BY <2>1, FreshPublications DEF Rebuilding
  <2>3. ASSUME NEW y \in Publishers, NEW z \in Zones, Rebuilding(y, z)'
        PROVE  snapshotVersion'[z] = snapshotVersion[z] /\ ~Rebuilding(x, z)
    <3>1. ~Rebuilding(x, z)
      BY <2>2, <2>3 DEF PendingRows
    <3> QED
      BY <1>5, <3>1, RebuiltZones DEF Rebuilt, Rebuilding
  <2>4. ASSUME NEW y \in Publishers, NEW z \in Zones, Rebuilding(y, z)'
        PROVE  VersionSeen(y, assigned[z])' = VersionSeen(y, assigned[z])
    <3>1. assigned[z] = x => x \notin Channels
      BY <2>1, <2>3, <2>4 DEF NoZoneForgotten
    <3>2. assigned[z] \in Channels => published'[assigned[z]] = published[assigned[z]]
      BY <1>5, <3>1
    <3> QED
      BY <1>5, <3>2 DEF VersionSeen, TypeOK
  <2> QED
    BY <1>5, <2>1, <2>2, <2>3, <2>4 DEF PendingRows
<1>6. ASSUME NEW c \in Channels, CommitChannel(c) PROVE PendingRows'
  <2>1. published' \in [Channels -> Nat] /\ \A c2 \in Channels : published'[c2] = published[c2] \/ c2 = c
    BY <1>6, ZoneAssumption DEF CommitChannel, TypeOK
  <2> QED
    BY <1>5, <1>6, <2>1 DEF CommitChannel, Publishers
<1>7. ASSUME NEW s \in Schedules, CommitSchedule(s) PROVE PendingRows'
  <2>1. published' \in [Channels -> Nat] /\ published' = published
    BY <1>7, ZoneAssumption DEF CommitSchedule, channelVars, TypeOK
  <2> QED
    BY <1>5, <1>7, <2>1 DEF CommitSchedule, Publishers
<1>8. ASSUME NEW z \in Zones, NEW c \in Channels, BeginAssignment(z, c) PROVE PendingRows'
  <2>1. \A x \in Publishers : ~Rebuilding(x, z)
    BY <1>8, FreeZonesOutside DEF BeginAssignment
  <2> QED
    BY <1>8, <2>1, RowsElsewhere DEF BeginAssignment, TypeOK, channelVars, zoneVars
<1>9. ASSUME NEW z \in Zones, EndAssignment(z) PROVE PendingRows'
  <2>1. \A x \in Publishers : ~Rebuilding(x, z)
    BY <1>9 DEF EndAssignment, PendingRows
  <2> QED
    BY <1>9, <2>1, RowsElsewhere DEF EndAssignment, TypeOK, channelVars, zoneVars
<1>10. ASSUME NEW z \in Zones, AssignChannelToZone(z) PROVE PendingRows'
  <2>1. \A x \in Publishers : ~Rebuilding(x, z)
    BY <1>10 DEF AssignChannelToZone, PendingRows
  <2> QED
    BY <1>10, <2>1, RowsElsewhere DEF AssignChannelToZone, Install, TypeOK, channelVars
<1>11. ASSUME NEW z \in Zones, UnassignChannelFromZone(z) PROVE PendingRows'
  <2>1. \A x \in Publishers : ~Rebuilding(x, z)
    BY <1>11, FreeZonesOutside DEF UnassignChannelFromZone, RebuildFree
  <2> QED
    BY <1>11, <2>1, RowsElsewhere DEF UnassignChannelFromZone, Install, TypeOK, channelVars
<1>12. ASSUME NEW d \in Devices, NEW status, RollOver(d, status) PROVE PendingRows'
  <2>1. ZoneOf[d] \in Zones /\ \A x \in Publishers : ~Rebuilding(x, ZoneOf[d])
    BY <1>12, FreeZonesOutside, ZoneAssumption DEF RollOver, RebuildFree
  <2> QED
    BY <1>12, <2>1, RowsElsewhere DEF RollOver, Install, TypeOK, channelVars
<1> QED
  BY <1>0, <1>1, <1>2, <1>3, <1>4, <1>6, <1>7, <1>8, <1>9, <1>10, <1>11, <1>12 DEF Next, vars,
     channelVars, zoneVars, ArchiveChannel, ReactivateChannel, PublishUnchanged, ScheduleMoves,
     AskRuntime, CompareSchedule, UseManifest, MissManifest, BuildManifest, Finish, EndRequest

LEMMA ForgottenStep ==
    ASSUME TypeOK, NoZoneForgotten, [Next]_vars
    PROVE  NoZoneForgotten'
<1>0. CASE UNCHANGED <<assigned, publication>>
  BY <1>0 DEF NoZoneForgotten, Rebuilding
<1>1. ASSUME NEW x \in Publishers, NEW p \in Publications, UNCHANGED assigned,
             publication' = [publication EXCEPT ![x] = p],
             ~p.open => p.todo = {},
             p.open => \A z \in Zones : assigned[z] = x => z \in p.todo \/ p.rows[z] # None
      PROVE  NoZoneForgotten'
  <2>1. \A y \in Publishers : publication'[y] = IF y = x THEN p ELSE publication[y]
    BY <1>1 DEF TypeOK
  <2>2. ASSUME NEW c \in Channels, NEW z \in Zones, publication'[c].open, assigned'[z] = c
        PROVE  z \in publication'[c].todo \/ Rebuilding(c, z)'
    <3>1. c \in Publishers
      BY DEF Publishers
    <3> QED
      BY <1>1, <2>1, <2>2, <3>1 DEF NoZoneForgotten, Rebuilding
  <2>3. ASSUME NEW y \in Publishers, ~publication'[y].open PROVE publication'[y].todo = {}
    BY <1>1, <2>1, <2>3 DEF NoZoneForgotten
  <2> QED
    BY <2>2, <2>3 DEF NoZoneForgotten
<1>2. ASSUME NEW x \in Publishers, publication' = [publication EXCEPT ![x] = Idle], UNCHANGED assigned
      PROVE  NoZoneForgotten'
  BY <1>1, <1>2, FreshPublications
<1>3. ASSUME NEW c \in Channels, BeginPublication(c) PROVE NoZoneForgotten'
  <2> DEFINE W == {z \in Zones : assigned[z] = c}
  <2>1. W \in SUBSET Zones /\ \A z \in Zones : assigned[z] = c => z \in W
    OBVIOUS
  <2>2. publication' = [publication EXCEPT ![c] = Opened(W)] /\ UNCHANGED assigned
    BY <1>3 DEF BeginPublication, zoneVars
  <2> HIDE DEF W
  <2> QED
    BY <1>1, <2>1, <2>2, FreshPublications DEF Publishers
<1>4. ASSUME NEW s \in Schedules, NEW W \in SUBSET Zones, BeginSchedulePublication(s, W)
      PROVE  NoZoneForgotten'
  <2>1. \A z \in Zones : assigned[z] # s
    BY ZoneAssumption DEF TypeOK
  <2> QED
    BY <1>1, <1>4, <2>1, FreshPublications DEF BeginSchedulePublication, zoneVars, Publishers
<1>5. ASSUME NEW x \in Publishers, NEW z \in Zones, RebuildZone(x, z) PROVE NoZoneForgotten'
  <2>1. PICK row \in Snapshots :
            /\ row.version = snapshotVersion[z] + 1
            /\ row.channel = assigned[z]
            /\ row.channelVersion = VersionSeen(x, assigned[z])
            /\ WithRow(x, z, row) \in Publications
            /\ publication' = [publication EXCEPT ![x] = WithRow(x, z, row)]
    BY <1>5, RebuiltRow
  <2>2. row # None /\ publication[x] \in Publications
    BY <2>1, ZoneAssumption DEF TypeOK
  <2> DEFINE p == WithRow(x, z, row)
  <2>4. publication' = [publication EXCEPT ![x] = p] /\ UNCHANGED assigned
    BY <1>5, <2>1 DEF RebuildZone, zoneVars
  <2>5. z \in publication[x].todo /\ publication[x].open
    BY <1>5 DEF RebuildZone, NoZoneForgotten
  <2>6. ASSUME NEW z2 \in Zones, assigned[z2] = x PROVE z2 \in p.todo \/ p.rows[z2] # None
    <3>1. x \in Channels
      BY <2>6, ZoneAssumption DEF TypeOK, Publishers
    <3>2. z2 \in publication[x].todo \/ publication[x].rows[z2] # None
      BY <2>5, <2>6, <3>1 DEF NoZoneForgotten, Rebuilding
    <3>3. publication[x].rows \in [Zones -> Snapshots \cup {None}]
      BY <2>2 DEF Publications
    <3> QED
      BY <2>2, <3>2, <3>3 DEF WithRow
  <2> QED
    BY <1>1, <2>1, <2>4, <2>6 DEF WithRow
<1>6. ASSUME NEW c \in Channels, CommitChannel(c) PROVE NoZoneForgotten'
  BY <1>2, <1>6 DEF CommitChannel, InstallRebuilt, Publishers
<1>7. ASSUME NEW s \in Schedules, CommitSchedule(s) PROVE NoZoneForgotten'
  BY <1>2, <1>7 DEF CommitSchedule, InstallRebuilt, Publishers
<1>8. ASSUME NEW x \in Publishers, RollBackPublication(x) PROVE NoZoneForgotten'
  BY <1>2, <1>8 DEF RollBackPublication, zoneVars
<1>9. ASSUME NEW z \in Zones, AssignChannelToZone(z) PROVE NoZoneForgotten'
  <2>1. assigning[z] \in Channels /\ ~publication[assigning[z]].open
    <3> DEFINE c == assigning[z]
    <3>1. c \in Channels /\ c # None /\ c \in Publishers \ {None}
      BY <1>9, ZoneAssumption DEF AssignChannelToZone, TypeOK, Publishers
    <3>2. ChannelFree(None, c)
      BY <1>9 DEF AssignChannelToZone, Assignable
    <3> QED
      BY <3>1, <3>2 DEF ChannelFree
  <2>2. /\ publication' = publication
        /\ \A z2 \in Zones : assigned'[z2] = IF z2 = z THEN assigning[z] ELSE assigned[z2]
    BY <1>9 DEF AssignChannelToZone, TypeOK
  <2> QED
    BY <2>1, <2>2 DEF NoZoneForgotten, Rebuilding
<1>10. ASSUME NEW z \in Zones, UnassignChannelFromZone(z) PROVE NoZoneForgotten'
  <2>1. /\ publication' = publication
        /\ \A z2 \in Zones : assigned'[z2] = IF z2 = z THEN None ELSE assigned[z2]
    BY <1>10 DEF UnassignChannelFromZone, TypeOK
  <2> QED
    BY <2>1, ZoneAssumption DEF NoZoneForgotten, Rebuilding
<1> QED
  BY <1>0, <1>3, <1>4, <1>5, <1>6, <1>7, <1>8, <1>9, <1>10 DEF Next, vars, zoneVars, ArchiveChannel,
     ReactivateChannel, PublishUnchanged, ScheduleMoves, BeginAssignment, EndAssignment, AskRuntime,
     CompareSchedule, UseManifest, MissManifest, RollOver, BuildManifest, Finish, EndRequest

LEMMA RoomStep ==
    ASSUME TypeOK, NoZoneForgotten, RoomLeft, [Next]_vars
    PROVE  RoomLeft'
<1>0. CASE UNCHANGED <<published, issued, publication>>
  BY <1>0 DEF RoomLeft
<1>1. ASSUME NEW x \in Publishers, NEW p \in Publications, publication' = [publication EXCEPT ![x] = p],
             UNCHANGED <<published, issued>>,
             p.open => \/ publication[x].open
                       \/ x \in Channels /\ published[x] < MaxPublished
                       \/ x \in Schedules /\ issued[x] < MaxSchedule
      PROVE  RoomLeft'
  <2>1. \A y \in Publishers : publication'[y] = IF y = x THEN p ELSE publication[y]
    BY <1>1 DEF TypeOK
  <2> QED
    BY <1>1, <2>1, ZoneAssumption DEF RoomLeft, Publishers
<1>2. ASSUME NEW c \in Channels, BeginPublication(c) PROVE RoomLeft'
  BY <1>1, <1>2, FreshPublications DEF BeginPublication, channelVars, scheduleVars, Publishers
<1>3. ASSUME NEW s \in Schedules, NEW W \in SUBSET Zones, BeginSchedulePublication(s, W) PROVE RoomLeft'
  BY <1>1, <1>3, FreshPublications DEF BeginSchedulePublication, channelVars, scheduleVars, Publishers
<1>4. ASSUME NEW x \in Publishers, RollBackPublication(x) PROVE RoomLeft'
  BY <1>1, <1>4, FreshPublications DEF RollBackPublication, channelVars, scheduleVars
<1>5. ASSUME NEW x \in Publishers, NEW z \in Zones, RebuildZone(x, z) PROVE RoomLeft'
  <2>1. \A y \in Publishers : publication'[y].open => publication[y].open
    <3>1. publication[x].open /\ \A y \in Publishers \ {x} : publication'[y] = publication[y]
      BY <1>5 DEF RebuildZone, NoZoneForgotten, TypeOK
    <3> QED
      BY <3>1
  <2> QED
    BY <1>5, <2>1 DEF RebuildZone, RoomLeft, channelVars, scheduleVars, Publishers
<1>6. ASSUME NEW c \in Channels, CommitChannel(c) PROVE RoomLeft'
  <2>1. \A y \in Publishers : publication'[y] = IF y = c THEN Idle ELSE publication[y]
    BY <1>6 DEF CommitChannel, InstallRebuilt, TypeOK
  <2>2. issued' = issued /\ \A c2 \in Channels : c2 # c => published'[c2] = published[c2]
    BY <1>6 DEF CommitChannel, scheduleVars, TypeOK
  <2> QED
    BY <2>1, <2>2, FreshPublications, ZoneAssumption DEF RoomLeft, Publishers
<1>7. ASSUME NEW s \in Schedules, CommitSchedule(s) PROVE RoomLeft'
  <2>1. \A y \in Publishers : publication'[y] = IF y = s THEN Idle ELSE publication[y]
    BY <1>7 DEF CommitSchedule, InstallRebuilt, TypeOK
  <2>2. published' = published /\ \A s2 \in Schedules : s2 # s => issued'[s2] = issued[s2]
    BY <1>7 DEF CommitSchedule, channelVars, TypeOK
  <2> QED
    BY <2>1, <2>2, FreshPublications, ZoneAssumption DEF RoomLeft, Publishers
<1> QED
  BY <1>0, <1>2, <1>3, <1>4, <1>5, <1>6, <1>7 DEF Next, vars, channelVars, scheduleVars, ArchiveChannel,
     ReactivateChannel, PublishUnchanged, ScheduleMoves, BeginAssignment, EndAssignment,
     AssignChannelToZone, UnassignChannelFromZone, AskRuntime, CompareSchedule, UseManifest,
     MissManifest, RollOver, BuildManifest, Finish, EndRequest

----------------------------------------------------------------------------
(* The configuration of a zone *)

\* What the zone of an assignment, or of a rollover, is left with.
LEMMA InstalledZone ==
    ASSUME TypeOK, ReadyIssued, NEW z \in Zones, NEW c \in Channels \cup {None},
           Install(z, NewSnapshot(z, c, scheduled[z], None))
    PROVE  /\ NewSnapshot(z, c, scheduled[z], None).version = snapshotVersion[z] + 1
           /\ NewSnapshot(z, c, scheduled[z], None).channel = c
           /\ c # None => NewSnapshot(z, c, scheduled[z], None).channelVersion = published[c]
           /\ ready'[z] = {NewSnapshot(z, c, scheduled[z], None)}
           /\ snapshotVersion'[z] = snapshotVersion[z] + 1
           /\ \A y \in Zones \ {z} : ready'[y] = ready[y] /\ snapshotVersion'[y] = snapshotVersion[y]
<1> DEFINE row == NewSnapshot(z, c, scheduled[z], None)
<1>1. /\ row \in Snapshots /\ row.version = snapshotVersion[z] + 1 /\ row.channel = c
      /\ row.channelVersion = VersionSeen(None, c)
  <2>1. scheduled[z] \in Timetables \cup {None}
    BY DEF TypeOK
  <2> QED
    BY <2>1, NewSnapshotFields
<1>2. Superseding(ready[z], row) = {row}
  BY <1>1, NextSupersedesAll
<1>3. c # None => row.channelVersion = published[c]
  BY <1>1 DEF VersionSeen
<1> HIDE DEF row
<1>4. /\ ready'[z] = {row} /\ snapshotVersion'[z] = snapshotVersion[z] + 1
      /\ \A y \in Zones \ {z} : ready'[y] = ready[y] /\ snapshotVersion'[y] = snapshotVersion[y]
  BY <1>1, <1>2 DEF Install, TypeOK, row
<1> QED
  BY <1>1, <1>3, <1>4 DEF row

\* In every zone, a step leaves the READY rows and the highest version alone or issues one
\* row.
LEMMA ZoneStep ==
    ASSUME TypeOK, PendingRows, ReadyIssued, [Next]_vars, NEW z \in Zones
    PROVE  \/ ready'[z] = ready[z] /\ snapshotVersion'[z] = snapshotVersion[z]
           \/ \E row \in Snapshots :
                /\ ready'[z] = {row}
                /\ row.version = snapshotVersion[z] + 1
                /\ snapshotVersion'[z] = snapshotVersion[z] + 1
<1> DEFINE Kept == ready'[z] = ready[z] /\ snapshotVersion'[z] = snapshotVersion[z]
           Issued == \E row \in Snapshots :
                        /\ ready'[z] = {row}
                        /\ row.version = snapshotVersion[z] + 1
                        /\ snapshotVersion'[z] = snapshotVersion[z] + 1
           Goal == Kept \/ Issued
<1>0. CASE UNCHANGED zoneVars
  BY <1>0 DEF zoneVars
<1>1. ASSUME NEW x \in Publishers, InstallRebuilt(x) PROVE Goal
  <2>1. CASE z \in Rebuilt(x)
    <3>1. publication[x].rows[z].version = snapshotVersion[z] + 1
      BY <2>1 DEF Rebuilt, Rebuilding, PendingRows
    <3> QED
      BY <1>1, <2>1, <3>1, RebuiltZones
  <2>2. CASE z \notin Rebuilt(x)
    BY <1>1, <2>2, RebuiltZones
  <2> QED
    BY <2>1, <2>2
<1>2. ASSUME NEW y \in Zones, NEW c \in Channels \cup {None}, Install(y, NewSnapshot(y, c, scheduled[y], None)) PROVE Goal
  <2>1. CASE y = z
    <3>1. scheduled[z] \in Timetables \cup {None}
      BY DEF TypeOK
    <3> QED
      BY <1>2, <2>1, <3>1, InstalledZone, NewSnapshotFields
  <2>2. CASE y # z
    BY <1>2, <2>2, InstalledZone
  <2> QED
    BY <2>1, <2>2
<1>3. ASSUME NEW c \in Channels, CommitChannel(c) PROVE Goal
  BY <1>1, <1>3 DEF CommitChannel, Publishers
<1>4. ASSUME NEW s \in Schedules, CommitSchedule(s) PROVE Goal
  BY <1>1, <1>4 DEF CommitSchedule, Publishers
<1>5. ASSUME NEW y \in Zones, AssignChannelToZone(y) PROVE Goal
  BY <1>2, <1>5 DEF AssignChannelToZone, TypeOK
<1>6. ASSUME NEW y \in Zones, UnassignChannelFromZone(y) PROVE Goal
  BY <1>2, <1>6 DEF UnassignChannelFromZone
<1>7. ASSUME NEW d \in Devices, NEW status, RollOver(d, status) PROVE Goal
  <2>1. ZoneOf[d] \in Zones
    BY ZoneAssumption
  <2>2. assigned[ZoneOf[d]] \in Channels \cup {None}
    BY <2>1 DEF TypeOK
  <2> QED
    BY <1>2, <1>7, <2>1, <2>2 DEF RollOver
<1> QED
  BY <1>0, <1>3, <1>4, <1>5, <1>6, <1>7 DEF Next, vars, zoneVars, ArchiveChannel, ReactivateChannel,
     PublishUnchanged, BeginPublication, BeginSchedulePublication, RollBackPublication, RebuildZone,
     ScheduleMoves, BeginAssignment, EndAssignment, AskRuntime, CompareSchedule, UseManifest,
     MissManifest, BuildManifest, Finish, EndRequest

LEMMA ReadyIssuedStep ==
    ASSUME TypeOK, PendingRows, ReadyIssued, [Next]_vars
    PROVE  ReadyIssued'
<1> SUFFICES ASSUME NEW z \in Zones, NEW r \in ready'[z] PROVE r.version <= snapshotVersion'[z]
  BY DEF ReadyIssued
<1>1. snapshotVersion[z] \in Nat
  BY ZoneAssumption DEF TypeOK
<1> QED
  BY <1>1, ZoneStep DEF ReadyIssued

\* A manifest supersedes the READY one of its zone.
LEMMA ManifestStep ==
    ASSUME TypeOK, ManifestsIssued, [Next]_vars, NEW z \in Zones
    PROVE  \/ manifests'[z] = manifests[z] /\ manifestVersion'[z] = manifestVersion[z]
           \/ \E m : /\ m.version = manifestVersion[z] + 1
                     /\ manifestVersion'[z] = manifestVersion[z] + 1
                     /\ manifests'[z] = {old \in manifests[z] : old.status # "READY"} \cup {m}
<1> DEFINE Kept == manifests'[z] = manifests[z] /\ manifestVersion'[z] = manifestVersion[z]
           Issued == \E m : /\ m.version = manifestVersion[z] + 1
                            /\ manifestVersion'[z] = manifestVersion[z] + 1
                            /\ manifests'[z] = {old \in manifests[z] : old.status # "READY"} \cup {m}
           Goal == Kept \/ Issued
<1>0. CASE UNCHANGED manifestVars
  BY <1>0 DEF manifestVars
<1>1. ASSUME NEW y \in Zones, NEW status, NEW snapshot, NewManifest(y, status, snapshot) PROVE Goal
  <2> DEFINE m == [version |-> manifestVersion[y] + 1, status |-> status, snapshot |-> snapshot]
  <2>1. m.version = manifestVersion[y] + 1
    OBVIOUS
  <2> HIDE DEF m
  <2>2. \A w \in Zones : /\ manifestVersion'[w] = IF w = y THEN manifestVersion[y] + 1 ELSE manifestVersion[w]
                         /\ manifests'[w] = IF w = y THEN {old \in manifests[y] : old.status # "READY"} \cup {m}
                                                     ELSE manifests[w]
    BY <1>1 DEF NewManifest, TypeOK, m
  <2> QED
    BY <2>1, <2>2
<1>2. ASSUME NEW d \in Devices, NEW status, RollOver(d, status) PROVE Goal
  BY <1>1, <1>2, ZoneAssumption DEF RollOver
<1>3. ASSUME NEW d \in Devices, NEW status, BuildManifest(d, status) PROVE Goal
  BY <1>1, <1>3, ZoneAssumption DEF BuildManifest
<1> QED
  BY <1>0, <1>2, <1>3 DEF Next, vars, manifestVars, ArchiveChannel, ReactivateChannel,
     PublishUnchanged, BeginPublication, CommitChannel, BeginSchedulePublication, CommitSchedule,
     RollBackPublication, RebuildZone, ScheduleMoves, BeginAssignment, EndAssignment,
     AssignChannelToZone, UnassignChannelFromZone, AskRuntime, CompareSchedule, UseManifest,
     MissManifest, Finish, EndRequest

LEMMA ManifestsIssuedStep ==
    ASSUME TypeOK, ManifestsIssued, [Next]_vars
    PROVE  ManifestsIssued'
<1> SUFFICES ASSUME NEW z \in Zones, NEW m \in manifests'[z] PROVE m.version <= manifestVersion'[z]
  BY DEF ManifestsIssued
<1>1. manifestVersion[z] \in Nat /\ \A old \in manifests[z] : old.version \in Nat
  BY ZoneAssumption DEF TypeOK, Manifests
<1> QED
  BY <1>1, ManifestStep DEF ManifestsIssued

LEMMA OneReadyStep ==
    ASSUME TypeOK, PendingRows, ReadyIssued, ManifestsIssued, OneReadyPerZone, [Next]_vars
    PROVE  OneReadyPerZone'
<1>1. ASSUME NEW z \in Zones PROVE \A r1, r2 \in ready'[z] : r1 = r2
  BY ZoneStep DEF OneReadyPerZone
<1>2. ASSUME NEW z \in Zones, NEW m1 \in manifests'[z], NEW m2 \in manifests'[z],
             m1.status = "READY", m2.status = "READY"
      PROVE  m1 = m2
  BY <1>2, ManifestStep DEF OneReadyPerZone
<1> QED
  BY <1>1, <1>2 DEF OneReadyPerZone

LEMMA PlaysStep ==
    ASSUME TypeOK, PendingRows, NoZoneForgotten, ReadyIssued, ZonePlaysWhatWasPublished, [Next]_vars
    PROVE  ZonePlaysWhatWasPublished'
<1>0. CASE UNCHANGED <<assigned, ready, published>>
  BY <1>0 DEF ZonePlaysWhatWasPublished
<1>1. ASSUME NEW x \in Publishers, InstallRebuilt(x), UNCHANGED assigned,
             \A c \in Channels : published'[c] = IF c = x THEN published[c] + 1 ELSE published[c]
      PROVE  ZonePlaysWhatWasPublished'
  <2> SUFFICES ASSUME NEW z \in Zones
               PROVE  /\ assigned[z] # None => ready'[z] # {}
                      /\ \A r \in ready'[z] :
                            /\ r.channel = assigned[z]
                            /\ assigned[z] # None => r.channelVersion = published'[assigned[z]]
    BY <1>1 DEF ZonePlaysWhatWasPublished
  <2>1. assigned[z] \in Channels \cup {None}
    BY DEF TypeOK
  <2>2. CASE z \in Rebuilt(x)
    <3>1. Rebuilding(x, z) /\ ready'[z] = {publication[x].rows[z]}
      BY <1>1, <2>2, RebuiltZones DEF Rebuilt, Rebuilding
    <3>2. /\ publication[x].rows[z].channel = assigned[z]
          /\ assigned[z] # None => publication[x].rows[z].channelVersion = VersionSeen(x, assigned[z])
      BY <3>1 DEF PendingRows
    <3>3. assigned[z] # None => VersionSeen(x, assigned[z]) = published'[assigned[z]]
      BY <1>1, <2>1 DEF VersionSeen
    <3> QED
      BY <3>1, <3>2, <3>3
  <2>3. CASE z \notin Rebuilt(x)
    <3>1. publication[x].open /\ publication[x].todo = {} /\ ~Rebuilding(x, z)
      BY <1>1, <2>3 DEF InstallRebuilt, Rebuilt, Rebuilding
    <3>2. assigned[z] \in Channels => assigned[z] # x
      BY <3>1 DEF NoZoneForgotten
    <3>3. assigned[z] # None => published'[assigned[z]] = published[assigned[z]]
      BY <1>1, <2>1, <3>2
    <3>4. ready'[z] = ready[z]
      BY <1>1, <2>3, RebuiltZones
    <3> QED
      BY <3>3, <3>4 DEF ZonePlaysWhatWasPublished
  <2> QED
    BY <2>2, <2>3
<1>2. ASSUME NEW z \in Zones, NEW c \in Channels \cup {None}, Install(z, NewSnapshot(z, c, scheduled[z], None)),
             assigned'[z] = c, \A y \in Zones \ {z} : assigned'[y] = assigned[y],
             published' = published
      PROVE  ZonePlaysWhatWasPublished'
  <2>1. \A y \in Zones \ {z} : ready'[y] = ready[y]
    BY <1>2, InstalledZone
  <2>2. /\ ready'[z] = {NewSnapshot(z, c, scheduled[z], None)} /\ NewSnapshot(z, c, scheduled[z], None).channel = c
        /\ c # None => NewSnapshot(z, c, scheduled[z], None).channelVersion = published[c]
    BY <1>2, InstalledZone
  <2> QED
    BY <1>2, <2>1, <2>2 DEF ZonePlaysWhatWasPublished
<1>3. ASSUME NEW c \in Channels, CommitChannel(c) PROVE ZonePlaysWhatWasPublished'
  <2>1. \A c2 \in Channels : published'[c2] = IF c2 = c THEN published[c2] + 1 ELSE published[c2]
    BY <1>3 DEF CommitChannel, TypeOK
  <2> QED
    BY <1>1, <1>3, <2>1 DEF CommitChannel, Publishers
<1>4. ASSUME NEW s \in Schedules, CommitSchedule(s) PROVE ZonePlaysWhatWasPublished'
  <2>1. \A c \in Channels : published'[c] = IF c = s THEN published[c] + 1 ELSE published[c]
    BY <1>4, ZoneAssumption DEF CommitSchedule, channelVars
  <2> QED
    BY <1>1, <1>4, <2>1 DEF CommitSchedule, Publishers
<1>5. ASSUME NEW z \in Zones, AssignChannelToZone(z) PROVE ZonePlaysWhatWasPublished'
  <2>1. /\ assigning[z] \in Channels \cup {None} /\ published' = published
        /\ assigned'[z] = assigning[z] /\ \A y \in Zones \ {z} : assigned'[y] = assigned[y]
    BY <1>5 DEF AssignChannelToZone, TypeOK, channelVars
  <2> QED
    BY <1>2, <1>5, <2>1 DEF AssignChannelToZone
<1>6. ASSUME NEW z \in Zones, UnassignChannelFromZone(z) PROVE ZonePlaysWhatWasPublished'
  <2>1. /\ published' = published
        /\ assigned'[z] = None /\ \A y \in Zones \ {z} : assigned'[y] = assigned[y]
    BY <1>6 DEF UnassignChannelFromZone, TypeOK, channelVars
  <2> QED
    BY <1>2, <1>6, <2>1 DEF UnassignChannelFromZone
<1>7. ASSUME NEW d \in Devices, NEW status, RollOver(d, status) PROVE ZonePlaysWhatWasPublished'
  <2>1. ZoneOf[d] \in Zones /\ assigned' = assigned /\ published' = published
    BY <1>7, ZoneAssumption DEF RollOver, channelVars
  <2>2. assigned[ZoneOf[d]] \in Channels \cup {None}
    BY <2>1 DEF TypeOK
  <2> QED
    BY <1>2, <1>7, <2>1, <2>2 DEF RollOver
<1> QED
  BY <1>0, <1>3, <1>4, <1>5, <1>6, <1>7 DEF Next, vars, channelVars, zoneVars, ArchiveChannel,
     ReactivateChannel, PublishUnchanged, BeginPublication, BeginSchedulePublication,
     RollBackPublication, RebuildZone, ScheduleMoves, BeginAssignment, EndAssignment, AskRuntime,
     CompareSchedule, UseManifest, MissManifest, BuildManifest, Finish, EndRequest

LEMMA ArchivedStep ==
    ASSUME TypeOK, ArchivedChannelNotInUse, [Next]_vars
    PROVE  ArchivedChannelNotInUse'
<1>0. CASE UNCHANGED <<assigned, channelStatus>>
  BY <1>0 DEF ArchivedChannelNotInUse
<1>1. ASSUME NEW c \in Channels, ArchiveChannel(c) PROVE ArchivedChannelNotInUse'
  <2>1. \A z \in Zones : assigned[z] # c
    BY <1>1 DEF ArchiveChannel, InUse
  <2> QED
    BY <1>1, <2>1 DEF ArchiveChannel, ArchivedChannelNotInUse, TypeOK, zoneVars
<1>2. ASSUME NEW c \in Channels, ReactivateChannel(c) \/ PublishUnchanged(c) \/ CommitChannel(c)
      PROVE  ArchivedChannelNotInUse'
  <2>1. assigned' = assigned /\ \A c2 \in Channels : \/ channelStatus'[c2] = channelStatus[c2]
                                                     \/ channelStatus'[c2] # "ARCHIVED"
    BY <1>2 DEF ReactivateChannel, PublishUnchanged, CommitChannel, TypeOK, zoneVars
  <2> QED
    BY <2>1 DEF ArchivedChannelNotInUse, TypeOK
<1>3. ASSUME NEW z \in Zones, AssignChannelToZone(z) PROVE ArchivedChannelNotInUse'
  <2>1. channelStatus' = channelStatus /\ channelStatus[assigning[z]] # "ARCHIVED"
    BY <1>3 DEF AssignChannelToZone, Assignable, channelVars
  <2>2. \A y \in Zones : assigned'[y] = IF y = z THEN assigning[z] ELSE assigned[y]
    BY <1>3 DEF AssignChannelToZone, TypeOK
  <2> QED
    BY <2>1, <2>2 DEF ArchivedChannelNotInUse
<1>4. ASSUME NEW z \in Zones, UnassignChannelFromZone(z) PROVE ArchivedChannelNotInUse'
  BY <1>4 DEF UnassignChannelFromZone, ArchivedChannelNotInUse, TypeOK, channelVars
<1> QED
  BY <1>0, <1>1, <1>2, <1>3, <1>4 DEF Next, vars, channelVars, zoneVars, BeginPublication,
     BeginSchedulePublication, CommitSchedule, RollBackPublication, RebuildZone, ScheduleMoves,
     BeginAssignment, EndAssignment, AskRuntime, CompareSchedule, UseManifest, MissManifest,
     RollOver, BuildManifest, Finish, EndRequest

----------------------------------------------------------------------------
(* The invariant *)

LEMMA StepInvariant == IInv /\ [Next]_vars => IInv'
<1> SUFFICES ASSUME IInv, [Next]_vars PROVE IInv'
  OBVIOUS
<1> USE DEF IInv
<1>1. TypeOK'
  BY ChannelTypeStep, ZoneTypeStep, ManifestTypeStep, ScheduledStep, PublicationTypeStep,
     AssigningTypeStep, RequestStep DEF TypeOK
<1>2. PendingRows' /\ NoZoneForgotten' /\ RoomLeft'
  BY PendingStep, ForgottenStep, RoomStep
<1>3. ReadyIssued' /\ ManifestsIssued' /\ RequestKnows'
  BY ReadyIssuedStep, ManifestsIssuedStep, RequestStep
<1>4. OneReadyPerZone' /\ ZonePlaysWhatWasPublished' /\ ArchivedChannelNotInUse'
  BY OneReadyStep, PlaysStep, ArchivedStep
<1> QED
  BY <1>1, <1>2, <1>3, <1>4

\* The parts of the invariant hold together in every state.
THEOREM ZoneInvariant == Spec => []IInv
BY InitInvariant, StepInvariant, PTL DEF Spec

\* Every state is well typed: a channel that is PUBLISHED has a version.
THEOREM ZoneTypeCorrect == Spec => []TypeOK
<1>1. IInv => TypeOK
  BY DEF IInv
<1> QED
  BY <1>1, ZoneInvariant, PTL

\* A zone never has two operational snapshots or two manifests in force, whichever
\* publications, assignments and rollovers overlap.
THEOREM OneConfigurationPerZone == Spec => []OneReadyPerZone
<1>1. IInv => OneReadyPerZone
  BY DEF IInv
<1> QED
  BY <1>1, ZoneInvariant, PTL

\* The configuration in force in a zone is of its channel, in the version last published.
THEOREM ZoneUpToDate == Spec => []ZonePlaysWhatWasPublished
<1>1. IInv => ZonePlaysWhatWasPublished
  BY DEF IInv
<1> QED
  BY <1>1, ZoneInvariant, PTL

\* No zone is left with an archived channel.
THEOREM NoArchivedChannel == Spec => []ArchivedChannelNotInUse
<1>1. IInv => ArchivedChannelNotInUse
  BY DEF IInv
<1> QED
  BY <1>1, ZoneInvariant, PTL

\* A device is answered with a schedule that was in effect in its zone during its request.
THEOREM AnswersWereInEffect == Spec => []AnsweredScheduleWasInEffect
<1>1. IInv => AnsweredScheduleWasInEffect
  BY DEF IInv, RequestKnows, AnsweredScheduleWasInEffect
<1> QED
  BY <1>1, ZoneInvariant, PTL
=============================================================================
