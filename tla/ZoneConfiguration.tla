------------------------- MODULE ZoneConfiguration -------------------------
(***************************************************************************)
(* How a published channel reaches the players of a zone: channels and     *)
(* playlists (apps/playlists/services.py), their assignment to zones, the  *)
(* operational snapshots and manifests of a zone and the runtime a device  *)
(* is answered with (apps/playback/services.py), and the publication of a  *)
(* schedule as far as zones are concerned (apps/scheduling/services.py).   *)
(*                                                                         *)
(* A publication locks its channel or schedule and then, one by one, the   *)
(* zones it rebuilds; an assignment locks its zone and then the channel; a *)
(* runtime reads before it locks the zone.  A rebuild joins the site, the  *)
(* company and the channel of the zone and locks them too.  What a         *)
(* transaction writes is seen by the others when it commits.  Once a       *)
(* transaction needs no more locks but those it takes at once it is a      *)
(* single action.                                                          *)
(*                                                                         *)
(* Requests with a stale expected_revision write nothing and are left out; *)
(* zones and their sites stay open; channels exist from the start; a       *)
(* device stays in its zone.  The schedule in effect and its latest        *)
(* snapshot, two reads in the code, are read at one moment.  The contents  *)
(* of a channel, which its editors and those of its playlists change at    *)
(* any time, are left out: a publication finds them as it likes,           *)
(* publishable or not, changed since the last version or not.  Superseded  *)
(* rows are never read again and are not kept.                             *)
(***************************************************************************)
EXTENDS Naturals, FiniteSets

CONSTANTS
    Zones, Channels, Schedules, Devices,
    ZoneOf,            \* Device.zone
    SiteOf, CompanyOf, \* Zone.site, Zone.company
    MaxPublished,      \* bounds of the exploration: versions of a channel,
    MaxSnapshot,       \* operational snapshots and
    MaxManifest,       \* manifests of a zone,
    MaxSchedule,       \* versions of a schedule
    None

VARIABLES
    channelStatus,
    published,        \* the version of a channel's latest ChannelSnapshot, 0 without
    assigned,         \* the channel of the zone's open ZoneChannelAssignment
    ready,            \* the zone's READY operational snapshots
    snapshotVersion,  \* the zone's highest operational snapshot version
    manifests,        \* the zone's READY and ERROR manifests
    manifestVersion,  \* the zone's highest manifest version
    scheduled,        \* the latest snapshot of the schedule in effect in a zone, or None
    issued,           \* the version of a schedule's latest ScheduleSnapshot, 0 without
    publication,      \* publications under way, with a lock on their channel or schedule
    assigning,        \* assignments that have locked their zone
    request           \* runtime requests, with a lock on their device

channelVars == <<channelStatus, published>>
zoneVars == <<assigned, ready, snapshotVersion>>
manifestVars == <<manifests, manifestVersion>>
scheduleVars == <<scheduled, issued>>
vars == <<channelVars, zoneVars, manifestVars, scheduleVars, publication, assigning, request>>

Publishers == Channels \cup Schedules
StatusValues == {"DRAFT", "PUBLISHED", "ARCHIVED"}

\* ScheduleSnapshot.
Timetables == [schedule : Schedules, version : Nat]

\* ZoneOperationalSnapshot: a version per zone and what it froze.
Snapshots == [version : Nat, channel : Channels \cup {None}, channelVersion : Nat,
              schedule : Timetables \cup {None}]
Manifests == [version : Nat, status : {"READY", "ERROR"}, snapshot : Nat]

ASSUME ZoneAssumption ==
    /\ ZoneOf \in [Devices -> Zones]
    /\ Channels \cap Schedules = {}
    /\ None \notin Channels \cup Schedules
    /\ \A max \in {MaxPublished, MaxSnapshot, MaxManifest, MaxSchedule} : max \in Nat
    /\ None \notin Timetables \cup Snapshots

\* What a publication will write: the zones that are still to be rebuilt and the new row
\* of each zone it has rebuilt and locked.
Publications == [open : BOOLEAN, todo : SUBSET Zones, rows : [Zones -> Snapshots \cup {None}]]
Idle == [open |-> FALSE, todo |-> {}, rows |-> [z \in Zones |-> None]]
Opened(W) == [Idle EXCEPT !.open = TRUE, !.todo = W]

NoRequest == [stage |-> "idle", snapshot |-> None, during |-> {}]
Stages == {"idle", "read", "current", "outdated", "building", "answered"}
Requests == [stage : Stages, snapshot : Snapshots \cup {None},
             during : SUBSET (Timetables \cup {None})]

TypeOK ==
    /\ channelStatus \in [Channels -> StatusValues]
    /\ published \in [Channels -> 0..MaxPublished]
    /\ \A c \in Channels : channelStatus[c] = "PUBLISHED" => published[c] > 0
    /\ assigned \in [Zones -> Channels \cup {None}]
    /\ ready \in [Zones -> SUBSET Snapshots]
    /\ snapshotVersion \in [Zones -> 0..MaxSnapshot]
    /\ manifests \in [Zones -> SUBSET Manifests]
    /\ manifestVersion \in [Zones -> 0..MaxManifest]
    /\ scheduled \in [Zones -> Timetables \cup {None}]
    /\ issued \in [Schedules -> 0..MaxSchedule]
    /\ publication \in [Publishers -> Publications]
    /\ assigning \in [Zones -> Channels \cup {None}]
    /\ request \in [Devices -> Requests]

Init ==
    /\ channelStatus = [c \in Channels |-> "DRAFT"]
    /\ published = [c \in Channels |-> 0]
    /\ assigned = [z \in Zones |-> None]
    /\ ready = [z \in Zones |-> {}]
    /\ snapshotVersion = [z \in Zones |-> 0]
    /\ manifests = [z \in Zones |-> {}]
    /\ manifestVersion = [z \in Zones |-> 0]
    /\ scheduled = [z \in Zones |-> None]
    /\ issued = [s \in Schedules |-> 0]
    /\ publication = [x \in Publishers |-> Idle]
    /\ assigning = [z \in Zones |-> None]
    /\ request = [d \in Devices |-> NoRequest]

----------------------------------------------------------------------------
(* Locks and the rows of a zone *)

\* create_zone_operational_snapshot keeps the zone, its site, its company and its channel
\* (select_related under select_for_update) until the publication ends.
Rebuilding(x, z) == publication[x].rows[z] # None
Rebuilt(x) == {z \in Zones : Rebuilding(x, z)}

ZoneFree(z) == assigning[z] = None /\ \A x \in Publishers : ~Rebuilding(x, z)
SiteFree(x, z) ==
    \A other \in Zones : SiteOf[other] = SiteOf[z] =>
        assigning[other] = None /\ \A y \in Publishers \ {x} : ~Rebuilding(y, other)
CompanyFree(x, z) ==
    \A other \in Zones : CompanyOf[other] = CompanyOf[z] =>
        \A y \in Publishers \ {x} : ~Rebuilding(y, other)
ChannelFree(x, c) ==
    c # None => \A y \in Publishers \ {x} :
        /\ y = c => ~publication[y].open
        /\ \A z \in Rebuilt(y) : publication[y].rows[z].channel # c

RebuildFree_NoLock(x, z, c) == TRUE
RebuildFree(x, z, c) == SiteFree(x, z) /\ CompanyFree(x, z) /\ ChannelFree(x, c)

\* The version of a zone's channel, as transaction x sees it: what it has published
\* itself, else what is committed.
VersionSeen(x, c) ==
    IF c = None THEN 0 ELSE IF c = x THEN published[c] + 1 ELSE published[c]

Latest(s) == [schedule |-> s, version |-> issued[s]]
NextTimetable(s) == [schedule |-> s, version |-> issued[s] + 1]

\* The schedules that may be in effect in a zone when transaction x looks.
InEffect(x, z) ==
    IF x \in Schedules THEN {NextTimetable(x), scheduled[z]} \ {Latest(x)} ELSE {scheduled[z]}

\* create_zone_operational_snapshot, for channel c and schedule t, seen from transaction x.
NewSnapshot(z, c, t, x) ==
    [version |-> snapshotVersion[z] + 1, channel |-> c,
     channelVersion |-> VersionSeen(x, c), schedule |-> t]

\* The READY rows of a zone once row is among them: those it found are superseded.
Superseding(rows, row) == {r \in rows : r.version >= row.version} \cup {row}

Install(z, row) ==
    /\ ready' = [ready EXCEPT ![z] = Superseding(@, row)]
    /\ snapshotVersion' = [snapshotVersion EXCEPT ![z] = row.version]

Highest(rows) == CHOOSE r \in rows : \A other \in rows : other.version <= r.version

----------------------------------------------------------------------------
(* Channels *)

InUse(c) == \E z \in Zones : assigned[z] = c

ArchiveChannel(c) ==
    /\ ChannelFree(None, c)
    /\ ~InUse(c)
    /\ channelStatus' = [channelStatus EXCEPT ![c] = "ARCHIVED"]
    /\ UNCHANGED <<published, zoneVars, manifestVars, scheduleVars,
                   publication, assigning, request>>

ReactivateChannel_AsPublished(c) ==
    /\ ChannelFree(None, c)
    /\ channelStatus' = [channelStatus EXCEPT ![c] = "PUBLISHED"]
    /\ UNCHANGED <<published, zoneVars, manifestVars, scheduleVars, publication, assigning,
                   request>>

\* reactivate_channel: from any status.
ReactivateChannel(c) ==
    /\ ChannelFree(None, c)
    /\ channelStatus' = [channelStatus EXCEPT ![c] = "DRAFT"]
    /\ UNCHANGED <<published, zoneVars, manifestVars, scheduleVars,
                   publication, assigning, request>>

----------------------------------------------------------------------------
(* Publication *)

\* The contents are those of the latest version.
PublishUnchanged(c) ==
    /\ ChannelFree(None, c)
    /\ channelStatus[c] # "ARCHIVED"
    /\ published[c] > 0
    /\ channelStatus' = [channelStatus EXCEPT ![c] = "PUBLISHED"]
    /\ UNCHANGED <<published, zoneVars, manifestVars, scheduleVars, publication, assigning,
                   request>>

\* They are not: the channel is locked, its new version written, the zones that play it
\* looked up.  The version's rows are read after its checksum: a playlist published in
\* between makes the next publication find a change.
BeginPublication(c) ==
    /\ ChannelFree(None, c)
    /\ channelStatus[c] # "ARCHIVED"
    /\ published[c] < MaxPublished
    /\ publication' = [publication EXCEPT ![c] = Opened({z \in Zones : assigned[z] = c})]
    /\ UNCHANGED <<channelVars, zoneVars, manifestVars, scheduleVars, assigning, request>>

\* publish_schedule: W are the zones for which it is effective.
BeginSchedulePublication(s, W) ==
    /\ ~publication[s].open
    /\ issued[s] < MaxSchedule
    /\ publication' = [publication EXCEPT ![s] = Opened(W)]
    /\ UNCHANGED <<channelVars, zoneVars, manifestVars, scheduleVars, assigning, request>>

\* The next zone is locked and rebuilt as it is now.
RebuildZone(x, z) ==
    /\ z \in publication[x].todo
    /\ RebuildFree(x, z, assigned[z])
    /\ snapshotVersion[z] < MaxSnapshot
    /\ \E t \in InEffect(x, z) :
        publication' = [publication EXCEPT ![x] =
            [open |-> TRUE,
             todo |-> publication[x].todo \ {z},
             rows |-> [publication[x].rows EXCEPT ![z] = NewSnapshot(z, assigned[z], t, x)]]]
    /\ UNCHANGED <<channelVars, zoneVars, manifestVars, scheduleVars, assigning, request>>

InstallRebuilt(x) ==
    /\ publication[x].open /\ publication[x].todo = {}
    /\ ready' = [z \in Zones |-> IF z \in Rebuilt(x)
                    THEN Superseding(ready[z], publication[x].rows[z]) ELSE ready[z]]
    /\ snapshotVersion' = [z \in Zones |-> IF z \in Rebuilt(x)
                    THEN publication[x].rows[z].version ELSE snapshotVersion[z]]
    /\ publication' = [publication EXCEPT ![x] = Idle]

CommitChannel(c) ==
    /\ InstallRebuilt(c)
    /\ published' = [published EXCEPT ![c] = @ + 1]
    /\ channelStatus' = [channelStatus EXCEPT ![c] = "PUBLISHED"]
    /\ UNCHANGED <<assigned, manifestVars, scheduleVars, assigning, request>>

\* What a device with a request under way may be answered with, besides what it knew.
Knowing(newScheduled) ==
    [d \in Devices |-> IF request[d].stage = "idle" THEN request[d] ELSE
        [stage |-> request[d].stage, snapshot |-> request[d].snapshot,
         during |-> request[d].during \cup {newScheduled[ZoneOf[d]]}]]

CommitSchedule(s) ==
    /\ InstallRebuilt(s)
    /\ issued' = [issued EXCEPT ![s] = @ + 1]
    /\ scheduled' = [z \in Zones |->
            IF \/ scheduled[z] = Latest(s)
               \/ z \in Rebuilt(s) /\ publication[s].rows[z].schedule = NextTimetable(s)
            THEN NextTimetable(s) ELSE scheduled[z]]
    /\ request' = Knowing(scheduled')
    /\ UNCHANGED <<channelVars, assigned, manifestVars, assigning>>

\* A deadlock's victim, a lost connection, an error: nothing was written.
RollBackPublication(x) ==
    /\ publication[x].open
    /\ publication' = [publication EXCEPT ![x] = Idle]
    /\ UNCHANGED <<channelVars, zoneVars, manifestVars, scheduleVars, assigning, request>>

\* The clock, an assignment of schedules or an edit of a published schedule makes
\* another published schedule, or none, effective in a zone.
ScheduleMoves(z, t) ==
    /\ t # scheduled[z]
    /\ scheduled' = [scheduled EXCEPT ![z] = t]
    /\ request' = Knowing(scheduled')
    /\ UNCHANGED <<channelVars, zoneVars, manifestVars, issued, publication, assigning>>

----------------------------------------------------------------------------
(* Assignment *)

BeginAssignment(z, c) ==
    /\ SiteFree(None, z)
    /\ assigning' = [assigning EXCEPT ![z] = c]
    /\ UNCHANGED <<channelVars, zoneVars, manifestVars, scheduleVars, publication, request>>

Assignable_NoLock(c) == channelStatus[c] = "PUBLISHED" /\ published[c] > 0
Assignable_AnyStatus(c) == ChannelFree(None, c) /\ published[c] > 0
Assignable(c) == ChannelFree(None, c) /\ channelStatus[c] = "PUBLISHED" /\ published[c] > 0

\* assign_channel_to_zone, with its zone and site locked, locks the channel and then the
\* company, closes the open assignment, opens its own, rebuilds the zone and commits.
AssignChannelToZone(z) ==
    /\ assigning[z] # None
    /\ Assignable(assigning[z]) /\ CompanyFree(None, z)
    /\ assigned[z] # assigning[z]
    /\ snapshotVersion[z] < MaxSnapshot
    /\ assigned' = [assigned EXCEPT ![z] = assigning[z]]
    /\ Install(z, NewSnapshot(z, assigning[z], scheduled[z], None))
    /\ assigning' = [assigning EXCEPT ![z] = None]
    /\ UNCHANGED <<channelVars, manifestVars, scheduleVars, publication, request>>

\* It finds the channel assigned already, is refused, or rolled back.
EndAssignment(z) ==
    /\ assigning[z] # None
    /\ assigning' = [assigning EXCEPT ![z] = None]
    /\ UNCHANGED <<channelVars, zoneVars, manifestVars, scheduleVars, publication, request>>

UnassignChannelFromZone(z) ==
    /\ RebuildFree(None, z, None)
    /\ assigned[z] # None
    /\ snapshotVersion[z] < MaxSnapshot
    /\ assigned' = [assigned EXCEPT ![z] = None]
    /\ Install(z, NewSnapshot(z, None, scheduled[z], None))
    /\ UNCHANGED <<channelVars, manifestVars, scheduleVars, publication, assigning, request>>

----------------------------------------------------------------------------
(* The runtime of a device *)

Reach(d, stage, snapshot) ==
    request' = [request EXCEPT ![d] =
        [stage |-> stage, snapshot |-> snapshot, during |-> request[d].during]]

\* get_or_create_player_runtime locks the device and reads its zone's READY snapshot.
AskRuntime(d) ==
    /\ request[d].stage = "idle"
    /\ request' = [request EXCEPT ![d] = [stage |-> "read",
            snapshot |-> IF ready[ZoneOf[d]] = {} THEN None ELSE Highest(ready[ZoneOf[d]]),
            during |-> {scheduled[ZoneOf[d]]}]]
    /\ UNCHANGED <<channelVars, zoneVars, manifestVars, scheduleVars, publication, assigning>>

\* The snapshot is compared with the schedule in effect.
UpToDate_IfAny(d) == request[d].snapshot # None \/ scheduled[ZoneOf[d]] = None
UpToDate(d) ==
    IF request[d].snapshot = None THEN scheduled[ZoneOf[d]] = None
                                  ELSE request[d].snapshot.schedule = scheduled[ZoneOf[d]]
CompareSchedule(d) ==
    /\ request[d].stage = "read"
    /\ Reach(d, IF UpToDate(d) THEN "current" ELSE "outdated", request[d].snapshot)
    /\ UNCHANGED <<channelVars, zoneVars, manifestVars, scheduleVars, publication, assigning>>

\* create_manifest: READY when an asset is available, else ERROR.
NewManifest(z, status, snapshot) ==
    /\ manifestVersion[z] < MaxManifest
    /\ manifestVersion' = [manifestVersion EXCEPT ![z] = @ + 1]
    /\ manifests' = [manifests EXCEPT ![z] = {m \in @ : m.status # "READY"} \cup
            {[version |-> manifestVersion[z] + 1, status |-> status, snapshot |-> snapshot]}]

Answer(d, snapshot) == Reach(d, "answered", snapshot)

\* The zone is rebuilt, with a manifest for the new snapshot.
RollOver(d, status) ==
    LET z == ZoneOf[d] IN LET row == NewSnapshot(z, assigned[z], scheduled[z], None) IN
    /\ request[d].stage = "outdated"
    /\ RebuildFree(None, z, assigned[z])
    /\ snapshotVersion[z] < MaxSnapshot
    /\ Install(z, row)
    /\ NewManifest(z, status, row.version)
    /\ Answer(d, row)
    /\ UNCHANGED <<channelVars, assigned, scheduleVars, publication, assigning>>

Suits(m, d) == request[d].snapshot # None /\ m.snapshot = request[d].snapshot.version

\* A manifest that exists and has not expired will do.
UseManifest(d) ==
    /\ request[d].stage = "current"
    /\ \E m \in manifests[ZoneOf[d]] : Suits(m, d)
    /\ Answer(d, request[d].snapshot)
    /\ UNCHANGED <<channelVars, zoneVars, manifestVars, scheduleVars, publication, assigning>>

\* There is none, those there are have expired, or the request is for a new one.
MissManifest(d) ==
    /\ request[d].stage = "current"
    /\ request[d].snapshot # None
    /\ Reach(d, "building", request[d].snapshot)
    /\ UNCHANGED <<channelVars, zoneVars, manifestVars, scheduleVars, publication, assigning>>

\* create_manifest locks the zone, and its company against deletion as it commits.  It
\* tests the snapshot it was given, which was READY when it was read.
BuildManifest(d, status) ==
    /\ request[d].stage = "building"
    /\ ZoneFree(ZoneOf[d]) /\ CompanyFree(None, ZoneOf[d])
    /\ NewManifest(ZoneOf[d], status, request[d].snapshot.version)
    /\ Answer(d, request[d].snapshot)
    /\ UNCHANGED <<channelVars, zoneVars, scheduleVars, publication, assigning>>

\* An answer is looked at by the properties and then forgotten.
Finish(d) ==
    /\ request[d].stage = "answered"
    /\ request' = [request EXCEPT ![d] = NoRequest]
    /\ UNCHANGED <<channelVars, zoneVars, manifestVars, scheduleVars, publication, assigning>>

\* NO_PUBLISHED_CONFIGURATION, an error or a rollback.
EndRequest(d) ==
    /\ request[d].stage \notin {"idle", "answered"}
    /\ request' = [request EXCEPT ![d] = NoRequest]
    /\ UNCHANGED <<channelVars, zoneVars, manifestVars, scheduleVars, publication, assigning>>

----------------------------------------------------------------------------

Next ==
    \/ \E c \in Channels :
        \/ ArchiveChannel(c) \/ ReactivateChannel(c)
        \/ PublishUnchanged(c) \/ BeginPublication(c) \/ CommitChannel(c)
    \/ \E s \in Schedules :
        \/ \E W \in SUBSET Zones : BeginSchedulePublication(s, W)
        \/ CommitSchedule(s)
    \/ \E x \in Publishers : RollBackPublication(x) \/ \E z \in Zones : RebuildZone(x, z)
    \/ \E z \in Zones :
        \/ \E t \in {Latest(s) : s \in {s \in Schedules : issued[s] > 0}} \cup {None} :
            ScheduleMoves(z, t)
        \/ \E c \in Channels : BeginAssignment(z, c)
        \/ AssignChannelToZone(z) \/ EndAssignment(z) \/ UnassignChannelFromZone(z)
    \/ \E d \in Devices :
        \/ AskRuntime(d) \/ CompareSchedule(d) \/ UseManifest(d) \/ MissManifest(d)
        \/ \E status \in {"READY", "ERROR"} : RollOver(d, status) \/ BuildManifest(d, status)
        \/ Finish(d) \/ EndRequest(d)

Spec == Init /\ [][Next]_vars

----------------------------------------------------------------------------
(* Properties *)

\* Whatever publications, assignments and rollovers overlap, a zone has one
\* configuration in force at most, and one manifest (playback/services.py 94, 255).
OneReadyPerZone ==
    \A z \in Zones :
        /\ \A r1, r2 \in ready[z] : r1 = r2
        /\ \A m1, m2 \in manifests[z] : m1.status = "READY" /\ m2.status = "READY" => m1 = m2

\* The configuration in force in a zone is of its channel, in the version last
\* published; without channel it has none (publish_channel rebuilds the zones it looked
\* up, assignments come and go meanwhile).
ZonePlaysWhatWasPublished ==
    \A z \in Zones :
        /\ assigned[z] # None => ready[z] # {}
        /\ \A r \in ready[z] :
            /\ r.channel = assigned[z]
            /\ assigned[z] # None => r.channelVersion = published[assigned[z]]

\* No zone is left with an archived channel (archive_channel 403-411 against
\* assign_channel_to_zone).
ArchivedChannelNotInUse ==
    \A z \in Zones : assigned[z] # None => channelStatus[assigned[z]] # "ARCHIVED"

\* A device is answered with a schedule that was in effect in its zone at some moment of
\* its request (the rollover of get_or_create_player_runtime).
AnsweredScheduleWasInEffect ==
    \A d \in Devices :
        request[d].stage = "answered" => request[d].snapshot.schedule \in request[d].during
=============================================================================
