SPECIFICATION Spec
CONSTANTS
    z1 = z1
    Zones = {z1}
    Channels = {c1, c2}
    Schedules = {s}
    Devices = {d1}
    ZoneOf <- MCZoneOf
    SiteOf <- MCSiteOf
    CompanyOf <- MCCompanyOf
    MaxPublished = 2
    MaxSnapshot = 2
    MaxManifest = 2
    MaxSchedule = 1
    None = None
SYMMETRY Symmetry
INVARIANT
    TypeOK
    OneReadyPerZone
    ZonePlaysWhatWasPublished
    ArchivedChannelNotInUse
    AnsweredScheduleWasInEffect
