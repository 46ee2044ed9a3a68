SPECIFICATION ProgrammingSpec
CONSTANTS
    Lists = {p1, p2}
    Channels = {c1}
    Songs = {x, y}
    Editors = {ana, ben}
    ListLimit = 1
    ChannelLimit = 1
    MaxItems = 2
    MaxRevision = 4
    NoRow = NoRow
    Timetables = {s1, s2}
    Dates = {0}
    LastTime = 2
    Forever = 1
    Priorities = {0, 1}
    MaxPriority = 2147483647
    Scopes = {"COMPANY", "ZONE"}
    MaxEntries = 2
    MaxAssignments = 2
    MaxEdits = 6
    EntryEdits = 6
    RivalEdits = 8
    NoContent = NoContent
INVARIANTS
    ProgrammingTypesOK
    NoConflictWithin
    ListLimitHolds
    PreviewAgreesWithPlayer
PROPERTY NoLostUpdate
SYMMETRY Symmetry
CHECK_DEADLOCK FALSE
