SPECIFICATION PlayerSpec
CONSTANTS
    Items = {1, 2, 3, 4}
    Track <- MCTrack
    PriorityOf <- MCPriorityOf
    ActiveTimes <- MCActiveTimes
    Programme <- MCProgramme
    Everything = 0
    Nothing = 9
    Orders = {"SEQUENTIAL", "SHUFFLE"}
    Score <- MCScore
    Window = 3
    DayLength = 4
    Lifetime = 3
    LastMoment = 5
    MaxBuilds = 2
    MaxHeard = 7
    Fields = {"position", "volume"}
    MaxAge = 1
    Skew = 1
    BatchSize = 2
    LastTick = 2
    MaxEvents = 3
    MaxRestarts = 1
INVARIANTS
    PlayerTypesOK
    PagesTile
    OnTheClock
    StateIsNewest
CHECK_DEADLOCK FALSE
