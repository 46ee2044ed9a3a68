SPECIFICATION AccountsSpec
CONSTANTS
    Users = {u1}
    Requests = {r1, r2}
    LinkLife = 1
    LinkCooldown = 1
    SessionLife = 1
    LastHour = 1
    MaxPasswords = 2
    MaxLinks = 3
    MaxSessions = 2
    p1 = p1
    p2 = p2
    p3 = p3
    c1 = c1
    c2 = c2
    s1 = s1
    s2 = s2
    z1 = z1
    z2 = z2
    z3 = z3
    Companies = {c1, c2}
    People = {p1, p2, p3}
    Staff = {}
    Sites = {s1, s2}
    Zones = {z1, z2, z3}
    CompanyOf <- MCCompanyOf
    SiteOf <- MCSiteOf
    GivenRoles = {"MANAGER", "OPERADOR_SEDES"}
    Named <- MCChoices
    SiteLimit = 1
    ZoneLimit = 1
    Seats = 2
    TrialDays = 2
    InvitationLife = 2
    ResendCooldown = 1
    LastDay = 2
    MaxInvitations = 2
    MaxRequests = 2
    Nothing = Nothing
INVARIANTS
    AccountsTypesOK
    PasswordEndsSessions
    LinksOpenOnce
    PlacesWithinPlan
    SeesWhatItMay
CHECK_DEADLOCK FALSE
