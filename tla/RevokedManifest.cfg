CONSTANTS
    t1 = t1
    t2 = t2
    Requests = {r1, r2}
    Tokens = {t1, t2}
    TokenExpiry <- MCTokenExpiry
    TTL = 2
    CacheLimit = 0
    Validity = 1
    MaxTime = 3
    MaxVersion = 2
    Nothing = Nothing
SYMMETRY Symmetry
SPECIFICATION GatewaySpec
INVARIANT RevokedGetsNoManifest
