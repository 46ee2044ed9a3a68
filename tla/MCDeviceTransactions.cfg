CONSTANTS
    Devices = {d1}
    Codes = {c1, c2}
    Creds = {k1, k2, k3}
    Nobody = Nobody
    MaxRevision = 5
    Zone = z1
    Sessions = {s1, s2, s3}
SYMMETRY Symmetry
SPECIFICATION Spec
INVARIANTS
    NothingEscapes
PROPERTY Lifecycle
