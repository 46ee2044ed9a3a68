CONSTANTS
    Devices = {d1}
    Codes = {c1, c2}
    Creds = {k1, k2}
    Zones = {z1}
    Nobody = Nobody
    DeviceLimit = 1
    MaxRevision = 5
SPECIFICATION Spec
INVARIANT OperatingStatusMeansInService
