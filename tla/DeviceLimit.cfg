CONSTANTS
    Devices = {d1, d2}
    Codes = {c1}
    Creds = {k1}
    Zones = {z1}
    Nobody = Nobody
    DeviceLimit = 1
    MaxRevision = 4
SPECIFICATION Spec
PROPERTY ReactivatedWithinLimit
