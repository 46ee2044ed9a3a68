CONSTANTS
    Devices = {d1}
    Codes = {c1, c2}
    Creds = {k1, k2, k3}
    Zones = {z1, z2}
    Nobody = Nobody
    DeviceLimit = 1
    MaxRevision = 4
SYMMETRY Symmetry
SPECIFICATION Spec
INVARIANTS
    TypeOK
    SingleActiveCredential
    SingleOpenCode
    CutOff
    ExchangedOnce
    CredentialIsEarned
    RevisionPinsConfiguration
PROPERTY RevocationIsFinal
