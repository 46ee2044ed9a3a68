------------------------ MODULE MCZoneConfiguration ------------------------
EXTENDS ZoneConfiguration, TLC
CONSTANT z1
MCZoneOf == [d \in Devices |-> z1]
MCSiteOf == [z \in Zones |-> z]
MCCompanyOf == [z \in Zones |-> "company"]
Symmetry == Permutations(Channels)
=============================================================================
