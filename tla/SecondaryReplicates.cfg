SPECIFICATION FairSpec
CONSTANTS
  z1 = z1
  z2 = z2
  z3 = z3
  ZoneOrder <- TwoZones
  Configured = {z1, z2}
  Discover = TRUE
  MaxZones = 3
  Data = {a}
  Cut = Cut
  MaxSerial = 2
  MaxFaults = 2
  Restores = TRUE
  None = None
INVARIANTS TypeOK SnapshotsAreWhole
PROPERTIES Replicates ErrorsClear
