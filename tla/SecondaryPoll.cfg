SPECIFICATION FairSpec
CONSTANTS
  z1 = z1
  z2 = z2
  z3 = z3
  ZoneOrder <- ThreeZones
  Configured = {z1}
  Discover = TRUE
  MaxZones = 3
  Data = {a}
  Cut = Cut
  MaxSerial = 2
  MaxFaults = 0
  Restores = FALSE
  None = None
PROPERTIES Replicates
