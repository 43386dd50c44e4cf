SPECIFICATION Spec
CONSTANTS
  z1 = z1
  z2 = z2
  z3 = z3
  ZoneOrder <- OneZone
  Configured = {z1}
  Discover = FALSE
  MaxZones = 3
  Data = {a, b}
  Cut = Cut
  MaxSerial = 3
  MaxFaults = 1
  Restores = TRUE
  None = None
INVARIANTS SameSerialSameZone
