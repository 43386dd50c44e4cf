SPECIFICATION FairSpec
CONSTANTS
  Zones = {z1}
  Clients = {c1, c2}
  a = a
  Data = {a}
  MaxSerial = 2
  Days = {0, 1, 2}
  Imports <- LowImport
  None = None
INVARIANTS NoAckedVersionLost Coherent NoLostUpdate OnlyPrimariesChange
PROPERTIES ImplementsRegister EveryRequestEnds
