SPECIFICATION FairSpec
CONSTANTS
  k1 = k1
  k2 = k2
  x = x
  Keys = {k1, k2}
  Handlers = {h1, h2}
  Contents = {x}
  Sends <- MCSends
  MaxSerial = 2
  MaxEntries = 1
  TTL = 1
  Hashed = FALSE
  Faults = {"crash", "halfdone", "unsaved"}
  None = None
INVARIANTS Consistent SuccessIsTrue
PROPERTIES ReappliedOnlyIfRecurred NotRepeatedWhileRetained EveryKeyIsReleased
