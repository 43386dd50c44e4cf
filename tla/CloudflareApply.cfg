SPECIFICATION FairSpec
CONSTANTS
  None = None
  NoComment = "none"
  RRsets <- MCRRsets
  Foreign <- MCForeign
  Contents = {"x", "y"}
  TTLs = {60, 300}
  Comments = {"none", "c", "d"}
  InitialZones <- MCZones
  Requests <- MCRequests
  Clients = {c1, c2}
  MaxId = 4
  MaxForeign = 1
  MaxFaults = 2
CHECK_DEADLOCK FALSE
INVARIANTS TypeOK OthersKeepTheirs
PROPERTIES NoLostUpdate SuccessIsApplied RolledBackIsRestored CnamesAreAlone EveryApplyEnds
