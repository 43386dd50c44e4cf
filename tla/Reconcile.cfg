SPECIFICATION Spec
CONSTANTS
  Zones = {"f", "r"}
  Owners <- Names
  Texts <- ZoneTexts
  Requests <- SomeRequests
  MaxWrites = 5
  MaxLost = 1
  None = None
  Forward = {"f"}
  ReverseZone = "r"
  Address <- Addresses
  Subnet = {"a1", "a2", "a3"}
  Permitted = {"h1", "h2"}
INVARIANTS AuditReplays OrderIsFree ProposalsSettle SilenceIsConfirmed
CHECK_DEADLOCK FALSE
