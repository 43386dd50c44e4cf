\* The preflight of a promotion: a zone that rill-diff compares, or does not.
SPECIFICATION FairSpec
CONSTANTS
  z1 = z1
  Zones <- OneZone
  Deployments <- OneZoneDeployments
  MaxAge = 1
  Period = 1
  DiffTime = 0
  MaxSerial = 2
  MaxWrites = 2
  MaxFaults = 1
  None = None
PROPERTIES ReadyIsRecent ReadySerialsAreRecent EventuallyReady StoppedJobsAreNoticed
