SPECIFICATION FairSpec
CONSTANTS
  Values = {0, 1}
  Configs <- TwoConfigs
  Nodes = {"primary", "standby"}
  Refreshers = {"standby"}
  Clients = {c1, c2}
  MaxUpdates = 2
  MaxFaults = 1
  None = None
INVARIANT NoLostUpdate
PROPERTIES Converges LastGoodKept
