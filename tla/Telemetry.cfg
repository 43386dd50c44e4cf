SPECIFICATION FairSpec
CONSTANTS
  Domains = {1, 2}
  Lists <- TwoLists
  FirstList <- OneList
  Queries <- ThreeQueries
  Width = 2
  Retention = 1
  Limits = {1, 2}
  RecentQueries = 2
  MaxTime = 3
  MaxEvents = 3
  MaxFaults = 1
  None = None
INVARIANTS TypeOK CountersAreSound ExactUnlessTruncated SnapshotIsComplete RecentIsLast
PROPERTIES ExpiredIsForgotten FollowsBlocklist
