SPECIFICATION FairSpec
CONSTANTS
  v1 = v1  v2 = v2
  CHIVolumes <- OneVolume
  CHKVolumes <- KeeperVolume
  MaxEdits = 1
  MaxFaults = 2
INVARIANTS
  TypeOK
  RetainKeepsData
  KeeperOutlivesClickHouse
  NothingLeftBehind
PROPERTIES
  CleanupFinishes
