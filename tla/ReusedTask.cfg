SPECIFICATION Spec
CONSTANTS
  None = None
  k1 = k1  k2 = k2  c1 = c1  c2 = c2
  KeeperPods <- OneKeeperPod
  CHPods <- OneCHPod
  Engines = {1}
  Keepers = {1}
  Settings <- MCSettings
  Expandable = {"std"}
  LastRelease = 1
  Layout <- OneLayout
  Starts <- NewTLS
  Edits <- AwayFromTLS
  EditsMidSync = FALSE
  MaxEdits = 1
  MaxFaults = 0
  MaxHiccups = 0
INVARIANT
  KeeperServesClickHouse
