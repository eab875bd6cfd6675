SPECIFICATION FairSpec
CONSTANTS
  None = None
  k1 = k1  k2 = k2  c1 = c1  c2 = c2
  KeeperPods <- OneKeeperPod
  CHPods <- OneCHPod
  Engines = {1}
  Keepers = {1}
  Settings <- MCSettings
  Expandable = {"std"}
  LastRelease = 2
  Layout <- TwoLayouts
  Starts <- TakeOverStarts
  Edits <- AllTLSEdits
  EditsMidSync = TRUE
  MaxEdits = 1
  MaxFaults = 1
  MaxHiccups = 0
PROPERTIES
  Converges
