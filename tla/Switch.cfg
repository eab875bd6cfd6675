SPECIFICATION Spec
CONSTANTS
  None = None
  k1 = k1  k2 = k2  c1 = c1  c2 = c2
  KeeperPods <- MCKeeperPods
  CHPods <- OneCHPod
  Engines = {1, 2}
  Keepers = {1, 2}
  Settings <- MCSettings
  Expandable = {"std"}
  LastRelease = 2
  Layout <- TwoLayouts
  Starts <- SwitchStarts
  Edits <- BothWays
  EditsMidSync = FALSE
  MaxEdits = 2
  MaxFaults = 1
  MaxHiccups = 0
INVARIANTS
  TypeOK
  KeeperServesClickHouse
  MountedCertificateExists
PROPERTIES
  ImplementsPortSwitch
  ChangesAreConsented
