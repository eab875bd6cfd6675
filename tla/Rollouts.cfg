SPECIFICATION Spec
CONSTANTS
  None = None
  k1 = k1  k2 = k2  c1 = c1  c2 = c2
  KeeperPods <- OneKeeperPod
  CHPods <- MCCHPods
  Engines = {1, 2}
  Keepers = {1, 2}
  Settings <- MCSettings
  Expandable = {"std"}
  LastRelease = 2
  Layout <- TwoLayouts
  Starts <- NoTLSStarts
  Edits <- NoTLSEdits
  EditsMidSync = FALSE
  MaxEdits = 1
  MaxFaults = 1
  MaxHiccups = 1
SYMMETRY
  SymmetricPods
PROPERTIES
  ChangesAreConsented
  
