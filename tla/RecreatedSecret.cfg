SPECIFICATION FairSpec
CONSTANTS
  None = None
  p1 = p1  p2 = p2  pw1 = pw1  pw2 = pw2
  Pods <- TwoPods
  Names = {}
  Passwords <- OnePassword
  UserSecret = None
  Starts = {"steady"}
  CatchesUp = TRUE
  DeletesLate = TRUE
  MaxEdits = 1
  MaxFaults = 0
PROPERTY
  CredentialsReachPods
