SPECIFICATION FairSpec
CONSTANTS
  None = None
  p1 = p1  p2 = p2  pw1 = pw1  pw2 = pw2
  Pods <- TwoPods
  Names = {"app"}
  Passwords <- TwoPasswords
  UserSecret <- FromSecret
  Starts = {"new", "steady", "takenOver"}
  CatchesUp = TRUE
  DeletesLate = FALSE
  MaxEdits = 2
  MaxFaults = 1
INVARIANTS
  TypeOK
  
  ReplicasAgree
PROPERTIES
  CredentialsReachPods
