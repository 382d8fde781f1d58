SPECIFICATION OneToolSpec
CONSTANTS
  p1 = p1
  p2 = p2
  p3 = p3
  o1 = o1
  o2 = o2
  reference = reference
  staging = staging
  primary = primary
  restore = restore
  Procs = {p1, p2, p3}
  Sites = {reference, staging, primary, restore}
  NameOf <- OwnNames
  Owners = {o1, o2}
  Commits = {c1, c2}
  NoProc = NoProc
  NoOwner = NoOwner
  NoCommit = NoCommit
  NoCluster = NoCluster
  KindCreateAttempts = 2
  ReferenceSites = {reference}
  Options <- KeptOrNot
  Strict = TRUE
  StagingSite = staging
  PublicMain = c1
  MaxSecrets = 2
  HaPrimary = primary
  HaRestore = restore
INVARIANTS ClustersAreOwned SecretNeverReplaced
PROPERTIES NoForeignDelete CleanupReceiptIsTrue RetirementLosesNothing CellIsPinned 
CHECK_DEADLOCK FALSE
CONSTRAINT OthersRest
SYMMETRY Symmetry
