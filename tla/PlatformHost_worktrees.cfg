SPECIFICATION Spec
CONSTANTS
  p1 = p1
  p2 = p2
  p3 = p3
  o1 = o1
  o2 = o2
  reference = reference
  staging = staging
  primary = primary
  restore = restore
  Procs = {p1, p2}
  Sites = {reference, staging, primary, restore}
  NameOf <- SameName
  Owners = {o1, o2}
  Commits = {c1}
  NoProc = NoProc
  NoOwner = NoOwner
  NoCommit = NoCommit
  NoCluster = NoCluster
  KindCreateAttempts = 2
  ReferenceSites = {reference, staging}
  Options <- KeptOrNot
  Strict = TRUE
  StagingSite = staging
  PublicMain = c1
  MaxSecrets = 2
  HaPrimary = primary
  HaRestore = restore
CHECK_DEADLOCK FALSE
PROPERTY NoForeignDelete
