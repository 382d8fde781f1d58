SPECIFICATION ToolsSpec
CONSTANTS
    c1 = c1  c2 = c2  r1 = r1  r2 = r2  v1 = v1  v2 = v2  v3 = v3
    Runs = {run1, run2}  NoRun = NoRun  Targets = {t1}  MaxEdits = 2
    Tasks <- RunnerTasks  Registry <- ClaimRegistry  Existing <- ExistingFiles
    ReviewTasks <- TasksToReview  Handoffs <- HandoffsToReview
    Generators = {g1, g2}  Profiles = {"small", "large"}  NodeCount <- Nodes_  EdgeCount <- Nodes_
    EnforcedProfiles = {"large"}  Plans <- SomePlans  MaxTempBlocks = 1  MaxGenerations = 3
    Commits = {c1, c2}  HttpOutcomes <- Outcomes  MaxP95 = 1  MaxP99 = 2  MaxFailed = 0
    MaxTime = 2  MaxSearches = 1  MaxChanges = 1  MaxAttempts = 2
    Releases = {r1, r2}  Labels = {daily}  Defects = {"notReady"}
    BackupMaxAge = 1  RestoreMaxAge = 1  Retention = 1  LastHour = 2  MaxEvents = 3  MaxPolls = 2
    Reconcilers = {w1, w2}  PushTools = {p1}  MailSettings <- SomeMail  MaxSourceEdits = 1
    Images = {"kind", "api", "postgres"}  BatchOf <- Batches  CopyAttempts = 2  MaxMoves = 1
    Installers = {"i1", "i2"}  ToolVersions = {"v1", "v2"}  ToolLock <- ToolLocks
    Attempts = 2  MaxRestarts = 3
    Checkouts = {"k1", "k2"}  Heads = {"h1", "h2", "h3"}  InputsOf <- Content  LockedDigest <- Digest
    KindNodes = {"n1", "n2"}  MaxSwitches = 1  MaxRuns = 4
    Interval = 2  ProbeLimit = 1  MaxTicks = 6
    Revisions = {v1, v2, v3}  FilesOf <- ChangedFiles  LinesOf <- ChangedLines  Attesters = {"ann"}
    ProductDocs = {"contract"}  Bodies <- SomeBodies  Writings <- SomeComments  Verdicts <- SomeVerdicts
    Threads <- SomeThreads  MaxPrEvents = 2
    Documents = {1, 2, 3, 4}  Synthetic = {1, 2, 3, 4}  Signal <- Signals  Models = {"m1", "m2", "remote"}
    LocalModels = {"m1", "m2"}  Cosine <- Similarities  MinimumCosine = 550  MinimumMargin = 15
    RankLimit = 2  MaxSwaps = 2
    BaseImages = {"rust", "debian"}  OciLocks <- LocksOf  Folded <- FoldedNames  DockerLines <- SomeLines  MaxLines = 5
    NodeIds = {"n1", "n2"}  EdgeIds = {"e1", "e2"}  NodeOf <- Anchors  OldIds = {"n1", "e1"}  MaxMishaps = 2
    Accounts = {"u1", "u2"}  NoAccount = "none"  Devices = {"d1"}  Hints = {"h1"}  RecipientOf <- Recipients
    Loops = {"l1", "l2"}  PushBatch = 1  PushAttempts = 2  MaxDevices = 1  MaxRequests = 3  MaxLapses = 1
CONSTRAINT Bounded
INVARIANTS
      FixtureIsOneProfile  
         RankingIsSound
    DeleteIsAtomic PushIsSound
PROPERTIES UpdatesAreKept
CHECK_DEADLOCK FALSE
