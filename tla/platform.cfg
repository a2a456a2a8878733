SPECIFICATION Spec
CONSTANTS
  Parts = {"cache", "command", "argv", "gitmesh", "swim", "dht", "deploy", "store", "gates"}
  Pipelines = {"p", "q"}
  Steps <- CacheSteps
  SiteOf <- CacheSites
  Inputs = {"in", "out"}
  Reads <- CacheReads
  Writes <- CacheWrites
  Validates <- CacheValidates
  AppScoped = {"app"}
  Modes <- CacheModes
  MaxWrites = 3
  Declares <- ExecCommands
  Workspace <- ExecWorkspace
  OwnOf <- ExecOwnOf
  Sites <- ExecSites
  Manifests <- ExecManifests
  Files = {"f", "g"}
  MaxCalls = 2
  Schema <- ArgvSchema
  Switches = {"force"}
  Tokens <- ArgvTokens
  MaxTokens = 3
  Commits = {0, 1, 2, 3}
  Parent <- MeshParent
  Time <- MeshTime
  Signed = {0, 1, 3}
  Remotes = {"r1"}
  Syncs = {"s", "t"}
  Workshops = {"u", "v"}
  OperatorKeys <- SwimKeys
  Operators = {"u", "v"}
  MaxTime = 2
  MaxEntries = 3
  MaxSlots = 1
  Hashes = {"a", "b", "c"}
  Retain = 1
  Keyed = FALSE
  Releases = {"r1", "r2"}
  Trees = {"t1", "t2"}
  Adapters = {"fake"}
  Versions = {"v1", "v2"}
  Capabilities = {"fs", "kb/read"}
  Denied = {"fs"}
  Requests = {"q1", "q2", "q3"}
  Concurrent = 2
  Window = 2
  PerWindow = 1
  MaxSeconds = 4
INVARIANTS
  RunsAnswerThePresent
  MeshKeepsHistory
  PeersAgree
  ArtifactsStand
  BudgetsHold
CHECK_DEADLOCK FALSE
