SPECIFICATION Spec
CONSTANTS
  Stages = {"a", "b", "c"}
  Optional = {"a"}
  Private = {"c"}
  Machines = {"m"}
  Cloud = "cloud"
  Limits = {1, 2}
  MaxResizes = 1
  Calls = {"x", "y"}
  Trip = 2
  Cooldown = 1
  Cap = 1
  MaxLost = 1
  Tiers = {"FAST", "LOCAL"}
  Components = {"models"}
  Presses = {"p"}
  MaxAttempts = 2
  Quiet = 1
  MaxEntries = 4
  Revealing = {2}
  Prices = {1, 2, 3}
  MaxBars = 3
  MaxRuns = 2
  Equity = 20
  Risked = 20
  MaxPosition = 50
  MaxDayLoss = 10
  MaxDrawdown = 20
  SkillNames = {"s1"}
  MaxVersions = 3
  MaxTests = 2
  Values = {u, v}
  Writers = {x, y}
  MaxRecords = 2
  Paths = {"x", "y"}
  Nodes = {"m", "n"}
  Undoers = {"u", "v"}
  MaxActs = 2
  MaxAsks = 2
  MaxSeconds = 1
  ArchiveNames = {"n"}
  Versions = {1, 2}
  MaxWork = 1
  MaxDamages = 1
  MaxUpdates = 2
  Holders = {"d", "e"}
  Callers = {"x", "y"}
  MaxJobs = 4
  Cuts = {"c", "d"}
  Pictures = {"p", "q"}
  MaxCalls = 3
  MaxTouches = 2
INVARIANTS
  TypeOK
  WorkIsPlaced
  RecordsAreTrue
  ActiveIsEarned
  MemoryIsKept
PROPERTIES
  ModelsServe
  ActsCanBeTakenBack
SYMMETRY Symmetry
CHECK_DEADLOCK FALSE
