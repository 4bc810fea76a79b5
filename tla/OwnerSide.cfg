SPECIFICATION Spec
CONSTANTS
  KeyNames = {"k0", "k1", "k2"}
  FirstKey = "k0"
  NoKey = "none"
  Codes = {"c1", "c2"}
  Devices = {"d1", "d2"}
  Window = 2
  Ttl = 1
  MaxAttempts = 2
  MaxStarts = 2
  MaxNow = 3
  Pins = {"p1", "p2", "p3", "p4"}
  FirstPin = "p1"
  ChainMax = 2
  MaxClock = 5
  PresenceTtl = 1
  Away = 2
  FreshFor = 3
  IdleFor = 2
  MaxSession = 4
  Looks = {"a", "b"}
  MaxGrants = 2
  Turns = {"a", "b"}
  NoTurn = "none"
  Capacity = 2
  MaxChanges = 6
  MaxFrames = 2
  MaxLinks = 2
  Attempts = {"a", "b"}
  ForLearned = 2
  ForMastered = 3
  MaxIntroductions = 1
  BeforeUpgrade = 2
  MasteryQuiet = 1
  DecayAfter = 2
  DismissedFor = 2
  Pause = 1
  MaxDays = 3
  MaxOps = 5
  MaxTurns = 3
  MaxOffers = 1
  Settings = {"a", "b"}
  NotSet = "unset"
  MaxBoxes = 4
  MaxRules = 2
  MaxSaves = 1
  MaxActs = 5
INVARIANTS
  TypeOK
  KeysHold
  OwnerSeesAndStops
  ConversationHolds
  DrawnIsRun
PROPERTIES
  SessionIsNotInherited
  LessonsAreEarned
CHECK_DEADLOCK FALSE
