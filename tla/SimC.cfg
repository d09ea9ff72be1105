SPECIFICATION Spec
CONSTANTS
  XSize = 2
  YSize = 1
  INIT_ENERGY = 4
  Threshold = 2
  BreedCost = 2
  KillGain = 2
  HuntCost = 1
  Roll = 2
  KillPause = 2
  BreedPause = 3
  Times = {1, 3}
  Short = 2
  Long = 3
  Preys = {2}
  Predators = {1}
  MaxConfigs = 2
  MaxTimers = 2
  MaxRounds = 2
CHECK_DEADLOCK FALSE
INVARIANTS AuditClean CountersAgree
PROPERTIES EveryoneCounted
