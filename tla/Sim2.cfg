SPECIFICATION Spec
CONSTANTS
  XSize = 2
  YSize = 1
  InitEnergy = 4
  BreedEnergyThreshold = 2
  BreedCost = 2
  KillGain = 2
  HuntCost = 1
  RollRange = 2
  KillPause = 2
  BreedPause = 1
  Rests = {2, 3}
  ShortRest = 2
  LongRest = 3
  PredNums = {0, 1}
  PreyNums = {2}
  MaxConfigs = 1
  MaxTimers = 2
  MaxRounds = 2
INVARIANTS CountersAgree KillsCovered
PROPERTIES BirthNeedsPair
