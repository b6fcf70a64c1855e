CONSTANTS
  v1 = v1
  v2 = v2
  s1 = s1
  s2 = s2
  Validators = {v1, v2}
  Scale = 1
  MaxPower = 100
  MinStake = 1
  Subnets = {s1, s2}
  Configs <- MCConfigs
  Activation = 2
  SnapshotLength = 2
  MaxHeight = 5
  MaxMessages = 2
  MaxCrashes = 1
  MaxLost = 1
SPECIFICATION Spec
INVARIANTS
  RewardIsMinimum
  RewardBounded
CHECK_DEADLOCK FALSE
