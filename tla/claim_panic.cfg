CONSTANTS
  v1 = v1
  v2 = v2
  v3 = v3
  Validators = {v1, v2, v3}
  Whitelist = {v1, v2}
  Scale = 1
  MaxPower = 9
  MinStake = 1
  MinValidators = 2
  Amounts = {1, 2}
  MinStakeDiff = 40
  KillPeriod = 1
  KillWindow = 1
  MaxChanges = 3
  MaxCheckpoints = 1
  MaxHeight = 0
  MaxPsbts = 2
SPECIFICATION Spec
CHECK_DEADLOCK FALSE
INVARIANT NoPanic
