CONSTANTS
  v1 = v1
  v2 = v2
  v3 = v3
  Validators = {v1, v2, v3}
  Whitelist = {v1, v2}
  Scale = 1
  MaxPower = 3
  MinStake = 1
  MinValidators = 2
  Amounts = {1}
  MinStakeDiff = 5
  KillPeriod = 2
  KillWindow = 1
  MaxChanges = 2
  MaxCheckpoints = 1
  MaxHeight = 2
  MaxPsbts = 1
SPECIFICATION LiveSpec
CHECK_DEADLOCK FALSE
INVARIANTS
  NoDoubleKillVote
  KillDelay
PROPERTIES
  KillNeedsQuorum
  FrozenOnceMarked
  StakeChangesApplied
  MarkedGetsKilled
