CONSTANTS
  v1 = v1
  v2 = v2
  Validators = {v1, v2}
  Whitelist = {v1, v2}
  Scale = 1
  MaxPower = 3
  MinStake = 1
  MinValidators = 1
  Amounts = {1}
  MinStakeDiff = 5
  KillPeriod = 1
  KillWindow = 1
  MaxChanges = 6
  MaxCheckpoints = 1
  MaxHeight = 1
  MaxPsbts = 1
  Scenarios <- MCScenarios
  GenesisStakes <- MCGenesis
  Coins = {1}
  MaxFailures = 1
SPECIFICATION RequestsLiveSpec
CHECK_DEADLOCK FALSE
PROPERTIES
  HonouredUnlessOvertaken
  AnsweredArrives
