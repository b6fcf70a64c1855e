CONSTANTS
  v1 = v1
  v2 = v2
  b1 = b1
  b2 = b2
  user = user
  other = other
  Self = Self
  DataOutput = DataOutput
  CommitOutput = CommitOutput
  Validators = {v1, v2}
  Scale = 1
  MaxPower = 100
  MinStake = 1
  BaseFee = 1
  InFee = 1
  OutFee = 1
  Dust = 1
  RevealFee = 1
  Consolidation = 1
  MaxCount = 255
  Significand = 1024
  Powers <- MCPowers
  MaxMoney = 48
  Configs <- MCConfigs
  Whitelist = {v1, v2}
  MinValidators = 2
  Backup <- MCBackup
  OtherAddress <- MCOther
  Users = {user}
  Scenarios <- MCManyTransfers
  MaxDrafts = 8
  MaxStops = 1
SPECIFICATION Spec
INVARIANT WrittenIsRecognised
CHECK_DEADLOCK FALSE
