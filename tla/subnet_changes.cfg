CONSTANTS
  v1 = v1
  v2 = v2
  v3 = v3
  Validators = {v1, v2, v3}
  Whitelist = {v1, v2}
  Scale = 1
  MaxPower = 3
  MinStake = 1
  MinValidators = 2
  Amounts = {1, 2}
  MinStakeDiff = 40
  KillPeriod = 1
  KillWindow = 1
  MaxChanges = 3
  MaxCheckpoints = 1
  MaxHeight = 0
  MaxPsbts = 2
SYMMETRY GenesisSymmetry
SPECIFICATION Spec
CHECK_DEADLOCK FALSE
INVARIANTS
  TypeOK
  EffectiveCommitteeRecorded
  PendingIsAhead
  CheckpointAccepted
  WithdrawalPaid
  SpendableCommittees
