CONSTANTS
  s1 = s1
  s2 = s2
  s3 = s3
  tok = tok
  Subnets = {s1, s2, s3}
  Bootstrapped = {s1, s2}
  Tokens = {tok}
  NoToken = NoToken
  Plans <- MCNoPlans
  Payments <- MCManyFunds
  Readers = {s2}
  MaxToken = 3
  MaxCount = 255
  Radix = 10
  MaxBlocks = 1
  MaxBlock = 11
  MaxProposals = 0
  MaxCrashes = 0
  MaxLost = 0
SPECIFICATION Spec
INVARIANT NonceOrder
CHECK_DEADLOCK FALSE
