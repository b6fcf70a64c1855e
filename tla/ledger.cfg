CONSTANTS
  s1 = s1
  s2 = s2
  s3 = s3
  tok = tok
  Subnets = {s1, s2, s3}
  Bootstrapped = {s1, s2}
  Tokens = {tok}
  NoToken = NoToken
  Plans <- MCPlans
  Payments <- MCPayments
  Readers = {s2}
  MaxToken = 3
  MaxCount = 255
  Radix = 10
  MaxBlocks = 2
  MaxBlock = 2
  MaxProposals = 2
  MaxCrashes = 1
  MaxLost = 1
SPECIFICATION LiveSpec
INVARIANTS
  TypeOK
  NoncesDense
  LogIsHistory
  SupplyConserved
  ValidatedApplies
  MetadataFirst
PROPERTIES
  MessagesFinal
  
  ImplementsInbox
  Received
CHECK_DEADLOCK FALSE
