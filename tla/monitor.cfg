CONSTANTS
  Blocks <- MCBlocks
  Confirmations = 1
  Batch = 2
  MaxHeight = 3
  MaxMsgs = 2
  MaxInterrupts = 1
  MaxDrops = 1
SPECIFICATION LiveSpec
INVARIANTS
  TypeOK
  ReadsFinal
  AppliedAgain
  HookMissed
PROPERTIES
  HandlesInOrder
  ConfirmedHandled
  ImportedEventually
