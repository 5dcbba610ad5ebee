CONSTANTS
  PeerInputs <- MCTailInputs
  Timeouts <- MCTimeouts
SPECIFICATION Spec
INVARIANTS
  TypeOK
  ReturnsWholeRecords
  AlertDrainedBeforeClose
PROPERTIES
  SessionTailEnds
