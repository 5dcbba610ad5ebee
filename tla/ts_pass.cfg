CONSTANTS
  MaxWrites = 3
  MaxSendCalls = 2
SPECIFICATION Spec
INVARIANTS
  TypeOK
  OneTimestampPerWrite
PROPERTIES
  OnBlockWrittenReturns
