CONSTANTS
  Traces <- MCTraces
  Registrations = 1
SPECIFICATION Spec
INVARIANT NoReadPastBuffer
