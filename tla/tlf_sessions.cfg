CONSTANTS
  Traces <- MCTraces
  Registrations = 2
SPECIFICATION Spec
INVARIANT DumpsLoggedWhole
