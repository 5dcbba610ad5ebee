CONSTANTS
  Inputs <- MCInputs
SPECIFICATION Spec
INVARIANTS
  TypeOK
  SimulationSixHasDelay
  AcceptedIndicesInRange
  SessionAsGiven
  ManipulationsAsGiven
