CONSTANTS
  IsClient = TRUE
  Manipulations <- MCClientManipulations
  SecretFile = TRUE
  RandomByteIndexInputs <- MCRandomByteIndexInputs
  ListenTimeoutSeconds = 0
  MaxSessions = 1
  CertificateFiles = TRUE
  PeerInputs <- MCSessionInputs
  Timeouts <- MCClientTimeouts
SPECIFICATION Spec
INVARIANTS
  OverridesInForceExactlyAtKeyExchange
  KeyLogOncePerHandshake
  AlertDrainedBeforeClose
PROPERTIES
  HandshakeInOrder
  HandshakeModel
