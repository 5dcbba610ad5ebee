CONSTANTS
  IsClient = FALSE
  Manipulations <- MCServerManipulations
  SecretFile = TRUE
  RandomByteIndexInputs <- MCRandomByteIndexInputs
  ListenTimeoutSeconds = 1
  MaxSessions = 3
  CertificateFiles = TRUE
SPECIFICATION Spec
INVARIANTS
  TypeOK
  OverridesInForceExactlyAtKeyExchange
  KeyLogOncePerHandshake
PROPERTIES
  HandshakeInOrder
