CONSTANTS
  Traces <- MCTraces
  Registrations = 1
SPECIFICATION Spec
INVARIANTS
  TypeOK
  DumpsLoggedWhole
  DhmValuesLogged
  CertificatesLogged
