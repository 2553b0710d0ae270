SPECIFICATION Spec
CONSTANTS
  Versions <- MCVersions
  Offers <- MCOffers
  TextLength = 255
  PasswordLength = 255
  MaxContinue = 2
INVARIANTS
  InStep
PROPERTIES
  LoginEnds
CHECK_DEADLOCK FALSE
