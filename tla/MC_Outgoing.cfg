SPECIFICATION Spec
CONSTANTS
  Conns = 2
  MaxCalls = 2
  MaxUpdates = 1
  Registered <- MCRegistered
  Frame <- MCFrame
  NameSets <- MCNameSets
  Levels <- MCLevels
INVARIANTS
  TypeOK
  HandshakeAlone
  ChoiceKept
  NeverUnsupported
CHECK_DEADLOCK FALSE
