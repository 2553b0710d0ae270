SPECIFICATION Spec
CONSTANTS
  Runs = {r1, r2}
  NoStream = NoStream
  MaxStops = 1
  MaxSends = 1
  Restart = "anytime"
  SendWhen = "anytime"
SYMMETRY Symmetry
INVARIANTS
  TypeOK
  NoOrphanConnection
  OneWriter
  BufferAlive
  Contiguous
  AtMostOnce
PROPERTIES
  KeepsContract
  SendSpec
CHECK_DEADLOCK FALSE
