SPECIFICATION Spec
CONSTANTS
  Runs = {r1, r2}
  NoStream = NoStream
  MaxStops = 1
  MaxSends = 0
  Restart = "anytime"
  SendWhen = "connected"
INVARIANTS
  OneRunAtATime
CHECK_DEADLOCK FALSE
