SPECIFICATION FairSpec
CONSTANTS
  Runs = {r1, r2}
  NoStream = NoStream
  MaxStops = 1
  MaxSends = 3
  Restart = "afterEnd"
  SendWhen = "connected"
INVARIANTS
  OneRunAtATime
  FreshSession
  NullStreamUnused
PROPERTIES
  StatusLadder
  DeadConnectionEndsRun
  DeadConnectionEmptiesQueue
CHECK_DEADLOCK FALSE
