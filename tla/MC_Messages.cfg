SPECIFICATION Spec
CONSTANTS
  Threads = {strand}
  Strand = strand
  WriterPreferred = FALSE
  Texts = {2}
  Updates <- MCUpdates
  ServesChat = TRUE
  MaxMessages = 2
INVARIANTS
  TypeOK
  InStep
  Delivered
  UsesWhatIsOffered
  NoCallAfterReset
PROPERTIES
  ResetReturns
CHECK_DEADLOCK FALSE
