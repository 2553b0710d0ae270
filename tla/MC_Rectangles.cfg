SPECIFICATION Spec
CONSTANTS
  BytesPerPixel = 4
  Sizes <- MCSizes
  Lengths = {127, 128, 3145727}
  Palettes = {2, 3}
  Used = {0, 3}
  MaxBlocks = 2
INVARIANTS
  InStep
  StreamsInSync
