SPECIFICATION Spec
CONSTANTS
  Sizes = {1, 2}
  MaxChanges = 2
  MaxResizes = 2
INVARIANTS
  AlwaysAsked
  NeverTooLarge
PROPERTIES
  PictureConverges
CHECK_DEADLOCK FALSE
