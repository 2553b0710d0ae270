SPECIFICATION Spec
CONSTANTS
  HexTile = 4
  ZrleTile = 8
  Full = 3
  Frames <- MCFrames
  Rects <- MCRects
  Patterns <- MCPatterns
  Shapes <- MCShapes
  Carries = TRUE
  MaxRects = 3
INVARIANTS
  PictureDrawn
CHECK_DEADLOCK FALSE
