SPECIFICATION Spec
CONSTANTS
  Width = 3
  Height = 3
  Rects <- GridRects
  Points <- Grid
INVARIANTS
  TypeOK
  Disjoint
  HiddenExact
PROPERTY
  IsRegion
