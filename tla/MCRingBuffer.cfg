SPECIFICATION Spec
CONSTANTS
  Point = {p1, p2, p3}
  Blank = blank
  MaxCapacity = 4
  DefaultCapacity = 3
INVARIANTS TypeOK WrapsOnlyWhenFull NoBlankRead LatestIsTail
PROPERTY ImplementsBoundedLog
