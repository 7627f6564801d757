SPECIFICATION FairSpec
CONSTANTS
  v = v
  w = w
  c = c
  Window = {v, w, c}
  Container = {c}
  Shapes <- SomeShapes
  Space = 4000
  LittleEndian = FALSE
  NoWin = NoWin
INVARIANTS SidesAgree MemoryExact
PROPERTY CallReturns
