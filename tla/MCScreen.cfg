SPECIFICATION Spec
CONSTANTS
  w1 = w1
  w2 = w2
  w3 = w3
  Window = {w1, w2}
  Bordered = {w1}
  Container = {}
  ScreenSize <- LongStrip
  Border <- SideBorder
  Sizes <- Wide
  Positions <- Inside
  Plane <- Near
  NoWin = NoWin
INVARIANTS
  TypeOK
  VisibleExact
  HiddenExact
  NothingLost
  ScreenExact
