SPECIFICATION Spec
CONSTANTS
  w1 = w1
  w2 = w2
  w3 = w3
  Window = {w1, w2, w3}
  Bordered = {w3}
  Container = {w3}
  ScreenSize <- Strip
  Border <- SideBorder
  Sizes <- Small
  Positions <- Inside
  Plane <- OnStrip
  NoWin = NoWin
INVARIANTS
  NothingLost
  ScreenExact
  InPlace
SYMMETRY Symmetry
