SPECIFICATION Spec
CONSTANTS
  a = a
  b = b
  Client = {a, b}
  Trusted = {a}
  NumIds = 4
  FlagSets <- AllKinds
  Presses <- OneButton
  NoWin = NoWin
INVARIANTS
  LoopMoveLive
