SPECIFICATION Spec
CONSTANTS
  Process = {p, q}
  Clip = {t, u}
  Data = {d}
  Last = 1
  MaxPieces = 2
  NoClip = NoClip
  Hole = Hole
SYMMETRY Symmetry
INVARIANTS Exclusion ReadWhole NoLockLeft
