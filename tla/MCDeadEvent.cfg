SPECIFICATION Spec
CONSTANTS
  v = v
  w = w
  Window = {v, w}
  Deletable = {w}
  Timeouts = {"poll"}
  MaxEvents = 3
  OutSize = 2
  SocketSize = 3
  MaxInput = 3
  NoWin = NoWin
INVARIANTS
  NoDeadEvent
