SPECIFICATION FairSpec
CONSTANTS
  v = v
  w = w
  Window = {v, w}
  Deletable = {w}
  Timeouts = {"poll", "wait"}
  MaxEvents = 3
  OutSize = 2
  SocketSize = 3
  MaxInput = 4
  NoWin = NoWin
INVARIANTS
  TypeOK
  RepliesPaired
  EventsKnown
PROPERTIES
  IsQueue
  Answered
\* w_queryevent() may sleep for ever while events wait in ibuf (lib/socket.c:319).
CHECK_DEADLOCK FALSE
