SPECIFICATION FairSpec
CONSTANTS
  c1 = c1
  c2 = c2
  c3 = c3
  fixed = fixed
  lucida = lucida
  Client = {c1, c2, c3}
  Font = {fixed, lucida}
  TitleFont = fixed
  MenuFont = fixed
  MaxFonts = 3
  NoFont = NoFont
  NoClient = NoClient
  MaxPackets = 2
INVARIANTS
  UsesExact
  ListOK
  NothingLeft
  EveryoneServed
  SaverStopped
PROPERTIES
  FontKept
  
\* The server stops when it is told to and its last client is gone.
CHECK_DEADLOCK FALSE
