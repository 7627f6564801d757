SPECIFICATION Spec
CONSTANTS
  Window = {a, b, c}
  Root = Root
  Background = Background
  Global = Global
  colorCount = 4
  glob_sharedcolors = 2
  Colour = {r, s}
  NoColour = NoColour
  MaxRequests = 3
INVARIANTS TablesLive ColoursKnown CountsExact
PROPERTY Isolated
SYMMETRY Symmetry
