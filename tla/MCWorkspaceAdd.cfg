SPECIFICATION Spec
CONSTANTS
  Toplevels = {a, b, c}
  None = None
SYMMETRY Symmetry
PROPERTIES
  AddTilesAll
