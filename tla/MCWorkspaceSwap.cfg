SPECIFICATION Spec
CONSTANTS
  Toplevels = {a, b, c}
  None = None
SYMMETRY Symmetry
INVARIANTS
  Sized
