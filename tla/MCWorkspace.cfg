SPECIFICATION Spec
CONSTANTS
  Toplevels = {a, b}
  None = None
SYMMETRY Symmetry
VIEW WithoutBoxes
INVARIANTS
  TypeOK
  OneLeaf
PROPERTIES
  ActiveIsListed
  LayoutIsOwed
