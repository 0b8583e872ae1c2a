SPECIFICATION Spec
CONSTANTS
  Outputs = {o1, o2}
  Windows = {w1, w2, w3}
  Layers = {bar}
  Lockers = {a, b}
  FocusOnHover = TRUE
  None = None
SYMMETRY Symmetry
INVARIANTS
  TypeOK
  OneLock
  SurfacesAreKnown
  InhibitorLives
PROPERTIES
  OnlyHolderUnlocks
  UnlockRestores
  LockKeepsKeyboard
