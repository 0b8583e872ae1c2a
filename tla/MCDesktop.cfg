SPECIFICATION Spec
CHECK_DEADLOCK FALSE
CONSTANTS
  Names = {o1, o2}
  Count = 2
  Windows = {w1, w2}
  XWayland = {w2}
  None = None
SYMMETRY Symmetry
INVARIANTS
  TypeOK
  WorkspacesKept
  OnOneWorkspace
  ActiveIsListed
PROPERTIES
  
  SwitchingShows
  ComesBackAsItWas
