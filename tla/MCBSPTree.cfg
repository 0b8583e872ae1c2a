SPECIFICATION Spec
CONSTANTS
  Toplevels = {a, b, c, d}
  None = None
  Bounds <- MCBounds
  Cursors <- MCCursors
  Edges <- MCEdges
SYMMETRY Symmetry
VIEW Shape
INVARIANTS
  TypeOK
  Full
  Partition
PROPERTIES
  RoomIsShared
  KeepsOrder
