SPECIFICATION Spec
CONSTANTS
  Toplevels = {a, b}
  XWayland = {b}
  TxnId = {t1, t2}
  Geoms = {g, zero}
  NoBox = {zero}
  ZeroBox = zero
  OneByOne = g
  Natural = g
  None = None
SYMMETRY Symmetry
INVARIANTS
  TypeOK
  EveryTransactionPending
  InTransactionCovered
  FreedHasLeft
PROPERTIES
  AtomicLayout
  LastAnswerEnds
VIEW Distinct
