SPECIFICATION FairSpec
CONSTANTS
  Toplevels = {a}
  XWayland = {}
  TxnId = {t1, t2, t3}
  Geoms = {g, zero}
  NoBox = {zero}
  ZeroBox = zero
  OneByOne = g
  Natural = g
  None = None
PROPERTIES
  TransactionEnds
  HiddenIsShown
