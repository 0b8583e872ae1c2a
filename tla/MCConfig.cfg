SPECIFICATION FairSpec
CHECK_DEADLOCK FALSE
CONSTANTS
  Texts <- MCTexts
  Stamps <- MCStamps
  Compiles <- MCCompiles
  Absent = Absent
  Broken = Broken
  Keyboards = {a, b}
  Pointers = {p}
INVARIANTS
  TypeOK
  FollowsFile
PROPERTIES
  PicksUp
