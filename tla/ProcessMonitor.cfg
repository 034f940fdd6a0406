CONSTANTS
  MaxPid = 2
  Rows = 1
  MaxTicks = 3
SPECIFICATION Spec
INVARIANTS
  TypeOK
  ShareOfWhole
  NoPhantomTicks
  TicksShownOnce
  PrevIsBounded
  HogIsListed
