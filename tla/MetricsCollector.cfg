CONSTANTS
  d1 = d1
  d2 = d2
  rx = rx
  Devices = {d1, d2}
  Fields = {rx}
  MaxCount = 2
  MaxTime = 3
SPECIFICATION CSpec
SYMMETRY Symmetry
INVARIANTS
  CTypeOK
  CountedOnce
  NoPhantomTraffic
  IntervalsTile
  CaughtUp
  ShownWasMoved
