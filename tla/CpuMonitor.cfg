CONSTANTS
  Cpus = {0, 1, 2}
  Width = 4
  MaxTicks = 2
SPECIFICATION Spec
INVARIANTS
  TypeOK
  OwnUsage
  TotalUsage
