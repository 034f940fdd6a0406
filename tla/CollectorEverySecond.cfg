\* A process whose name the kernel has cut within a character.
CONSTANTS
  d1 = d1
  rx = rx
  Devices = {d1}
  Fields = {rx}
  MaxCount = 1
  MaxTime = 2
SPECIFICATION CSpec
INVARIANT EverySecond
