\* A failed reading of /proc/stat spoils the sample after it.
CONSTANTS
  MaxPid = 1
  Rows = 1
  MaxTicks = 4
SPECIFICATION Spec
INVARIANT SharesSinceLastSample
