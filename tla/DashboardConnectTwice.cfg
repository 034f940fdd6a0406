CONSTANTS
  k1 = k1
  k2 = k2
  t1 = t1
  t2 = t2
  None = None
  pid = pid
  cpu = cpu
  Sockets = {k1, k2}
  Timers = {t1, t2}
  Keys = {pid, cpu}
  CpuPercent = cpu
  MaxCalls = 2
  HistoryLength = 2
  MaxSeq = 2
SPECIFICATION DSpec
INVARIANT ChartInOrder
