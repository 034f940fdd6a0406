CONSTANTS
  k1 = k1
  k2 = k2
  t1 = t1
  t2 = t2
  None = None
  pid = pid
  cpu = cpu
  Sockets = {k1, k2}
  Timers = {t1, t2}
  Keys = {pid, cpu}
  CpuPercent = cpu
  MaxCalls = 1
  HistoryLength = 2
  MaxSeq = 1
SPECIFICATION DSpec
INVARIANT ClickSorts
