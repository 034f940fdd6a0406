\* One client's request for a directory ends the io thread for all.
CONSTANTS
  s1 = s1
  s2 = s2
  None = None
  Sessions = {s1, s2}
  Readers = {s1, s2}
  MaxSeq = 2
SPECIFICATION FairSpec
PROPERTY EveryClientIsServed
