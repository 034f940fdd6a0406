\* Both clients may be slow; the second never needs to read at all.
CONSTANTS
  s1 = s1
  s2 = s2
  None = None
  Sessions = {s1, s2}
  Readers = {s1}
  MaxSeq = 3
SPECIFICATION FairSpec
INVARIANTS
  TypeOK
  InOrder
  NoneMissed
  OneWriteInFlight
  NoStalledQueue
  NoExpiredEntry
  MainNeverLastOwner
PROPERTIES
  FanOutSpec
  PublishedIsDelivered
  DeadSessionIsReclaimed
  ShutdownCompletes
